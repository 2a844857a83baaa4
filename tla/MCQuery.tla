------------------------------- MODULE MCQuery -------------------------------
(* Two tables of one field, joined, with themselves too, and two views.       *)
EXTENDS Query

F(f) == [field |-> f]
C(c) == [const |-> c]
Equal(x, y) == [lhs |-> x, rhs |-> y]
Select(fields, from, where) == [select |-> fields, from |-> from, where |-> where]
Delete(t, where) == [kind |-> "delete", table |-> t, where |-> where]
Modify(t, f, value, where) ==
  [kind |-> "modify", table |-> t, field |-> f, value |-> value, where |-> where]

MCFieldsOf == [t |-> {"a"}, u |-> {"b"}]
MCViewDef ==
  [ones |-> Select(<<"b">>, <<"u">>, <<Equal(F("b"), C(1))>>),
   pairs |-> Select(<<"a", "b">>, <<"t", "u">>, <<>>)]
MCQueries ==
  {Select(<<"a">>, <<"t">>, <<Equal(F("a"), C(1)), Equal(C(0), F("a"))>>),
   Select(<<"b", "a">>, <<"t", "u">>, <<Equal(F("a"), F("b"))>>),
   Select(<<"a">>, <<"t", "ones">>, <<>>),
   Select(<<"b", "a">>, <<"ones", "t", "t">>, <<Equal(F("a"), C(0))>>),
   Select(<<"a">>, <<"pairs", "u">>, <<>>)}
MCUpdates ==
  {Delete("t", <<Equal(F("a"), C(1))>>), Delete("u", <<>>),
   Modify("t", "a", C(0), <<Equal(F("a"), C(1)), Equal(F("a"), F("a"))>>),
   Modify("u", "b", C(1), <<Equal(C(0), F("b"))>>)}
=============================================================================
