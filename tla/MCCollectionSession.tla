------------------------ MODULE MCCollectionSession ------------------------
(***************************************************************************)
(* Three codes of which two pass: one failure is tolerated and two abort,  *)
(* two timeouts in a row trip the breaker.  Three invocations start,       *)
(* resume and repair a session.                                            *)
(***************************************************************************)
EXTENDS CollectionSession

TwoPass == {1, 2}
OneShort == {3}
OneRowless == {2}
=============================================================================
