------------------------ MODULE MCReportPublication ------------------------
(***************************************************************************)
(* Two days, two reports of the first and one of the second, one of them   *)
(* longer than what is published of it; two writers.                       *)
(***************************************************************************)
EXTENDS ReportPublication

Report(day, session, strong) ==
    [day |-> day, session |-> session, strong |-> strong, review |-> <<>>]

MCSources == {Report(1, 1, <<1, 2, 3, 4>>), Report(1, 2, <<1>>), Report(2, 3, <<2>>)}
=============================================================================
