-------------------------- MODULE MCHistoryPaging --------------------------
(* Up to four messages; the third fills a frame by itself. *)
EXTENDS HistoryPaging, TLC

MCSizeOf == 3 :> 9 @@ [m \in 1..MaxLog |-> 1]
=============================================================================
