---------------------------- MODULE MCDataAccess ----------------------------
(***************************************************************************)
(* A behaviour is of one of these kinds:                                   *)
(*   one id     two transactional calls of one correlation id, then a third *)
(*   two ids    two calls of different ones                                *)
(*   setup      three Setup(), a Destroy() and two failures                *)
(*   query      three filters on two fields, over all small documents      *)
(*   pages      a reader of either version                                 *)
(***************************************************************************)
EXTENDS DataAccess

CONSTANTS i1, i2

VARIABLE kind

KindInit ==
  /\ kind \in {"one id", "two ids", "setup", "query", "pages"}
  /\ Init /\ Sources!Init /\ Query!Init /\ Pages!Init
  /\ cid = [c \in Calls |-> IF kind = "two ids" /\ c = 2 THEN i2 ELSE i1]
  /\ kind # "setup" => missing = {}
  /\ kind # "pages" =>
       /\ version = "pagination" /\ total = 0
       /\ \A page \in {asked.page, asked.perPage} : page = Null

\* Two calls at once, and one that finds what they left behind.
ThirdIsLast == call'[3].pc # "new" => call[1].pc = "done" /\ call[2].pc = "done"

Read == kind = "pages" /\ Pages!Next

KindNext ==
  /\ kind' = kind
  /\ \/ /\ kind \in {"one id", "two ids"}
        /\ Next
        /\ IF kind = "one id" THEN ThirdIsLast ELSE call'[3].pc = "new"
        /\ UNCHANGED <<setupVars, queryVars, pageVars>>
     \/ kind = "setup" /\ Sources!Next /\ UNCHANGED <<vars, queryVars, pageVars>>
     \/ kind = "query" /\ Query!Next /\ UNCHANGED <<vars, setupVars, pageVars>>
     \/ Read /\ UNCHANGED <<vars, setupVars, queryVars>>

\* The fairness of Transactions, and of Pagination where a behaviour is of it.
KindSpec ==
  /\ KindInit /\ [][KindNext]_<<kind, vars, setupVars, queryVars, pageVars>>
  /\ Fairness
  /\ WF_pageVars(Read)

-----------------------------------------------------------------------------

\* Transactional calls end, and readers of either pagination come back to where
\* they were.
CallsAndReadersEnd ==
  /\ EveryCallEnds
  /\ kind # "pages" \/ Pages!ReadersComeBack

=============================================================================
