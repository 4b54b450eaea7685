----------------------------- MODULE HandlersInv -----------------------------
(***************************************************************************)
(* The inductive invariant behind what the two handlers of a connection    *)
(* make of the bytes they get, in the parts in which Handlers_proofs.tla   *)
(* proves it.                                                              *)
(***************************************************************************)
EXTENDS Handlers

\* Both deserializers are ones that the limit has held for, and so is what
\* they delivered.
LimitInv ==
    /\ TypeOK
    /\ params \subseteq Within
    /\ deserializer \in Moderate /\ handler \in Moderate

\* While records hold whole pairs the list is cut in two at a pair: the map
\* is that of the pairs before it, the bytes are those of the pairs after
\* it, and the parser waits for a new pair.
ParamsInv ==
    process = "running" /\ whole /\ begins > 0 =>
      IF phase = "ready" THEN \E j \in DOMAIN pairs : Oversize(pairs[j])
      ELSE \E j \in 0..Len(pairs) :
             /\ left = SerializeAll(From(pairs, j))
             /\ params = MapOf(Upto(pairs, j))
             /\ phase = "params" => Clean(deserializer)

\* The first stream is cut in the same way.  The result stream has a buffer
\* until that stream ends, and no later one is answered.
AnswersInv ==
    /\ result.attached <=> ~closed /\ (queries = 0 \/ (queries = 1 /\ asking))
    /\ queries = 0 => ~asking /\ first = <<>>
    /\ queries = 1 /\ asking => asked = first
    /\ ~asking => ahead = <<>>
    /\ result.eof = IF ~result.attached /\ result.written # <<>> THEN 1 ELSE 0
    /\ process = "running" /\ tidy =>
         \E j \in 0..Len(first) :
           /\ result.written = SerializeAll(AnswersTo(Upto(first, j)))
           /\ IF queries > 1 THEN j = Len(first)
              ELSE ahead = SerializeAll(From(first, j)) /\ Clean(handler)

HandlersIInv == LimitInv /\ ParamsInv /\ AnswersInv
=============================================================================
