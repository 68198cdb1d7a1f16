----------------------------- MODULE Checkpoint -----------------------------
(***************************************************************************)
(* The Checkpoint: the latest state of each data item (spec, sections 3    *)
(* and 8; its source is not part of this repository).  A SAMPLE or EVENT   *)
(* item keeps its last observation.  A CONDITION item keeps the ordered    *)
(* list of its active non-NORMAL entries, keyed by nativeCode: an entry    *)
(* with a new code is appended, one with a known code replaces that entry, *)
(* and a NORMAL with an empty code clears the list.  getObservations gives *)
(* one NORMAL placeholder for a condition with no active entry.            *)
(*                                                                         *)
(* A NORMAL with a non-empty code and the UNAVAILABLE level are not        *)
(* inputs: the spec does not say what they do.                             *)
(***************************************************************************)
EXTENDS Naturals, Sequences, SequencesExt, FiniteSets

CONSTANTS
  SampleItems,     \* SAMPLE/EVENT data items
  ConditionItems,  \* CONDITION data items
  Values,          \* values of sample observations
  Codes,           \* non-empty native codes
  Messages,        \* condition texts
  MaxAdds          \* most observations added

ActiveLevels == {"WARNING", "FAULT"}

NoObs == [item |-> "none", seq |-> 0]

VARIABLES
  latest,  \* [SampleItems -> the last observation, or NoObs]
  active,  \* [ConditionItems -> Seq of active condition entries]
  seq,     \* sequence number of the last observation added
  hist     \* every observation added, in order (history)

vars == <<latest, active, seq, hist>>

Init ==
  /\ latest = [i \in SampleItems |-> NoObs]
  /\ active = [i \in ConditionItems |-> <<>>]
  /\ seq = 0
  /\ hist = <<>>

\* addObservation of a sample or event: last write wins.
AddSample(i, v) ==
  /\ seq < MaxAdds
  /\ LET o == [item |-> i, value |-> v, seq |-> seq + 1]
     IN /\ latest' = [latest EXCEPT ![i] = o]
        /\ hist' = Append(hist, o)
  /\ seq' = seq + 1
  /\ UNCHANGED active

\* Mutant: an entry is appended even when its code is already active.
AddConditionAppend(list, o) == Append(list, o)

\* The active list of a condition after the non-NORMAL entry o.
AddCondition(list, o) ==
  IF \E k \in 1..Len(list) : list[k].code = o.code
  THEN [k \in 1..Len(list) |-> IF list[k].code = o.code THEN o ELSE list[k]]
  ELSE Append(list, o)

\* Mutant: a NORMAL is added to the active list instead of clearing it.
AddConditionObservationNoClear(i, lvl, c, m) ==
  /\ seq < MaxAdds
  /\ \/ lvl = "NORMAL" /\ c = ""
     \/ lvl \in ActiveLevels /\ c \in Codes
  /\ LET o == [item |-> i, level |-> lvl, code |-> c, message |-> m, seq |-> seq + 1]
     IN /\ active' = [active EXCEPT ![i] = AddCondition(@, o)]
        /\ hist' = Append(hist, o)
  /\ seq' = seq + 1
  /\ UNCHANGED latest

\* addObservation of a condition: a NORMAL with an empty code clears the
\* item, any other level is added to its active list.
AddConditionObservation(i, lvl, c, m) ==
  /\ seq < MaxAdds
  /\ \/ lvl = "NORMAL" /\ c = ""
     \/ lvl \in ActiveLevels /\ c \in Codes
  /\ LET o == [item |-> i, level |-> lvl, code |-> c, message |-> m, seq |-> seq + 1]
     IN /\ active' = [active EXCEPT ![i] = IF lvl = "NORMAL" THEN <<>>
                                           ELSE AddCondition(@, o)]
        /\ hist' = Append(hist, o)
  /\ seq' = seq + 1
  /\ UNCHANGED latest

\* getObservations: the flat list, samples first, then each condition's
\* active entries or one NORMAL placeholder.
GetObservations(samples, conds) ==
  [k \in 1..Len(samples) |-> latest[samples[k]]]
    \o FlattenSeq([k \in 1..Len(conds) |->
                     IF active[conds[k]] = <<>>
                     THEN <<[item |-> conds[k], level |-> "NORMAL"]>>
                     ELSE active[conds[k]]])

Next ==
  \/ \E i \in SampleItems, v \in Values : AddSample(i, v)
  \/ \E i \in ConditionItems, m \in Messages :
       \/ AddConditionObservation(i, "NORMAL", "", m)
       \/ \E lvl \in ActiveLevels, c \in Codes : AddConditionObservation(i, lvl, c, m)

Spec == Init /\ [][Next]_vars

-----------------------------------------------------------------------------

TypeOK ==
  /\ seq \in 0..MaxAdds
  /\ Len(hist) = seq
  /\ \A i \in SampleItems : latest[i] = NoObs \/ latest[i].item = i
  /\ \A i \in ConditionItems : \A k \in 1..Len(active[i]) :
        active[i][k].level \in ActiveLevels /\ active[i][k].code \in Codes

\* The history of condition item i since its last NORMAL, NORMALs excluded.
SinceClear(i) ==
  LET obs == {hist[k] : k \in 1..Len(hist)}
      clears == {o.seq : o \in {o \in obs : o.item = i /\ o.level = "NORMAL"}}
      last == IF clears = {} THEN 0 ELSE Max(clears)
  IN {o \in obs : o.item = i /\ o.seq > last /\ o.level # "NORMAL"}

\* The state condition item i should report, read off the history: one
\* entry per code raised since the last clear, the latest one for that
\* code, ordered by when the code was first raised; NORMAL if there is none.
ExpectedCondition(i) ==
  LET since == SinceClear(i)
      codes == {o.code : o \in since}
      first(c) == Min({o.seq : o \in {o \in since : o.code = c}})
      latestOf(c) == CHOOSE o \in since :
                       o.code = c /\ \A p \in since : p.code = c => p.seq <= o.seq
      order == SetToSortSeq(codes, LAMBDA a, b : first(a) < first(b))
  IN IF codes = {} THEN <<[item |-> i, level |-> "NORMAL"]>>
     ELSE [k \in 1..Len(order) |-> latestOf(order[k])]

(* What getObservations reports for a condition is what its history        *)
(* implies (spec, section 8): each fault code raised since the last NORMAL  *)
(* appears once, with its latest message, in the order the codes were       *)
(* first raised, and a NORMAL with no code collapses everything to one      *)
(* NORMAL entry.  Violating it takes several additions to one item.         *)
ConditionsFromHistory ==
  \A i \in ConditionItems : GetObservations(<<>>, <<i>>) = ExpectedCondition(i)
====
