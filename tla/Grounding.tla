----------------------------- MODULE Grounding ------------------------------
(***************************************************************************)
(* What a cited message is checked against: the three inventories of a     *)
(* decoded export.  triage accepts a claim by search.py's inventory, its   *)
(* report looks it up by report.py's, and dispatch re-checks it by         *)
(* pcap.py's and names it by a handle that evidence.py resolves.  Times    *)
(* are in units of 0.1 ms, so the tolerance of 5e-4 s is 5.                *)
(***************************************************************************)
EXTENDS Integers, Sequences, FiniteSets, SequencesExt, FiniteSetsExt, Sorting

CONSTANT None       \* a claim without time or cause, a message without cause or flow

VARIABLE export     \* the messages: N2 by flow, unassociated, N4, SBI

\* A message has a plane, a flow, the names it shows, a time and a cause.
Near(s, t) == s - t < 5 /\ t - s < 5
Matches(i, claim) ==
  /\ claim.ts # None
  /\ claim.name \in export[i].names
  /\ Near(export[i].ts, claim.ts)

First(S) == IF S = {} THEN 0 ELSE Min(S)

\* Mutant: one cause per name, whatever the time.
CauseOfName(name, ts) == export[Max({i \in DOMAIN export : name \in export[i].names})].cause

\* search.py: one cause per name and time, the last message's of the export.
InventoryCause(name, ts) ==
  export[Max({i \in DOMAIN export : name \in export[i].names /\ export[i].ts = ts})].cause

Grounded(claim) ==
  \E i \in DOMAIN export :
    /\ Matches(i, claim)
    /\ claim.cause # None => InventoryCause(claim.name, export[i].ts) = claim.cause

\* pcap.py: the first message of that name, time and, if one is claimed, cause.
Located(claim) ==
  First({i \in DOMAIN export :
           Matches(i, claim) /\ (claim.cause # None => export[i].cause = claim.cause)})

\* report.py: the first message of that name and time, whatever its cause.
Attributed(claim) == First({i \in DOMAIN export : Matches(i, claim)})

\* A handle is a section of the export and a position in it, counted from one.
Section(i) == <<export[i].plane, IF export[i].plane = "n2" THEN export[i].flow ELSE None>>
InSection(s) == InOrder({i \in DOMAIN export : Section(i) = s})

\* Mutant: positions count from zero.
PlainHandle(i) == <<"pcap", Section(i), Cardinality({j \in 1..i : Section(j) = Section(i)}) - 1>>

Handle(i) == <<"pcap", Section(i), Cardinality({j \in 1..i : Section(j) = Section(i)})>>

\* evidence.py: the message a handle shows; out of range it shows none.
Resolve(h) == IF h[3] \in DOMAIN InSection(h[2]) THEN InSection(h[2])[h[3]] ELSE 0
=============================================================================
