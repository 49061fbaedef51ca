------------------------------- MODULE Triage -------------------------------
(***************************************************************************)
(* The triage command: triage/cli.py analyze with triage/memory.py.  Every *)
(* analysis detects its incidents, and for each of them seeds a search     *)
(* with past Episodes, searches (module Lats; here its result), and        *)
(* consolidates the Episode into a store that all analyses append to.  The *)
(* store is a text file: a write that stops half-way leaves a line without *)
(* end, and the next Episode is appended to that line.                     *)
(***************************************************************************)
EXTENDS Integers, Sequences, FiniteSets, SequencesExt, Sorting

CONSTANTS
  Analyses,      \* the concurrent runs of `triage analyze`
  Episodes,      \* the Episodes a search may return
  Incidents,     \* Incidents[p]: the incidents of p's capture, in detection order
  Torn           \* how a write may stop: "part", "no newline", "split"

TriageAssumption ==
  /\ \A e \in Episodes :
       /\ {"key", "causes", "names", "procedure"} \subseteq DOMAIN e
       /\ IsFiniteSet(e.causes) /\ IsFiniteSet(e.names)
  /\ Torn \subseteq {"part", "no newline", "split"}

ASSUME TriageAssumption

VARIABLES
  file,          \* the store's lines: the writes on each, and whether the line ended
  pc,            \* where each analysis is
  n,             \* the incident it works on
  seeds,         \* the past Episodes its search was seeded with
  found,         \* the Episode its search returned
  results,       \* its results so far
  begun          \* history: the Episodes committed when it began

triageVars == <<file, pc, n, seeds, found, results, begun>>

None == [key |-> "none", causes |-> {}, names |-> {}, procedure |-> "none"]

Write(e, p, shape) == [episode |-> e, by |-> p, shape |-> shape]

\* load: a line is an Episode when it holds one write, and all of it but the newline.
IsRecord(line) == Len(line.writes) = 1 /\ line.writes[1].shape \in {"whole", "no newline"}
Records == {i \in DOMAIN file : IsRecord(file[i])}
EpisodeAt(i) == file[i].writes[1].episode
Keys == {EpisodeAt(i).key : i \in Records}

\* The Episodes whose line ended: no later append can spoil them.
Committed == {EpisodeAt(i) : i \in {i \in Records : file[i].ended}}

\* A multi-byte character cut in two makes the whole file unreadable as text.
Undecodable == \E i \in DOMAIN file : \E w \in Range(file[i].writes) : w.shape = "split"

\* add: append to the file, which need not end with a newline.
Appended(w) ==
  IF file # <<>> /\ ~Last(file).ended
  THEN Append(Front(file), [writes |-> Append(Last(file).writes, w), ended |-> w.shape = "whole"])
  ELSE Append(file, [writes |-> <<w>>, ended |-> w.shape = "whole"])

\* memory_context: three points a shared cause, two for the same procedure, one a shared
\* message name; two points are relevant, the best three shown, later Episodes first.
Score(e, incident) ==
  3 * Cardinality(e.causes \cap incident.causes) + Cardinality(e.names \cap incident.names)
    + (IF incident.procedure # "none" /\ e.procedure = incident.procedure THEN 2 ELSE 0)

\* Mutant: the procedure alone makes an Episode relevant, and the newest are shown.
Newest(incident) ==
  LET ofIts == {i \in Records : EpisodeAt(i).procedure = incident.procedure}
  IN SortedBy(ofIts, {x \in ofIts \X ofIts : x[1] > x[2]})

Before(i, j, incident) ==
  \/ Score(EpisodeAt(i), incident) > Score(EpisodeAt(j), incident)
  \/ Score(EpisodeAt(i), incident) = Score(EpisodeAt(j), incident) /\ i > j

Ranked(incident) ==
  LET relevant == {i \in Records : Score(EpisodeAt(i), incident) >= 2}
  IN SortedBy(relevant, {x \in relevant \X relevant : Before(x[1], x[2], incident)})

Seeds(incident) ==
  LET ranked == Ranked(incident) IN [k \in DOMAIN ranked \cap 1..3 |-> EpisodeAt(ranked[k])]

Incident(p) == Incidents[p][n[p]]

TriageInit ==
  /\ file = <<>>
  /\ pc = [p \in Analyses |-> "idle"]
  /\ n = [p \in Analyses |-> 1]
  /\ seeds = [p \in Analyses |-> <<>>]
  /\ found = [p \in Analyses |-> None]
  /\ results = [p \in Analyses |-> <<>>]
  /\ begun = [p \in Analyses |-> {}]

Goto(p, where) == pc' = [pc EXCEPT ![p] = where]

Begin(p) ==
  /\ pc[p] = "idle"
  /\ Goto(p, "next")
  /\ begun' = [begun EXCEPT ![p] = Committed]
  /\ UNCHANGED <<file, n, seeds, found, results>>

\* The next incident, seeded from the store as it is now; with none left, the output.
NextIncident(p) ==
  /\ pc[p] = "next"
  /\ ~(Undecodable /\ n[p] <= Len(Incidents[p]))
  /\ IF n[p] <= Len(Incidents[p])
     THEN Goto(p, "search") /\ seeds' = [seeds EXCEPT ![p] = Seeds(Incident(p))]
     ELSE Goto(p, "output") /\ UNCHANGED seeds
  /\ UNCHANGED <<file, n, found, results, begun>>

\* A store that is not text raises where no one catches it.
Unreadable(p) ==
  /\ \/ pc[p] = "next" /\ n[p] <= Len(Incidents[p])
     \/ pc[p] = "load"
  /\ Undecodable
  /\ Goto(p, "crashed")
  /\ UNCHANGED <<file, n, seeds, found, results, begun>>

Found(p, e) ==
  /\ pc[p] = "search"
  /\ found' = [found EXCEPT ![p] = e]
  /\ Goto(p, "load")
  /\ UNCHANGED <<file, n, seeds, results, begun>>

Record(p, key, wrote) ==
  /\ results' = [results EXCEPT ![p] = Append(@, [key |-> key, wrote |-> wrote])]
  /\ n' = [n EXCEPT ![p] = @ + 1]
  /\ Goto(p, "next")

FoundNothing(p) ==
  /\ pc[p] = "search"
  /\ Record(p, "none", FALSE)
  /\ UNCHANGED <<file, seeds, found, begun>>

\* RuntimeError (no API key): the run ends without output; what it stored stays stored.
SearchFails(p) ==
  /\ pc[p] = "search"
  /\ Goto(p, "exit 1")
  /\ UNCHANGED <<file, n, seeds, found, results, begun>>

\* Mutant: consolidation does not look at the store.
LoadNothing(p) ==
  /\ pc[p] = "load"
  /\ Goto(p, "add")
  /\ UNCHANGED <<file, n, seeds, found, results, begun>>

\* consolidate reads the whole store; a known key is not written again.
Load(p) ==
  /\ pc[p] = "load" /\ ~Undecodable
  /\ IF found[p].key \in Keys
     THEN Record(p, found[p].key, FALSE)
     ELSE Goto(p, "add") /\ UNCHANGED <<n, results>>
  /\ UNCHANGED <<file, seeds, found, begun>>

\* Mutant: the store is rewritten from its readable lines.
Rewrite(p) ==
  /\ pc[p] = "add"
  /\ file' = <<[writes |-> <<Write(found[p], p, "whole")>>, ended |-> TRUE]>>
  /\ Record(p, found[p].key, TRUE)
  /\ UNCHANGED <<seeds, found, begun>>

Add(p) ==
  /\ pc[p] = "add"
  /\ file' = Appended(Write(found[p], p, "whole"))
  /\ Record(p, found[p].key, TRUE)
  /\ UNCHANGED <<seeds, found, begun>>

\* The write stops half-way (disk full, killed): the process ends there.
AddTorn(p, shape) ==
  /\ pc[p] = "add"
  /\ file' = Appended(Write(found[p], p, shape))
  /\ Goto(p, "crashed")
  /\ UNCHANGED <<n, seeds, found, results, begun>>

\* --out or --report cannot be written: no output, the store keeps what was learned.
OutputFails(p) ==
  /\ pc[p] = "output"
  /\ Goto(p, "exit 1")
  /\ UNCHANGED <<file, n, seeds, found, results, begun>>

Output(p) ==
  /\ pc[p] = "output"
  /\ Goto(p, "exit 0")
  /\ UNCHANGED <<file, n, seeds, found, results, begun>>

Step(p) ==
  \/ Begin(p) \/ NextIncident(p) \/ Unreadable(p)
  \/ (\E e \in Episodes : Found(p, e)) \/ FoundNothing(p) \/ SearchFails(p)
  \/ Load(p) \/ Add(p) \/ (\E shape \in Torn : AddTorn(p, shape))
  \/ Output(p) \/ OutputFails(p)

TriageNext == \E p \in Analyses : Step(p)

TriageSpec == TriageInit /\ [][TriageNext]_triageVars

-----------------------------------------------------------------------------

Known(p) == {e.key : e \in begun[p]}

(* One analysis stores an Episode once, even when several of its incidents have the same  *)
(* cause, when others append meanwhile and after torn writes; and never one it could read *)
(* when it began (consolidate).                                                           *)
StoredOncePerAnalysis ==
  \A i, j \in DOMAIN file :
    IsRecord(file[i]) /\ IsRecord(file[j]) =>
      LET v == file[i].writes[1]  w == file[j].writes[1] IN
      /\ i # j /\ v.by = w.by => v.episode.key # w.episode.key
      /\ v.episode.key \notin Known(v.by)

(* What an analysis reports as remembered, whether it wrote the Episode or found it       *)
(* stored, is readable from the store ever after, but for a line a torn write stands on:  *)
(* the one loss a stopped process can cause (consolidate, add and load together).         *)
ReportedIsRemembered ==
  \A p \in Analyses : \A r \in Range(results[p]) :
    r.key # "none" =>
      \E line \in Range(file) :
        /\ r.key \in {w.episode.key : w \in Range(line.writes)}
        /\ IsRecord(line) \/ \E w \in Range(line.writes) : w.shape # "whole"

(* The seeds are the best of memory: none is irrelevant, and no Episode left out has a    *)
(* higher score than one shown, nor is any relevant one left out below three              *)
(* (memory_context), of the Episodes stored when the analysis began.                      *)
SeedsAreBest ==
  \A p \in Analyses :
    pc[p] = "search" =>
      /\ Len(seeds[p]) <= 3
      /\ \A i \in DOMAIN seeds[p] : Score(seeds[p][i], Incident(p)) >= 2
      /\ \A i, j \in DOMAIN seeds[p] :
           i < j => Score(seeds[p][i], Incident(p)) >= Score(seeds[p][j], Incident(p))
      /\ \A e \in begun[p] :
           Score(e, Incident(p)) >= 2 =>
             \/ e \in Range(seeds[p])
             \/ /\ Len(seeds[p]) = 3
                /\ \A s \in Range(seeds[p]) : Score(s, Incident(p)) >= Score(e, Incident(p))
=============================================================================
