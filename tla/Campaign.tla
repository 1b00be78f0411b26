------------------------------ MODULE Campaign ------------------------------
(***************************************************************************)
(* The resumable campaign of harness/campaign.py: run specs played one     *)
(* after the other by a pool of workers, the results kept in a cache file  *)
(* that is rewritten after each spec, and a program that may be            *)
(* interrupted at any point and started again, with or without --resume.   *)
(*                                                                         *)
(* A game is a pure function of its seed, so the record of a game is its   *)
(* seed.  A cache maps labels to sequences of records.                     *)
(***************************************************************************)
EXTENDS Integers, SequencesExt

CONSTANT Specs     \* ALL_RUN_SPECS: a sequence of [label, base_seed, n_games]

ASSUME CampaignAssumption ==
  /\ Specs \in Seq(ToSet(Specs)) /\ Specs # <<>>
  /\ \A i \in DOMAIN Specs : Specs[i].base_seed \in Nat /\ Specs[i].n_games \in Nat \ {0}
  /\ \A i, j \in DOMAIN Specs : Specs[i].label = Specs[j].label => i = j

VARIABLES
  program,  \* what the program does: off, running, writing or finished
  resume,   \* it was started with --resume
  file,     \* the text of the cache file: none, torn, or a cache
  cache,    \* the cache in memory
  at,       \* the spec it has come to
  results   \* that spec's records, in the order in which its games ended

vars == <<program, resume, file, cache, at, results>>

NoCache == [label \in {} |-> <<>>]
None    == [kind |-> "none"]
Torn    == [kind |-> "torn"]
Text(c) == [kind |-> "cache", cache |-> c]

spec          == Specs[at]
seeds(s)      == s.base_seed..(s.base_seed + s.n_games - 1)
records(c, s) == IF s.label \in DOMAIN c THEN c[s.label] ELSE <<>>
fully_present(c, s) == Len(records(c, s)) >= s.n_games
incomplete(c) == {i \in DOMAIN Specs : ~ fully_present(c, Specs[i])}

Init ==
  /\ program = "off"
  /\ resume = FALSE
  /\ file = None
  /\ cache = NoCache
  /\ at = 1
  /\ results = <<>>

-----------------------------------------------------------------------------
\* Fault: the cache is started anew whatever the file holds.
forgets(r) == {NoCache}

\* A torn file makes json.loads raise: the program does not start.
loaded(r) ==
  CASE ~ r \/ file = None  -> {NoCache}
    [] r /\ file = Torn    -> {}
    [] OTHER               -> {file.cache}

start(r) ==
  /\ program \in {"off", "finished"}
  /\ \E c \in loaded(r) : cache' = c
  /\ program' = "running"
  /\ resume' = r
  /\ at' = 1
  /\ results' = <<>>
  /\ UNCHANGED file

skip ==
  /\ program = "running" /\ at <= Len(Specs)
  /\ resume /\ fully_present(cache, spec)
  /\ at' = at + 1
  /\ UNCHANGED <<program, resume, file, cache, results>>

\* Runs the spec it has come to.
plays == /\ program = "running" /\ at <= Len(Specs)
         /\ ~ (resume /\ fully_present(cache, spec))

\* The pool hands over the results of the games in any order.
game_ends ==
  /\ plays
  /\ \E seed \in seeds(spec) \ ToSet(results) : results' = Append(results, seed)
  /\ UNCHANGED <<program, resume, file, cache, at>>

\* Fault: the records stay in the order in which the games ended.
as_completed == results

sorted_by_seed ==
  [k \in DOMAIN results |->
     CHOOSE seed \in ToSet(results) : Cardinality({r \in ToSet(results) : r < seed}) = k - 1]

\* write_text empties the file before it holds the new text.
write ==
  /\ plays
  /\ ToSet(results) = seeds(spec)
  /\ cache' = [label \in DOMAIN cache \cup {spec.label} |->
                 IF label = spec.label THEN sorted_by_seed ELSE cache[label]]
  /\ file' = Torn
  /\ program' = "writing"
  /\ UNCHANGED <<resume, at, results>>

written ==
  /\ program = "writing"
  /\ file' = Text(cache)
  /\ program' = "running"
  /\ at' = at + 1
  /\ results' = <<>>
  /\ UNCHANGED <<resume, cache>>

finish ==
  /\ program = "running" /\ at > Len(Specs)
  /\ program' = "finished"
  /\ UNCHANGED <<resume, file, cache, at, results>>

\* Killed, or stopped by a game that raised: what is in memory is lost.
interrupt ==
  /\ program \in {"running", "writing"}
  /\ program' = "off"
  /\ cache' = NoCache
  /\ at' = 1
  /\ results' = <<>>
  /\ UNCHANGED <<resume, file>>

Next ==
  \/ \E r \in BOOLEAN : start(r)
  \/ skip \/ game_ends \/ write \/ written \/ finish \/ interrupt

(***************************************************************************)
(* The operator starts the program again whenever it will start, with      *)
(* --resume from some time on, and interruptions leave it time, now and    *)
(* then, to finish a spec.                                                 *)
(***************************************************************************)
Fairness ==
  /\ WF_vars(start(TRUE)) /\ <>[]resume
  /\ []<>(program = "running") => ([]<><<written>>_vars \/ <>(program = "finished"))

Spec == Init /\ [][Next]_vars /\ Fairness

-----------------------------------------------------------------------------
\* However often the program is interrupted and started again, a cache file
\* that can be read holds the record of every game of each spec it has, once
\* and in the order of the seeds, and a finished campaign has them all.
EveryGameOnce ==
  /\ file.kind = "cache" =>
       \A i \in DOMAIN Specs :
         records(file.cache, Specs[i]) \in
           {<<>>, [k \in 1..Specs[i].n_games |-> Specs[i].base_seed + k - 1]}
  /\ program = "finished" => file.kind = "cache" /\ incomplete(file.cache) = {}

\* A campaign survives its interruptions (the docstring of run_full_campaign):
\* the cache comes to hold every game of every spec, unless an interruption hit
\* the write itself and left a file that no start can read.
complete == file.kind = "cache" /\ incomplete(file.cache) = {}
Finishes == <>complete \/ <>[](file = Torn)
=============================================================================
