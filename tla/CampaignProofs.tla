--------------------------- MODULE CampaignProofs ---------------------------
(***************************************************************************)
(* Proof that a campaign loses and doubles no game, whatever its specs are *)
(* and however often it is interrupted and started again.                  *)
(*                                                                         *)
(* EveryGameOnce speaks of the file.  What is written there is the cache   *)
(* in memory, which holds whole specs only because a spec is added when    *)
(* the pool has handed over every seed once (Collecting); and a program    *)
(* that has come past the first spec has written what it holds, or read it *)
(* (Saved), so that at the end nothing is missing from the file.           *)
(***************************************************************************)
EXTENDS Campaign, FiniteSetTheorems, FunctionTheorems, SequenceTheorems, TLAPS

\* The records of every game of a spec, by seed.
whole(s) == [k \in 1..s.n_games |-> s.base_seed + k - 1]
Sound(c) == \A i \in DOMAIN Specs : records(c, Specs[i]) \in {<<>>, whole(Specs[i])}

Types ==
  /\ program \in {"off", "running", "writing", "finished"}
  /\ resume \in BOOLEAN
  /\ file \in {None, Torn} \/ file = Text(file.cache)
  /\ at \in 1..(Len(Specs) + 1)
  /\ program = "writing" => at \in DOMAIN Specs

\* The results at hand are of different games of the spec it has come to.
Collecting ==
  /\ results \in Seq(Nat)
  /\ \A i, j \in DOMAIN results : results[i] = results[j] => i = j
  /\ at \in DOMAIN Specs => ToSet(results) \subseteq seeds(spec)
  /\ program = "running" /\ ~ plays => results = <<>>

Saved ==
  /\ program = "running" =>
       /\ at > 1 => file = Text(cache)
       /\ at = 1 /\ resume => file = Text(cache) \/ cache = NoCache
       /\ \A i \in 1..(at - 1) : fully_present(cache, Specs[i])
  /\ program = "writing" => \A i \in 1..at : fully_present(cache, Specs[i])
  /\ program = "finished" =>
       file = Text(cache) /\ \A i \in DOMAIN Specs : fully_present(cache, Specs[i])

IInv ==
  /\ Types
  /\ Sound(cache)
  /\ file.kind = "cache" => Sound(file.cache)
  /\ Collecting
  /\ Saved

-----------------------------------------------------------------------------
\* A sequence without repetitions is as long as the set of its elements.
LEMMA LengthOfSet ==
  ASSUME NEW s \in Seq(Nat), NEW a \in Nat, NEW n \in Nat,
         \A i, j \in DOMAIN s : s[i] = s[j] => i = j,
         ToSet(s) = a..(a + n - 1)
  PROVE  Len(s) = n
<1> DEFINE S == 1..Len(s)
           T == a..(a + n - 1)
<1>1. Len(s) \in Nat /\ DOMAIN s = S
  OBVIOUS
<1>2. \A i \in S : s[i] \in T
  BY <1>1 DEF ToSet
<1>3. \A t \in T : \E i \in S : s[i] = t
  BY <1>1 DEF ToSet
<1>4. s \in [S -> T]
  BY <1>1, <1>2
<1>5. s \in Bijection(S, T)
  BY <1>1, <1>3, <1>4 DEF Bijection, Injection, Surjection, IsInjective
<1>6. IsFiniteSet(S) /\ Cardinality(S) = Len(s)
  <2>1. PICK l \in Nat : l = Len(s)
    BY <1>1
  <2>2. IsFiniteSet(1..l) /\ Cardinality(1..l) = l
    BY FS_Interval
  <2>3. QED
    BY <2>1, <2>2
<1>7. Cardinality(T) = n
  BY FS_Interval
<1> HIDE DEF S, T
<1>8. ExistsBijection(S, T)
  BY <1>5 DEF ExistsBijection
<1>9. QED
  BY <1>6, <1>7, <1>8, FS_Bijection

\* Sorted by seed, the results of every game are the whole spec.
LEMMA SortedIsWhole ==
  ASSUME NEW s, s.base_seed \in Nat, s.n_games \in Nat,
         results \in Seq(Nat),
         \A i, j \in DOMAIN results : results[i] = results[j] => i = j,
         ToSet(results) = seeds(s)
  PROVE  sorted_by_seed = whole(s)
<1> DEFINE a == s.base_seed
           n == s.n_games
           T == ToSet(results)
           below(x) == {r \in T : r < x}
<1>1. T = a..(a + n - 1)
  BY DEF seeds
<1>2. Len(results) = n /\ DOMAIN results = 1..n
  <2>1. PICK w \in Seq(Nat) : w = results
    OBVIOUS
  <2>2. Len(w) = n
    BY <1>1, <2>1, LengthOfSet
  <2>3. QED
    BY <2>1, <2>2
<1>3. ASSUME NEW x \in T
      PROVE  Cardinality(below(x)) = x - a
  <2>1. x \in Nat /\ a <= x /\ below(x) = a..(x - 1)
    BY <1>1
  <2>2. Cardinality(a..(x - 1)) = x - a
    <3>1. PICK i \in Nat, j \in Int : i = a /\ j = x - 1 /\ (i > j => x = a)
      BY <2>1
    <3>2. Cardinality(i..j) = IF i > j THEN 0 ELSE j - i + 1
      BY FS_Interval
    <3>3. QED
      BY <2>1, <3>1, <3>2
  <2>3. QED
    BY <2>1, <2>2
<1>4. ASSUME NEW k \in 1..n
      PROVE  (CHOOSE x \in T : Cardinality(below(x)) = k - 1) = a + k - 1
  <2>1. a + k - 1 \in T /\ \A x \in T : x - a = k - 1 <=> x = a + k - 1
    BY <1>1
  <2>2. \A x \in T : Cardinality(below(x)) = k - 1 <=> x = a + k - 1
    BY <1>3, <2>1
  <2> HIDE DEF T, below
  <2>3. QED
    BY <2>1, <2>2
<1>5. QED
  BY <1>2, <1>4 DEF sorted_by_seed, whole

\* A whole spec is fully present, and nothing less than it is.
LEMMA WholeIsPresent ==
  ASSUME NEW i \in DOMAIN Specs, NEW c, Sound(c)
  PROVE  /\ fully_present(c, Specs[i]) <=> records(c, Specs[i]) = whole(Specs[i])
         /\ ~ fully_present(c, Specs[i]) <=> records(c, Specs[i]) = <<>>
<1>1. Specs[i].n_games \in Nat \ {0}
  BY CampaignAssumption
<1>2. whole(Specs[i]) \in [1..Specs[i].n_games -> Int]
  <2>1. Specs[i].base_seed \in Nat
    BY CampaignAssumption
  <2>2. QED
    BY <1>1, <2>1 DEF whole
<1>3. Len(whole(Specs[i])) = Specs[i].n_games
  BY <1>1, <1>2
<1>4. Len(<<>>) = 0
  OBVIOUS
<1>5. QED
  BY <1>1, <1>3, <1>4 DEF Sound, fully_present

\* There is nothing in memory or in the file at the start.
LEMMA InitIInv ==
  Init => IInv
<1>1. SUFFICES ASSUME Init PROVE IInv
  OBVIOUS
<1>2. Len(Specs) \in Nat \ {0} /\ DOMAIN Specs = 1..Len(Specs)
  BY CampaignAssumption
<1>3. Sound(cache)
  BY <1>1 DEF Init, Sound, records, NoCache
<1>4. Types
  <2>1. 1 \in 1..(Len(Specs) + 1)
    BY <1>2
  <2>2. QED
    BY <1>1, <2>1 DEF Init, Types
<1>5. Saved
  BY <1>1 DEF Init, Saved
<1>6. ToSet(<<>>) = {}
  BY DEF ToSet
<1>7. Collecting
  BY <1>1, <1>2, <1>6 DEF Init, Collecting, seeds
<1>8. QED
  BY <1>1, <1>3, <1>4, <1>5, <1>7 DEF Init, IInv, None

\* The program is started, on an empty cache or on what the file holds.
LEMMA StartKeeps ==
  ASSUME IInv, NEW r \in BOOLEAN, start(r)
  PROVE  IInv'
<1>1. Len(Specs) \in Nat \ {0} /\ DOMAIN Specs = 1..Len(Specs)
  BY CampaignAssumption
<1>2. Types'
  BY <1>1 DEF IInv, Types, start
<1>3. cache' = NoCache \/ (file.kind = "cache" /\ cache' = file.cache)
  <2>1. PICK c \in loaded(r) : cache' = c
    BY DEF start
  <2>2. CASE ~ r \/ file = None
    <3>1. None # Torn
      BY DEF None, Torn
    <3>2. ~ (r /\ file = Torn)
      BY <2>2, <3>1
    <3>3. loaded(r) = {NoCache}
      BY <2>2, <3>2, Zenon DEF loaded
    <3>4. QED
      BY <2>1, <3>3
  <2>3. CASE r /\ file = Torn
    BY <2>1, <2>3 DEF loaded, None, Torn
  <2>4. CASE r /\ file # None /\ file # Torn
    <3>1. file = Text(file.cache)
      BY <2>4 DEF IInv, Types
    <3>2. file.kind = "cache"
      BY <3>1 DEF Text
    <3>3. QED
      BY <2>1, <2>4, <3>2 DEF loaded
  <2>5. QED
    BY <2>2, <2>3, <2>4
<1>4. Sound(cache') /\ file' = file
  BY <1>3 DEF IInv, start, Sound, records, NoCache
<1>5. ToSet(<<>>) = {}
  BY DEF ToSet
<1>6. Collecting'
  BY <1>1, <1>5 DEF start, Collecting
<1>7. Saved'
  <2>1. file.kind = "cache" => file = Text(file.cache)
    BY DEF IInv, Types, None, Torn
  <2>2. QED
    BY <1>3, <2>1 DEF start, Saved
<1>8. QED
  BY <1>2, <1>4, <1>6, <1>7 DEF IInv

\* A spec that is fully present is passed over; nothing was collected for it.
LEMMA SkipKeeps ==
  ASSUME IInv, skip
  PROVE  IInv'
<1>1. Len(Specs) \in Nat \ {0} /\ DOMAIN Specs = 1..Len(Specs)
  BY CampaignAssumption
<1>2. at \in DOMAIN Specs /\ at' = at + 1 /\ UNCHANGED <<program, resume, file, cache, results>>
  BY <1>1 DEF IInv, Types, skip
<1>3. Types'
  BY <1>1, <1>2 DEF IInv, Types, skip
<1>4. results = <<>>
  BY DEF skip, IInv, Collecting, plays
<1>5. ToSet(<<>>) = {}
  BY DEF ToSet
<1>6. Collecting'
  BY <1>2, <1>4, <1>5 DEF Collecting
<1>7. Sound(cache') /\ (file'.kind = "cache" => Sound(file'.cache))
  BY <1>2 DEF IInv
<1>8. fully_present(cache, Specs[at]) /\ cache # NoCache
  <2>1. fully_present(cache, Specs[at])
    BY DEF skip, spec
  <2>2. Specs[at].n_games \in Nat \ {0}
    BY <1>2, CampaignAssumption
  <2>3. cache = NoCache => records(cache, Specs[at]) = <<>>
    BY DEF NoCache, records
  <2>4. Len(<<>>) = 0
    OBVIOUS
  <2>5. QED
    BY <2>1, <2>2, <2>3, <2>4 DEF fully_present
<1>9. Saved'
  BY <1>1, <1>2, <1>8 DEF IInv, Types, Saved, skip, fully_present, records
<1>10. QED
  BY <1>3, <1>6, <1>7, <1>9 DEF IInv

\* A game ends: its record is added, once.
LEMMA GameEndsKeeps ==
  ASSUME IInv, game_ends
  PROVE  IInv'
<1>1. PICK x \in seeds(spec) \ ToSet(results) : results' = Append(results, x)
  BY DEF game_ends
<1>2. UNCHANGED <<program, resume, file, cache, at>>
  BY DEF game_ends
<1>3. at \in DOMAIN Specs /\ plays /\ results \in Seq(Nat)
  BY CampaignAssumption DEF game_ends, plays, IInv, Types, Collecting
<1>4. x \in Nat
  <2>1. Specs[at].base_seed \in Nat /\ Specs[at].n_games \in Nat \ {0}
    BY <1>3, CampaignAssumption
  <2>2. QED
    BY <1>1, <2>1 DEF seeds, spec
<1>5. \A i \in DOMAIN results : results[i] # x
  BY <1>1 DEF ToSet
<1>6. /\ results' \in Seq(Nat) /\ DOMAIN results' = 1..(Len(results) + 1)
      /\ \A i \in DOMAIN results' : results'[i] = IF i = Len(results) + 1 THEN x ELSE results[i]
  BY <1>1, <1>3, <1>4
<1>7. \A i, j \in DOMAIN results' : results'[i] = results'[j] => i = j
  BY <1>3, <1>5, <1>6, SMTT(30) DEF IInv, Collecting
<1>8. ToSet(results') \subseteq ToSet(results) \cup {x}
  BY <1>3, <1>6 DEF ToSet
<1>9. Collecting'
  <2>1. plays'
    BY <1>2, <1>3 DEF plays, fully_present, records, spec
  <2>2. seeds(spec)' = seeds(spec)
    BY <1>2 DEF seeds, spec
  <2>3. QED
    BY <1>1, <1>2, <1>3, <1>6, <1>7, <1>8, <2>1, <2>2 DEF IInv, Collecting
<1>10. Types' /\ Saved' /\ Sound(cache') /\ (file'.kind = "cache" => Sound(file'.cache))
  BY <1>2 DEF IInv, Types, Saved, fully_present, records
<1>11. QED
  BY <1>9, <1>10 DEF IInv

\* The spec is complete: its records go into the cache, and the file is emptied.
LEMMA WriteKeeps ==
  ASSUME IInv, write
  PROVE  IInv'
<1>1. Len(Specs) \in Nat \ {0} /\ DOMAIN Specs = 1..Len(Specs)
  BY CampaignAssumption
<1>2. at \in DOMAIN Specs /\ plays /\ results \in Seq(Nat)
  BY <1>1 DEF write, plays, IInv, Types, Collecting
<1>3. PICK s : s = Specs[at]
  OBVIOUS
<1>4. s.base_seed \in Nat /\ s.n_games \in Nat \ {0}
  BY <1>2, <1>3, CampaignAssumption
<1>5. sorted_by_seed = whole(s)
  <2>1. ToSet(results) = seeds(s)
    BY <1>3 DEF write, spec
  <2>2. QED
    BY <1>2, <1>4, <2>1, SortedIsWhole DEF IInv, Collecting
<1>6. \A i \in DOMAIN Specs :
        records(cache', Specs[i]) = IF i = at THEN whole(s) ELSE records(cache, Specs[i])
  <2>1. SUFFICES ASSUME NEW i \in DOMAIN Specs
                 PROVE  records(cache', Specs[i])
                          = IF i = at THEN whole(s) ELSE records(cache, Specs[i])
    OBVIOUS
  <2>2. Specs[i].label = s.label <=> i = at
    BY <1>2, <1>3, CampaignAssumption
  <2>3. cache' = [label \in DOMAIN cache \cup {s.label} |->
                    IF label = s.label THEN whole(s) ELSE cache[label]]
    BY <1>3, <1>5 DEF write, spec
  <2>4. QED
    BY <2>2, <2>3 DEF records
<1>7. Sound(cache')
  BY <1>3, <1>6 DEF IInv, Sound
<1>8. \A i \in 1..at : fully_present(cache', Specs[i])
  <2>1. SUFFICES ASSUME NEW i \in 1..at
                 PROVE  fully_present(cache', Specs[i])
    OBVIOUS
  <2>2. i \in DOMAIN Specs /\ (i # at => i \in 1..(at - 1))
    BY <1>1, <1>2
  <2>3. CASE i = at
    BY <1>2, <1>3, <1>6, <1>7, <2>3, WholeIsPresent
  <2>4. CASE i # at
    <3>1. fully_present(cache, Specs[i])
      BY <2>2, <2>4 DEF IInv, Saved, write, plays
    <3>2. QED
      BY <1>6, <2>2, <2>4, <3>1 DEF fully_present
  <2>5. QED
    BY <2>3, <2>4
<1>9. program' = "writing" /\ file' = Torn /\ UNCHANGED <<resume, at, results>>
  BY DEF write
<1>10. Types' /\ Saved'
  BY <1>2, <1>8, <1>9 DEF IInv, Types, Saved
<1>11. Collecting'
  BY <1>2, <1>9 DEF IInv, Collecting, seeds, spec
<1>12. QED
  BY <1>7, <1>9, <1>10, <1>11 DEF IInv, Torn

\* The file holds the cache again.
LEMMA WrittenKeeps ==
  ASSUME IInv, written
  PROVE  IInv'
<1>1. Len(Specs) \in Nat \ {0} /\ DOMAIN Specs = 1..Len(Specs)
  BY CampaignAssumption
<1>2. /\ program = "writing" /\ at \in DOMAIN Specs
      /\ program' = "running" /\ at' = at + 1 /\ results' = <<>>
      /\ file' = Text(cache) /\ cache' = cache /\ resume' = resume
  BY DEF written, IInv, Types
<1>3. Types'
  BY <1>1, <1>2 DEF IInv, Types, Text
<1>4. ToSet(<<>>) = {}
  BY DEF ToSet
<1>5. Collecting'
  BY <1>2, <1>4 DEF Collecting
<1>6. Saved'
  BY <1>1, <1>2 DEF IInv, Saved, fully_present, records
<1>7. QED
  BY <1>2, <1>3, <1>5, <1>6 DEF IInv, Text

\* A campaign finishes with everything in the file.
LEMMA FinishKeeps ==
  ASSUME IInv, finish
  PROVE  IInv'
<1>1. Len(Specs) \in Nat \ {0} /\ DOMAIN Specs = 1..Len(Specs)
  BY CampaignAssumption
<1>2. /\ program = "running" /\ at = Len(Specs) + 1 /\ program' = "finished"
      /\ UNCHANGED <<resume, file, cache, at, results>>
  BY <1>1 DEF finish, IInv, Types
<1>3. Types' /\ Saved'
  BY <1>1, <1>2 DEF IInv, Types, Saved, fully_present, records
<1>4. Collecting'
  BY <1>1, <1>2 DEF IInv, Collecting, seeds, spec
<1>5. QED
  BY <1>2, <1>3, <1>4 DEF IInv

\* What is in memory is lost.
LEMMA InterruptKeeps ==
  ASSUME IInv, interrupt
  PROVE  IInv'
<1>1. Len(Specs) \in Nat \ {0} /\ DOMAIN Specs = 1..Len(Specs)
  BY CampaignAssumption
<1>2. /\ program' = "off" /\ cache' = NoCache /\ at' = 1 /\ results' = <<>>
      /\ UNCHANGED <<resume, file>>
  BY DEF interrupt
<1>3. Types' /\ Saved'
  BY <1>1, <1>2 DEF IInv, Types, Saved
<1>4. ToSet(<<>>) = {}
  BY DEF ToSet
<1>5. Collecting'
  BY <1>2, <1>4 DEF Collecting
<1>6. Sound(cache')
  BY <1>2 DEF Sound, records, NoCache
<1>7. QED
  BY <1>2, <1>3, <1>5, <1>6 DEF IInv

-----------------------------------------------------------------------------
\* Memory and file hold whole specs only, whatever happens in whatever order.
THEOREM CampaignKeepsSpecs ==
  Spec => []IInv
<1>1. IInv /\ [Next]_vars => IInv'
  <2>1. SUFFICES ASSUME IInv, [Next]_vars
                 PROVE  IInv'
    OBVIOUS
  <2>2. CASE Next
    BY <2>1, <2>2, StartKeeps, SkipKeeps, GameEndsKeeps, WriteKeeps, WrittenKeeps,
       FinishKeeps, InterruptKeeps DEF Next
  <2>3. CASE UNCHANGED vars
    <3>1. UNCHANGED <<program, resume, file, cache, at, results>>
      BY <2>3 DEF vars
    <3>2. Types' /\ Saved' /\ Collecting'
      BY <2>1, <3>1 DEF IInv, Types, Saved, Collecting, plays, seeds, spec, fully_present, records
    <3>3. QED
      BY <2>1, <3>1, <3>2 DEF IInv
  <2>4. QED
    BY <2>1, <2>2, <2>3
<1>2. QED
  BY <1>1, InitIInv, PTL DEF Spec

\* However often the program is interrupted and started again, a file that can
\* be read holds every game of each spec it has, once and by seed, and that of a
\* finished campaign has every spec (run_full_campaign and its checkpoint).
THEOREM CampaignLosesNoGame ==
  Spec => []EveryGameOnce
<1>1. IInv => EveryGameOnce
  <2>1. SUFFICES ASSUME IInv PROVE EveryGameOnce
    OBVIOUS
  <2>2. file.kind = "cache" =>
          \A i \in DOMAIN Specs :
            records(file.cache, Specs[i]) \in
              {<<>>, [k \in 1..Specs[i].n_games |-> Specs[i].base_seed + k - 1]}
    BY <2>1 DEF IInv, Sound, whole
  <2>3. program = "finished" => file.kind = "cache" /\ incomplete(file.cache) = {}
    BY <2>1 DEF IInv, Saved, Text, incomplete
  <2>4. QED
    BY <2>2, <2>3 DEF EveryGameOnce
<1>2. QED
  BY <1>1, CampaignKeepsSpecs, PTL
=============================================================================
