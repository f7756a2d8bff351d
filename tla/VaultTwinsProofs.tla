-------------------------- MODULE VaultTwinsProofs --------------------------
(***************************************************************************)
(* Proofs about VaultSync: one fact becomes two active ones only where a   *)
(* correction came under a pass or a merge before it.                      *)
(*                                                                         *)
(* write_memory gives the new fact the origins of the one it is told it    *)
(* corrects, whether or not that one still leads.  So what has to be known *)
(* is that whatever a caller may still tell it (a row's fact, the fact a   *)
(* pass's session holds for a row, a view's) is either active or one that  *)
(* was crossed.                                                            *)
(***************************************************************************)
EXTENDS VaultSyncProofs

\* A superseded fact somebody still takes for the one that leads was crossed.
Behind(m) == m \in Facts /\ memory[m] # NoFact /\ memory[m].next # 0
             => origin[m] \subseteq crossed

\* Origins are facts there have been, and a superseded fact leads to one there is.
Traced ==
    /\ \A m, k \in Facts : k \in origin[m] => k <= lastFact
    /\ \A m \in Facts : memory[m].next # 0 => memory[memory[m].next] # NoFact

\* A row's fact exists, and what is taken to lead does or was crossed.
LedRow(r) == /\ file[r].memory # 0 => memory[file[r].memory] # NoFact
             /\ Behind(file[r].memory) /\ Behind(seen[r])
             /\ pc = "idle" => seen[r] = 0

LedView(v) == Behind(v.anchor)

Led == /\ Traced
       /\ \A r \in Rows : LedRow(r)
       /\ pc \in {"write", "writing", "record"} => \A v \in todo : LedView(v)

-----------------------------------------------------------------------------
(* The facts.                                                               *)

\* What may be passed to write_memory as the corrected fact, and as what the new
\* one stands for.
Stands(old, from) ==
    \/ old = 0 /\ from = {}
    \/ old \in Facts /\ memory[old] # NoFact /\ Behind(old) /\ from = {old}

\* The facts after a step, for whoever held on to one: those that were not
\* superseded in it are no further behind.
Follows(X) ==
    /\ \A m \in Facts : memory[m] # NoFact => memory'[m] # NoFact
    /\ \A m : Behind(m) /\ (m \notin X \/ origin[m] \subseteq crossed') => Behind(m)'

LEMMA WroteLed ==
    ASSUME Sound, Traced, TwinsOnlyIfCrossed, crossed \subseteq crossed',
           NEW text \in Texts, NEW kind \in Kinds, NEW source, NEW old, NEW from,
           WriteMemory(text, kind, source, old, from), Stands(old, from)
    PROVE  /\ Traced' /\ TwinsOnlyIfCrossed'
           /\ \A n : n = New => memory'[n] # NoFact /\ Behind(n)'
           /\ Follows({old} \intersect Active)
<1> DEFINE new == [text |-> text, kind |-> kind, source |-> source, next |-> 0]
           X   == {old} \intersect Active
<1>0. /\ memory \in [Facts -> Fact \union {NoFact}] /\ lastFact \in 0..MaxFacts
      /\ origin \in [Facts -> SUBSET Facts]
      /\ \A m \in Facts : (m > lastFact => memory[m] = NoFact) /\ memory[m].next <= lastFact
  BY DEF Sound, TypeOK, Numbered
<1>1. New \in Facts /\ lastFact' = New /\ New > lastFact /\ New = lastFact + 1
  BY <1>0, VaultAssumption DEF WriteMemory, New, Facts
<1>2. memory[New] = NoFact
  BY <1>0, <1>1
<1>3. /\ memory'[New] = new
      /\ \A m \in Facts \ {New} : memory'[m] = IF m \in X THEN [memory[m] EXCEPT !.next = New]
                                               ELSE memory[m]
  BY <1>1 DEF WriteMemory
<1>4. X \subseteq Facts \ {New} /\ \A m \in X : memory[m] \in Fact /\ memory[m].next = 0
  BY <1>0, <1>2 DEF Active, Exists
<1>5. memory'[New] # NoFact /\ memory'[New].next = 0
  <2>1. new.kind = kind /\ NoFact.kind = "none" /\ "none" \notin Kinds /\ new.next = 0
    BY DEF NoFact, Kinds
  <2> HIDE DEF new
  <2> QED
    BY <1>3, <2>1
<1>6. ASSUME NEW m \in X PROVE memory'[m].next = New /\ memory'[m] # NoFact
  <2>1. memory'[m] = [memory[m] EXCEPT !.next = New] /\ memory[m] \in Fact
    BY <1>3, <1>4, <1>6
  <2>2. memory'[m].next = New
    BY <2>1 DEF Fact
  <2>3. NoFact.next = 0 /\ New # 0
    BY <1>1 DEF NoFact, Facts
  <2> QED
    BY <2>2, <2>3
<1>7. \A m \in Facts \ {New} : m \notin X => memory'[m] = memory[m]
  BY <1>3
<1>8. /\ origin'[New] = IF from = {} THEN {New} ELSE origin[old]
      /\ \A m \in Facts \ {New} : origin'[m] = origin[m]
  <2>1. origin' = [origin EXCEPT ![New] = IF from = {} THEN {New} ELSE UNION {origin[m] : m \in from}]
    BY DEF WriteMemory
  <2>2. from # {} => UNION {origin[m] : m \in from} = origin[old]
    BY DEF Stands
  <2> QED
    BY <1>0, <1>1, <2>1, <2>2
<1> HIDE DEF new, X
<1>9. \A m \in Facts : memory[m] # NoFact => memory'[m] # NoFact
  BY <1>5, <1>6, <1>7
<1>10. ASSUME NEW m, Behind(m), m \notin X \/ origin[m] \subseteq crossed'
       PROVE  Behind(m)'
  <2> SUFFICES ASSUME m \in Facts, memory'[m] # NoFact, memory'[m].next # 0
               PROVE  origin'[m] \subseteq crossed'
    BY DEF Behind, Facts
  <2>1. m # New /\ origin'[m] = origin[m]
    BY <1>5, <1>8
  <2>2. CASE m \notin X
    BY <1>7, <1>10, <2>1, <2>2 DEF Behind
  <2> QED
    BY <1>10, <2>1, <2>2
<1>11. \A n : n = New => memory'[n] # NoFact /\ Behind(n)'
  BY <1>1, <1>5 DEF Behind, Facts
<1>12. Traced'
  <2>1. ASSUME NEW m \in Facts, NEW k \in Facts, k \in origin'[m] PROVE k <= lastFact'
    <3>1. CASE m = New
      <4>1. CASE from = {}
        BY <1>1, <1>8, <2>1, <3>1, <4>1 DEF Facts
      <4>2. CASE from # {}
        <5>1. old \in Facts /\ k \in origin[old]
          BY <1>8, <2>1, <3>1, <4>2 DEF Stands
        <5>2. k <= lastFact
          BY <5>1 DEF Traced
        <5> QED
          BY <1>0, <1>1, <5>2 DEF Facts
      <4> QED
        BY <4>1, <4>2
    <3>2. CASE m # New
      <4>1. k <= lastFact
        BY <1>8, <2>1, <3>2 DEF Traced
      <4> QED
        BY <1>0, <1>1, <4>1 DEF Facts
    <3> QED
      BY <3>1, <3>2
  <2>2. ASSUME NEW m \in Facts, memory'[m].next # 0
        PROVE  memory'[memory'[m].next] # NoFact
    <3>1. m # New
      BY <1>5, <2>2
    <3>2. CASE m \in X
      BY <1>5, <1>6, <3>2
    <3>3. CASE m \notin X
      <4>1. memory'[m] = memory[m]
        BY <1>7, <3>1, <3>3
      <4>2. memory[memory[m].next] # NoFact
        BY <2>2, <4>1 DEF Traced
      <4>3. memory[m].next \in Facts
        BY <1>0, <2>2, <4>1, NextOf, VaultAssumption DEF Sound, Facts
      <4> QED
        BY <1>9, <4>1, <4>2, <4>3
    <3> QED
      BY <3>2, <3>3
  <2> QED
    BY <2>1, <2>2 DEF Traced, Facts
<1>13. TwinsOnlyIfCrossed'
  <2>1. ASSUME NEW m \in Facts, m \in Active', m # New
        PROVE  m \in Active /\ m \notin X /\ origin'[m] = origin[m]
    <3>1. memory'[m] # NoFact /\ memory'[m].next = 0 /\ m # 0
      BY <2>1 DEF Active, Exists, Facts
    <3>2. m \notin X
      BY <1>1, <1>6, <3>1 DEF Facts
    <3>3. memory'[m] = memory[m]
      BY <1>7, <2>1, <3>2
    <3> QED
      BY <1>8, <2>1, <3>1, <3>2, <3>3 DEF Active, Exists
  <2>2. ASSUME NEW m \in Facts, m \in Active', m # New
        PROVE  origin'[m] \intersect origin'[New] \subseteq crossed'
    <3>1. m \in Active /\ m \notin X /\ origin'[m] = origin[m]
      BY <2>1, <2>2
    <3>2. CASE from = {}
      <4>1. \A k \in origin[m] : k \in Facts /\ k <= lastFact
        BY <1>0 DEF Traced
      <4>2. New \notin origin[m]
        BY <1>0, <1>1, <4>1 DEF Facts
      <4> QED
        BY <1>8, <3>1, <3>2, <4>2
    <3>3. CASE from # {}
      <4>1. origin'[New] = origin[old] /\ old \in Facts /\ memory[old] # NoFact /\ Behind(old)
        BY <1>8, <3>3 DEF Stands
      <4>2. CASE old \in Active
        <5>1. m # old
          BY <3>1, <4>2 DEF X
        <5>2. origin[m] \intersect origin[old] \subseteq crossed
          BY <3>1, <4>2, <5>1 DEF TwinsOnlyIfCrossed
        <5> QED
          BY <3>1, <4>1, <5>2
      <4>3. CASE old \notin Active
        <5>1. memory[old].next # 0
          BY <4>1, <4>3 DEF Active, Exists, Facts
        <5> QED
          BY <4>1, <5>1 DEF Behind
      <4> QED
        BY <4>2, <4>3
    <3> QED
      BY <3>2, <3>3
  <2>3. ASSUME NEW m \in Facts, NEW n \in Facts, m \in Active', n \in Active', m # n
        PROVE  origin'[m] \intersect origin'[n] \subseteq crossed'
    <3>1. CASE m # New /\ n # New
      <4>1. m \in Active /\ n \in Active /\ origin'[m] = origin[m] /\ origin'[n] = origin[n]
        BY <2>1, <2>3, <3>1
      <4>2. origin[m] \intersect origin[n] \subseteq crossed
        BY <2>3, <4>1 DEF TwinsOnlyIfCrossed
      <4> QED
        BY <4>1, <4>2
    <3>2. CASE m = New
      BY <2>2, <2>3, <3>2
    <3>3. CASE n = New
      BY <2>2, <2>3, <3>3
    <3> QED
      BY <3>1, <3>2, <3>3
  <2>4. Active' \subseteq Facts
    BY DEF Active, Facts
  <2> QED
    BY <2>3, <2>4 DEF TwinsOnlyIfCrossed
<1> QED
  BY <1>5, <1>9, <1>10, <1>11, <1>12, <1>13 DEF Follows, X


LEMMA ForgotLed ==
    ASSUME Sound, Traced, TwinsOnlyIfCrossed, UNCHANGED <<lastFact, origin, crossed>>,
           NEW gone, Closed(gone), memory' = Without(gone)
    PROVE  /\ Traced' /\ TwinsOnlyIfCrossed'
           /\ \A m : Behind(m) => Behind(m)'
           /\ \A m \in Facts \ gone : memory[m] # NoFact => memory'[m] # NoFact
<1>1. \A m \in Facts : memory'[m] = IF m \in gone THEN NoFact ELSE memory[m]
  BY DEF Without
<1>2. NoFact.next = 0
  BY DEF NoFact
<1>3. Traced'
  <2>1. ASSUME NEW m \in Facts, memory'[m].next # 0
        PROVE  memory'[memory'[m].next] # NoFact
    <3>1. m \notin gone /\ memory'[m] = memory[m]
      BY <1>1, <1>2, <2>1
    <3>2. memory[memory[m].next] # NoFact
      BY <2>1, <3>1 DEF Traced
    <3>3. memory[m].next \in Facts
      BY <2>1, <3>1, NextOf, VaultAssumption DEF Sound, Facts
    <3>4. memory[m].next \notin gone
      BY <3>1 DEF Closed
    <3> QED
      BY <1>1, <3>1, <3>2, <3>3, <3>4
  <2> QED
    BY <2>1 DEF Traced, Facts
<1>4. Active' \subseteq Active
  BY <1>1 DEF Active, Exists, Facts
<1>5. TwinsOnlyIfCrossed'
  BY <1>4 DEF TwinsOnlyIfCrossed
<1>6. \A m : Behind(m) => Behind(m)'
  BY <1>1 DEF Behind, Facts
<1> QED
  BY <1>1, <1>3, <1>5, <1>6

LEMMA MergedLed ==
    ASSUME Sound, Traced, TwinsOnlyIfCrossed, NEW m \in Facts, NEW n \in Facts,
           Consolidate(m, n)
    PROVE  Traced' /\ TwinsOnlyIfCrossed' /\ Follows({})
<1>0. /\ memory \in [Facts -> Fact \union {NoFact}] /\ lastFact \in 0..MaxFacts
      /\ origin \in [Facts -> SUBSET Facts]
      /\ \A k \in Facts : (k > lastFact => memory[k] = NoFact) /\ memory[k].next \in 0..MaxFacts
  BY NextOf DEF Sound, TypeOK, Numbered
<1>1. /\ m # n /\ m \in Active /\ n \in Active /\ memory[m] \in Fact /\ memory[n] \in Fact
      /\ crossed' = crossed \union origin[m] \union origin[n]
  BY <1>0 DEF Consolidate, Mergeable, Active, Exists
\* Of the two facts X go, and what is new stands for both.
<1>2. ASSUME NEW new, new \in Facts, NEW X, m \in X, X \subseteq {m, n}, new \notin X,
             memory'[new] # NoFact, memory'[new].next = 0,
             \A k \in X : memory'[k] # NoFact /\ memory'[k].next = new,
             \A k \in Facts \ (X \union {new}) : memory'[k] = memory[k],
             \A k \in Facts \ {new} : origin'[k] = origin[k],
             \/ new = n /\ origin'[new] = origin[n] /\ memory'[new] = memory[new]
                /\ lastFact' = lastFact
             \/ /\ memory[new] = NoFact /\ origin'[new] = origin[m] \union origin[n]
                /\ lastFact' = New
      PROVE  Traced' /\ TwinsOnlyIfCrossed' /\ Follows({})
  <2>1. lastFact <= lastFact' /\ lastFact' \in Nat
    BY <1>0, <1>2, VaultAssumption DEF New
  <2>2. \A k \in Facts : memory[k] # NoFact => memory'[k] # NoFact
    BY <1>2
  <2>3. \A k \in Facts, i \in Facts : i \in origin'[k] => i <= lastFact'
    <3>1. ASSUME NEW k \in Facts, NEW i \in Facts, i \in origin'[k] PROVE i <= lastFact'
      <4>1. i \in origin[k] \/ i \in origin[m] \/ i \in origin[n]
        BY <1>2, <3>1
      <4>2. i <= lastFact
        BY <4>1 DEF Traced
      <4> QED
        BY <1>0, <2>1, <4>2 DEF Facts
    <3> QED
      BY <3>1
  <2>4. ASSUME NEW k \in Facts, memory'[k].next # 0
        PROVE  memory'[memory'[k].next] # NoFact
    <3>1. CASE k \in X
      BY <1>2, <3>1
    <3>2. CASE k \notin X
      <4>1. memory'[k] = memory[k] /\ memory[k].next \in Facts
        BY <1>0, <1>2, <2>4, <3>2, VaultAssumption DEF Facts
      <4>2. memory[memory[k].next] # NoFact
        BY <2>4, <4>1 DEF Traced
      <4> QED
        BY <2>2, <4>1, <4>2
    <3> QED
      BY <3>1, <3>2
  <2>5. Traced'
    BY <2>3, <2>4 DEF Traced, Facts
  <2>6. ASSUME NEW k \in Active' PROVE /\ k \in Facts /\ k \notin X
                                       /\ \/ k \in Active /\ origin'[k] = origin[k]
                                          \/ origin'[k] \subseteq crossed'
    <3>1. k \in Facts /\ memory'[k] # NoFact /\ memory'[k].next = 0
      BY DEF Active, Exists, Facts
    <3>2. k \notin X
      BY <1>2, <3>1 DEF Facts
    <3>3. CASE k = new
      BY <1>1, <1>2, <3>1, <3>2, <3>3
    <3>4. CASE k # new
      <4>1. memory'[k] = memory[k] /\ origin'[k] = origin[k]
        BY <1>2, <3>1, <3>2, <3>4
      <4> QED
        BY <3>1, <3>2, <4>1 DEF Active, Exists, Facts
    <3> QED
      BY <3>3, <3>4
  <2>7. TwinsOnlyIfCrossed'
    <3>1. ASSUME NEW k \in Active', NEW j \in Active', k # j
          PROVE  origin'[k] \intersect origin'[j] \subseteq crossed'
      <4>1. CASE k \in Active /\ origin'[k] = origin[k] /\ j \in Active /\ origin'[j] = origin[j]
        <5>1. origin[k] \intersect origin[j] \subseteq crossed
          BY <3>1, <4>1 DEF TwinsOnlyIfCrossed
        <5> QED
          BY <1>1, <4>1, <5>1
      <4> QED
        BY <2>6, <3>1, <4>1
    <3> QED
      BY <3>1 DEF TwinsOnlyIfCrossed
  <2>8. ASSUME NEW k, Behind(k) PROVE Behind(k)'
    <3> SUFFICES ASSUME k \in Facts, memory'[k] # NoFact, memory'[k].next # 0
                 PROVE  origin'[k] \subseteq crossed'
      BY DEF Behind, Facts
    <3>1. k # new /\ origin'[k] = origin[k]
      BY <1>2
    <3>2. CASE k \in X
      BY <1>1, <1>2, <3>1, <3>2
    <3>3. CASE k \notin X
      BY <1>1, <1>2, <2>8, <3>1, <3>3 DEF Behind
    <3> QED
      BY <3>2, <3>3
  <2> QED
    BY <2>2, <2>5, <2>7, <2>8 DEF Follows
<1>3. NoFact.next = 0 /\ NoFact.kind = "none"
  BY DEF NoFact
<1>4. ASSUME lastFact < MaxFacts, lastFact' = New, NEW t \in Texts,
             memory' = [k \in Facts |->
                    IF k = New THEN [text |-> t, kind |-> "plain", source |-> "consolidate",
                                     next |-> 0]
                    ELSE IF k \in {m, n} THEN [memory[k] EXCEPT !.next = New]
                    ELSE memory[k]],
             origin' = [origin EXCEPT ![New] = origin[m] \union origin[n]]
      PROVE  Traced' /\ TwinsOnlyIfCrossed' /\ Follows({})
  <2>1. New \in Facts /\ memory[New] = NoFact /\ New # 0
    BY <1>0, <1>4, VaultAssumption DEF New, Facts
  <2>2. New \notin {m, n}
    BY <1>1, <2>1 DEF Active, Exists
  <2>3. PICK new : new = New
    OBVIOUS
  <2>4. /\ memory'[new] = [text |-> t, kind |-> "plain", source |-> "consolidate", next |-> 0]
        /\ \A k \in {m, n} : memory'[k] = [memory[k] EXCEPT !.next = new]
        /\ \A k \in Facts \ {m, n, new} : memory'[k] = memory[k]
    BY <1>4, <2>1, <2>2, <2>3
  <2>5. memory'[new] # NoFact /\ memory'[new].next = 0
    BY <1>3, <2>4
  <2>6. \A k \in {m, n} : memory'[k].next = new /\ memory'[k] # NoFact
    <3>1. ASSUME NEW k \in {m, n} PROVE memory'[k].next = new
      BY <1>1, <2>4, <3>1 DEF Fact
    <3> QED
      BY <1>3, <2>1, <2>3, <3>1
  <2>7. /\ origin'[new] = origin[m] \union origin[n]
        /\ \A k \in Facts \ {new} : origin'[k] = origin[k]
    BY <1>0, <1>4, <2>1, <2>3
  <2>8. PICK X : X = {m, n}
    OBVIOUS
  <2>9. /\ new \in Facts /\ m \in X /\ X \subseteq {m, n} /\ new \notin X
        /\ \A k \in X : memory'[k] # NoFact /\ memory'[k].next = new
        /\ \A k \in Facts \ (X \union {new}) : memory'[k] = memory[k]
        /\ memory[new] = NoFact
    BY <2>1, <2>2, <2>3, <2>4, <2>6, <2>8
  <2> QED
    BY <1>2, <1>4, <2>5, <2>7, <2>9
<1>5. ASSUME memory' = [memory EXCEPT ![m].next = n], lastFact' = lastFact, origin' = origin
      PROVE  Traced' /\ TwinsOnlyIfCrossed' /\ Follows({})
  <2>1. memory' = [memory EXCEPT ![m] = [memory[m] EXCEPT !.next = n]]
    BY <1>5
  <2>2. memory'[m].next = n /\ memory'[m] # NoFact
    BY <1>0, <1>1, <1>3, <2>1 DEF Fact, Facts
  <2>3. \A k \in Facts \ {m} : memory'[k] = memory[k]
    BY <1>0, <2>1
  <2>4. memory'[n] # NoFact /\ memory'[n].next = 0
    BY <1>1, <2>3 DEF Active, Exists
  <2>5. PICK X : X = {m}
    OBVIOUS
  <2>6. /\ m \in X /\ X \subseteq {m, n} /\ n \notin X
        /\ \A k \in X : memory'[k] # NoFact /\ memory'[k].next = n
        /\ \A k \in Facts \ (X \union {n}) : memory'[k] = memory[k]
    BY <1>1, <2>2, <2>3, <2>5
  <2>7. memory'[n] = memory[n]
    BY <1>1, <2>3
  <2> QED
    BY <1>2, <1>5, <2>4, <2>6, <2>7
<1> QED
  BY <1>4, <1>5 DEF Consolidate

-----------------------------------------------------------------------------
(* The rows and the pass.                                                   *)

LEMMA LedFacts ==
    ASSUME Sound, Led
    PROVE  /\ Traced
           /\ \A r \in Rows : file[r].memory \in Facts =>
                  memory[file[r].memory] # NoFact /\ Behind(file[r].memory)
           /\ \A r \in Rows : file[r].memory \in 0..MaxFacts /\ seen[r] \in 0..MaxFacts
           /\ 0 \notin Facts /\ \A m \in 0..MaxFacts : m # 0 => m \in Facts
<1>1. \A r \in Rows : file[r] \in File \union {NoFile} /\ seen[r] \in 0..MaxFacts
  BY DEF Sound, TypeOK
<1>2. \A r \in Rows : file[r].memory \in 0..MaxFacts
  BY <1>1, VaultAssumption DEF File, NoFile
<1>3. 0 \notin Facts /\ \A m \in 0..MaxFacts : m # 0 => m \in Facts
  BY VaultAssumption DEF Facts
<1>4. ASSUME NEW r \in Rows, file[r].memory \in Facts
      PROVE  memory[file[r].memory] # NoFact /\ Behind(file[r].memory)
  <2>1. file[r].memory # 0
    BY <1>3, <1>4
  <2> QED
    BY <2>1 DEF Led, LedRow
<1> QED
  BY <1>1, <1>2, <1>3, <1>4 DEF Led

\* No fact changes, and whatever is newly taken to lead does so or was crossed.
LEMMA LedKept ==
    ASSUME Sound, Led, TwinsOnlyIfCrossed,
           UNCHANGED <<memory, lastFact, origin, crossed>>,
           \A r \in Rows : \/ file'[r].memory \in {0, file[r].memory}
                           \/ /\ memory[file'[r].memory] # NoFact
                              /\ Behind(file'[r].memory),
           \A r \in Rows : \/ seen'[r] \in {0, seen[r], file[r].memory}
                           \/ Behind(seen'[r]),
           pc' = "idle" => \A r \in Rows : seen'[r] = 0,
           pc' \in {"write", "writing", "record"} =>
               \A v \in todo' : \/ v \in todo /\ pc \in {"write", "writing", "record"}
                               \/ Behind(v.anchor)
    PROVE  Led' /\ TwinsOnlyIfCrossed'
<1>1. Traced' /\ TwinsOnlyIfCrossed'
  BY DEF Led, Traced, TwinsOnlyIfCrossed, Active, Exists, Facts
<1>2. \A m : Behind(m) => Behind(m)'
  BY DEF Behind, Facts
<1>3. Behind(0)
  BY LedFacts DEF Behind
<1>4. ASSUME NEW r \in Rows PROVE LedRow(r)'
  <2>1. LedRow(r)
    BY DEF Led
  <2>2. /\ file'[r].memory # 0 => memory[file'[r].memory] # NoFact
        /\ Behind(file'[r].memory) /\ Behind(seen'[r])
    BY <1>3, <2>1 DEF LedRow
  <2>3. \A m, k : m = file'[r].memory /\ k = seen'[r] => Behind(m)' /\ Behind(k)'
    BY <1>2, <2>2
  <2> QED
    BY <2>2, <2>3 DEF LedRow, Behind
<1>5. ASSUME pc' \in {"write", "writing", "record"}, NEW v \in todo' PROVE LedView(v)'
  <2>1. Behind(v.anchor)
    BY <1>5 DEF Led, LedView
  <2> QED
    BY <1>2, <2>1 DEF LedView
<1> QED
  BY <1>1, <1>4, <1>5 DEF Led, Rows

\* A fact is written, and nobody takes the one it corrects for the one that leads,
\* or it was crossed.
LEMMA LedWritten ==
    ASSUME Sound, Led, TwinsOnlyIfCrossed, crossed \subseteq crossed',
           NEW text \in Texts, NEW kind \in Kinds, NEW source, NEW old, NEW from,
           WriteMemory(text, kind, source, old, from), Stands(old, from),
           \A r \in Rows : \/ file'[r].memory \in {0, New}
                           \/ /\ file'[r].memory = file[r].memory
                              /\ file[r].memory = old /\ old \in Active
                                 => origin[old] \subseteq crossed',
           \A r \in Rows : \/ seen'[r] = New
                           \/ /\ seen'[r] = seen[r]
                              /\ seen[r] = old /\ old \in Active
                                 => origin[old] \subseteq crossed',
           pc' = "idle" => \A r \in Rows : seen'[r] = 0,
           pc' \in {"write", "writing", "record"} =>
               /\ todo' \subseteq todo /\ pc \in {"write", "writing", "record"}
               /\ old \in Active => origin[old] \subseteq crossed'
    PROVE  Led' /\ TwinsOnlyIfCrossed'
<1>0. Traced /\ 0 \notin Facts
  BY LedFacts
<1>1. /\ Traced' /\ TwinsOnlyIfCrossed'
      /\ \A n : n = New => memory'[n] # NoFact /\ Behind(n)'
      /\ Follows({old} \intersect Active)
  BY <1>0, WroteLed
<1>2. \A m : Behind(m) /\ (m = old /\ old \in Active => origin[old] \subseteq crossed')
             => Behind(m)'
  BY <1>1 DEF Follows
<1>3. \A m : m = 0 => Behind(m)'
  BY <1>0 DEF Behind, Facts
<1>4. ASSUME NEW r \in Rows PROVE LedRow(r)'
  <2>1. LedRow(r)
    BY DEF Led
  <2>2. PICK m, k : m = file'[r].memory /\ k = seen'[r]
    OBVIOUS
  <2>3. Behind(k)'
    BY <1>1, <1>2, <2>1, <2>2 DEF LedRow
  <2>4. m # 0 => memory'[m] # NoFact
    <3>1. CASE m = file[r].memory
      <4>1. m # 0 => m \in Facts /\ memory[m] # NoFact
        BY <3>1, LedFacts
      <4> QED
        BY <1>1, <4>1 DEF Follows
    <3> QED
      BY <1>1, <2>2, <3>1
  <2>5. Behind(m)'
    BY <1>1, <1>2, <1>3, <2>1, <2>2 DEF LedRow
  <2> QED
    BY <2>2, <2>3, <2>4, <2>5 DEF LedRow, Behind
<1>5. ASSUME pc' \in {"write", "writing", "record"}, NEW v \in todo' PROVE LedView(v)'
  <2>1. Behind(v.anchor)
    BY <1>5 DEF Led, LedView
  <2> QED
    BY <1>2, <1>5, <2>1 DEF LedView
<1> QED
  BY <1>1, <1>4, <1>5 DEF Led, Rows

\* Facts go, with all that lead to them, and no row keeps one of them.
LEMMA LedForgotten ==
    ASSUME Sound, Led, TwinsOnlyIfCrossed, UNCHANGED <<lastFact, origin, crossed>>,
           NEW gone, Closed(gone), memory' = Without(gone),
           \A r \in Rows : \/ file'[r].memory = 0
                           \/ file'[r].memory = file[r].memory /\ file[r].memory \notin gone,
           \A r \in Rows : seen'[r] \in {0, seen[r]},
           pc' = "idle" => pc = "idle",
           pc' \in {"write", "writing", "record"} => todo' \subseteq todo /\ pc \in {"write", "writing", "record"}
    PROVE  Led' /\ TwinsOnlyIfCrossed'
<1>1. /\ Traced' /\ TwinsOnlyIfCrossed'
      /\ \A m : Behind(m) => Behind(m)'
      /\ \A m \in Facts \ gone : memory[m] # NoFact => memory'[m] # NoFact
  BY LedFacts, ForgotLed
<1>2. Behind(0)
  BY LedFacts DEF Behind
<1>3. ASSUME NEW r \in Rows PROVE LedRow(r)'
  <2>1. LedRow(r)
    BY DEF Led
  <2>2. PICK m, k : m = file'[r].memory /\ k = seen'[r]
    OBVIOUS
  <2>3. Behind(m)' /\ Behind(k)' /\ (pc' = "idle" => k = 0)
    BY <1>1, <1>2, <2>1, <2>2 DEF LedRow
  <2>4. ASSUME m # 0 PROVE memory'[m] # NoFact
    <3>1. m = file[r].memory /\ m \notin gone
      BY <2>2, <2>4
    <3>2. m \in Facts /\ memory[m] # NoFact
      BY <2>4, <3>1, LedFacts
    <3> QED
      BY <1>1, <3>1, <3>2
  <2> QED
    BY <2>2, <2>3, <2>4 DEF LedRow, Behind
<1>4. ASSUME pc' \in {"write", "writing", "record"}, NEW v \in todo' PROVE LedView(v)'
  <2>1. Behind(v.anchor)
    BY <1>4 DEF Led, LedView
  <2> QED
    BY <1>1, <2>1 DEF LedView
<1> QED
  BY <1>1, <1>3, <1>4 DEF Led, Rows

-----------------------------------------------------------------------------
(* The actions.                                                             *)

\* What does not say so leaves a row's fact alone.
LEMMA SameFact ==
    ASSUME Sound, NEW r \in Rows
    PROVE  /\ file[r] \in File \union {NoFile}
           /\ Reverted(r).memory = file[r].memory /\ Restored(r).memory = file[r].memory
           /\ Noted(r).memory = file[r].memory
           /\ \A p, state : Taken(p, r, state).memory = file[r].memory
           /\ \A s : [file[r] EXCEPT !.state = s].memory = file[r].memory
           /\ \A s : [file[r] EXCEPT !.missing = s].memory = file[r].memory
           /\ \A p, s : [file[r] EXCEPT !.path = p, !.missing = s].memory = file[r].memory
           /\ \A c, d : [file[r] EXCEPT !.disk = c, !.digest = d].memory = file[r].memory
           /\ \A s, c, d : [file[r] EXCEPT !.state = s, !.disk = c, !.digest = d].memory
                           = file[r].memory
           /\ \A m : /\ [file[r] EXCEPT !.memory = m].memory = m
                     /\ [Noted(r) EXCEPT !.memory = m].memory = m
                     /\ [file[r] EXCEPT !.state = "ok", !.memory = m].memory = m
                     /\ \A p, state : [Taken(p, r, state) EXCEPT !.memory = m].memory = m
<1>1. file[r] \in File \union {NoFile}
  BY DEF Sound, TypeOK
<1>2. CASE file[r] \in File
  BY <1>2 DEF File, Reverted, Restored, Noted, Taken
<1>3. CASE file[r] = NoFile
  BY <1>3 DEF NoFile, Reverted, Restored, Noted, Taken
<1> QED
  BY <1>1, <1>2, <1>3

LEMMA MovedFact ==
    ASSUME Sound, Led, NEW old, NEW r \in Rows
    PROVE  \/ Moved(old)[r].memory = New
           \/ /\ Moved(old)[r].memory = file[r].memory
              /\ ~(file[r].memory = old /\ old \in Active)
BY SameFact DEF Moved

LEMMA UnlinkedFact ==
    ASSUME Sound, NEW gone, NEW r \in Rows
    PROVE  \/ Unlinked(gone)[r].memory = 0
           \/ Unlinked(gone)[r].memory = file[r].memory /\ file[r].memory \notin gone
BY SameFact DEF Unlinked

LEMMA LedUser ==
    ASSUME Sound, Led, TwinsOnlyIfCrossed, User PROVE Led' /\ TwinsOnlyIfCrossed'
<1>0. \A r \in Rows : seen[r] \in 0..MaxFacts /\ (pc = "idle" => seen[r] = 0)
  BY LedFacts DEF Led, LedRow
<1>1. ASSUME NEW p \in Paths,
             UserWrites(p) \/ UserRemoves(p) \/ UserReturns(p) \/ UserCopies(p)
      PROVE  Led' /\ TwinsOnlyIfCrossed'
  <2>1. UNCHANGED <<db, pass, origin, crossed>>
    BY <1>1 DEF UserWrites, UserRemoves, UserReturns, UserCopies, Touches
  <2> QED
    BY <1>0, <2>1, LedKept DEF db, pass
<1>2. ASSUME NEW m \in Facts, WebEdit(m) PROVE Led' /\ TwinsOnlyIfCrossed'
  <2>1. PICK t \in Texts : WriteMemory(t, memory[m].kind, "user", m, {m})
    BY <1>2 DEF WebEdit
  <2>2. /\ m \in Active /\ file' = Moved(m) /\ UNCHANGED <<seen, pc, todo>>
        /\ crossed \subseteq crossed' /\ (pc # "idle" => origin[m] \subseteq crossed')
    BY <1>2 DEF WebEdit, Ops, pass
  <2>3. memory[m] # NoFact /\ memory[m].next = 0
    BY <2>2 DEF Active, Exists
  <2>4. memory[m].kind \in Kinds
    BY <2>3 DEF Sound, TypeOK, Fact
  <2>5. Stands(m, {m})
    BY <2>3 DEF Stands, Behind
  <2>6. \A r \in Rows : \/ file'[r].memory \in {0, New}
                        \/ /\ file'[r].memory = file[r].memory
                           /\ file[r].memory = m /\ m \in Active => origin[m] \subseteq crossed'
    BY <2>2, MovedFact
  <2>7. \A r \in Rows : /\ seen'[r] = seen[r]
                        /\ seen[r] = m => origin[m] \subseteq crossed'
    <3>1. 0 \notin Facts
      BY LedFacts
    <3> QED
      BY <1>0, <2>2, <3>1
  <2> HIDE <1>2
  <2> QED
    BY <1>0, <2>1, <2>2, <2>4, <2>5, <2>6, <2>7, LedWritten
<1>3. ASSUME NEW m \in Facts, Forget(m) PROVE Led' /\ TwinsOnlyIfCrossed'
  <2>1. /\ memory' = Without(Lineage(m)) /\ file' = Unlinked(Lineage(m))
        /\ UNCHANGED <<lastFact, origin, crossed, seen, pc, todo>>
    BY <1>3 DEF Forget, Ops, pass
  <2>2. Closed(Lineage(m))
    BY LineageClosed, NextOf DEF Sound
  <2> QED
    BY <2>1, <2>2, UnlinkedFact, LedForgotten
<1>4. ASSUME NEW r \in Rows, Refuse(r) PROVE Led' /\ TwinsOnlyIfCrossed'
  <2>1. /\ file' = [file EXCEPT ![r] = Reverted(r)] /\ pc = "idle"
        /\ UNCHANGED <<memory, lastFact, origin, crossed, seen, pc, todo>>
    BY <1>4 DEF Refuse, pass
  <2>2. \A q \in Rows : file'[q].memory = file[q].memory
    BY <2>1, SameFact DEF Sound, TypeOK
  <2> QED
    BY <1>0, <2>1, <2>2, LedKept
<1>5. ASSUME NEW r \in Rows, Agree(r) PROVE Led' /\ TwinsOnlyIfCrossed'
  <2>1. pc = "idle" /\ UNCHANGED <<crossed, seen, pc, todo>> /\ hold[r] # NoHold
    BY <1>5 DEF Agree, pass
  <2>2. ASSUME NEW s, file' = [file EXCEPT ![r].state = s], UNCHANGED <<memory, lastFact, origin>>
        PROVE  Led' /\ TwinsOnlyIfCrossed'
    <3>1. file' = [file EXCEPT ![r] = [file[r] EXCEPT !.state = s]]
      BY <2>2
    <3>2. \A q \in Rows : file'[q].memory = file[q].memory
      BY <3>1, SameFact DEF Sound, TypeOK
    <3> QED
      BY <1>0, <2>1, <2>2, <3>2, LedKept
  <2>3. ASSUME ~(hold[r].over # 0 /\ file[r].memory # hold[r].over),
               WriteMemory(hold[r].text, hold[r].kind, "vault", hold[r].over, {hold[r].over} \ {0}),
               file' = [Moved(hold[r].over) EXCEPT ![r] =
                            [file[r] EXCEPT !.state = "ok", !.memory = New]]
        PROVE  Led' /\ TwinsOnlyIfCrossed'
    <3>1. hold[r] \in RuleHold
      BY <2>1 DEF Sound, TypeOK
    <3>2. PICK old : old = hold[r].over
      OBVIOUS
    <3>3. PICK from : from = {old} \ {0}
      OBVIOUS
    <3>4. hold[r].text \in Texts /\ hold[r].kind \in Kinds /\ old \in 0..MaxFacts
      BY <3>1, <3>2 DEF RuleHold
    <3>5. Stands(old, from)
      <4>1. CASE old = 0
        BY <3>3, <4>1 DEF Stands
      <4>2. CASE old # 0
        <5>1. old = file[r].memory /\ old \in Facts /\ from = {old}
          BY <2>3, <3>2, <3>3, <3>4, <4>2, LedFacts
        <5> QED
          BY <5>1, LedFacts DEF Stands
      <4> QED
        BY <4>1, <4>2
    <3>6. WriteMemory(hold[r].text, hold[r].kind, "vault", old, from)
      BY <2>3, <3>2, <3>3
    <3>7. ASSUME NEW q \in Rows
          PROVE  \/ file'[q].memory \in {0, New}
                 \/ /\ file'[q].memory = file[q].memory
                    /\ file[q].memory = old /\ old \in Active => origin[old] \subseteq crossed'
      <4>1. CASE q = r
        <5>1. file'[r] = [file[r] EXCEPT !.state = "ok", !.memory = New]
          BY <2>3, MovedRows
        <5> QED
          BY <4>1, <5>1, SameFact
      <4>2. CASE q # r
        <5>1. file'[q] = Moved(old)[q]
          BY <2>3, <3>2, <4>2, MovedRows
        <5> QED
          BY <5>1, MovedFact
      <4> QED
        BY <4>1, <4>2
    <3>8. seen' = seen /\ \A q \in Rows : seen[q] = 0
      BY <1>0, <2>1
    <3>9. \A q \in Rows : \/ seen'[q] = New
                          \/ /\ seen'[q] = seen[q]
                             /\ seen[q] = old /\ old \in Active => origin[old] \subseteq crossed'
      BY <3>8 DEF Active, Exists
    <3>10. crossed \subseteq crossed' /\ pc' = "idle"
      BY <2>1
    <3> QED
      BY <3>4, <3>5, <3>6, <3>7, <3>8, <3>9, <3>10, LedWritten
  <2>4. CASE UNCHANGED <<memory, lastFact, origin>>
            /\ \E s \in {"ok", "quarantined"} : file' = [file EXCEPT ![r].state = s]
    BY <2>2, <2>4
  <2> QED
    BY <1>5, <2>3, <2>4 DEF Agree
<1>6. CASE KeepAll
  <2>1. /\ pc = "idle" /\ UNCHANGED <<memory, lastFact, origin, crossed, seen, pc, todo>>
        /\ \A q \in Rows : file'[q].memory = file[q].memory
    BY <1>6, SameFact DEF KeepAll, pass, history
  <2> QED
    BY <1>0, <2>1, LedKept
<1>7. CASE ForgetAll
  <2> DEFINE g == UNION {Lineage(file[r].memory) : r \in {r \in mass : file[r].memory # 0}}
  <2>1. PICK gone : gone = g
    OBVIOUS
  <2>2. /\ memory' = Without(gone)
        /\ \A r \in Rows : file'[r] = IF r \in mass THEN NoFile ELSE Unlinked(gone)[r]
        /\ UNCHANGED <<lastFact, origin, crossed, seen, pc, todo>>
    BY <1>7, <2>1 DEF ForgetAll, pass
  <2>3. Closed(gone)
    BY <2>1, LineageClosed, NextOf DEF Sound, Closed
  <2> HIDE DEF g
  <2>4. \A r \in Rows : \/ file'[r].memory = 0
                        \/ file'[r].memory = file[r].memory /\ file[r].memory \notin gone
    BY <2>2, NoFileIsNone, UnlinkedFact
  <2> QED
    BY <2>2, <2>3, <2>4, LedForgotten
<1> QED
  BY <1>1, <1>2, <1>3, <1>4, <1>5, <1>6, <1>7 DEF User

LEMMA LedIngest ==
    ASSUME Sound, Led, TwinsOnlyIfCrossed, Ingest PROVE Led' /\ TwinsOnlyIfCrossed'
<1>0. /\ file \in [Rows -> File \union {NoFile}] /\ seen \in [Rows -> 0..MaxFacts]
      /\ disk \in [Paths -> Content \union {None}] /\ FilesOK
  BY DEF Sound, TypeOK, Numbered, FilesOK
<1>1. ASSUME NEW p \in Paths, IngestLater(p) \/ IngestRaises(p) PROVE Led' /\ TwinsOnlyIfCrossed'
  <2>1. /\ UNCHANGED <<memory, lastFact, origin, crossed, file>>
        /\ \A r \in Rows : seen'[r] \in {0, seen[r]}
        /\ pc' = "idle" => \A r \in Rows : seen'[r] = 0
        /\ pc' \notin {"write", "writing", "record"}
    BY <1>1 DEF IngestLater, IngestRaises, Rest, Leaves, Reads, Turn, db, history
  <2> QED
    BY <2>1, LedKept
<1>2. ASSUME NEW p \in Paths, IngestRefuses(p) \/ IngestNewRule(p)
      PROVE  Led' /\ TwinsOnlyIfCrossed'
  <2>1. /\ UNCHANGED <<memory, lastFact, origin, crossed, seen>> /\ pc' = "ingest"
        /\ AddRow(p, "quarantined", 0) \/ AddRow(p, "held", 0)
        /\ Copied(p) \/ NewFile(p)
    BY <1>2 DEF IngestRefuses, IngestNewRule, Rest, Reads, Turn, history
  <2>2. PICK state \in {"quarantined", "held"} : AddRow(p, state, 0)
    BY <2>1
  <2>3. Fresh(p) \in Rows
    BY <1>0, <2>1, <2>2, FreshRow DEF AddRow
  <2>4. \A q \in Rows : file'[q].memory \in {0, file[q].memory}
    BY <1>0, <2>2, <2>3 DEF AddRow, Row
  <2> QED
    BY <2>1, <2>4, LedKept
<1>3. ASSUME NEW p \in Paths, IngestNewFact(p) PROVE Led' /\ TwinsOnlyIfCrossed'
  <2>1. /\ WriteMemory(disk[p].text, "plain", "vault", 0, {}) /\ AddRow(p, "ok", New)
        /\ seen' = [seen EXCEPT ![Fresh(p)] = New] /\ UNCHANGED crossed /\ pc' = "adopt"
        /\ NewFile(p) /\ Reads(p) /\ disk[p].kind = "plain"
    BY <1>3 DEF IngestNewFact
  <2>2. disk[p].text \in Texts
    BY <2>1, ReadContent, Unbroken DEF Garbled
  <2>3. Fresh(p) \in Rows
    BY <1>0, <2>1, FreshRow DEF AddRow
  <2>4. \A q \in Rows : file'[q].memory \in {New, file[q].memory}
    BY <1>0, <2>1, <2>3 DEF AddRow, Row
  <2>5. \A q \in Rows : seen'[q] \in {New, seen[q]}
    BY <1>0, <2>1, <2>3
  <2>6. Stands(0, {}) /\ 0 \notin Active /\ "plain" \in Kinds
    BY DEF Stands, Active, Exists, Kinds
  <2> QED
    BY <2>1, <2>2, <2>4, <2>5, <2>6, LedWritten
<1>4. ASSUME NEW p \in Paths, NEW r \in Rows,
             \/ IngestSkips(p, r) \/ IngestQuarantines(p, r) \/ IngestHolds(p, r)
             \/ IngestCosmetic(p, r)
      PROVE  Led' /\ TwinsOnlyIfCrossed'
  <2>1. UNCHANGED <<memory, lastFact, origin, crossed, seen>> /\ pc' = "ingest"
    BY <1>4 DEF IngestSkips, IngestQuarantines, IngestHolds, IngestCosmetic, Rest, Done, Edited,
                Reads, Turn, db, history
  <2>2. file' = file \/ \E state : file' = [file EXCEPT ![r] = Taken(p, r, state)]
    BY <1>4 DEF IngestSkips, IngestQuarantines, IngestHolds, IngestCosmetic, db
  <2>3. \A q \in Rows : file'[q].memory = file[q].memory
    BY <1>0, <2>2, SameFact
  <2> QED
    BY <2>1, <2>3, LedKept
<1>5. ASSUME NEW p \in Paths, NEW r \in Rows, IngestChange(p, r)
      PROVE  Led' /\ TwinsOnlyIfCrossed'
  <2>1. PICK m : m = seen[r]
    OBVIOUS
  <2>0. PICK c : c = Merged(p, m)
    OBVIOUS
  <2>2. /\ Reads(p) /\ disk[p] # Garbled /\ Exists(m) /\ UNCHANGED crossed /\ pc' = "ingest"
        /\ disk[p].kind \notin {"rule", "other"} /\ memory[m].kind # "rule"
        /\ WriteMemory(c.text, c.kind, "vault", m, {m})
        /\ file' = [Moved(m) EXCEPT ![r] = [Taken(p, r, "ok") EXCEPT !.memory = New]]
        /\ \A q \in Rows : seen'[q] = IF q = r \/ (m \in Active /\ seen[q] = m)
                                      THEN New ELSE seen[q]
    BY <1>5, <2>0, <2>1 DEF IngestChange, Edited, Changed, RuleInvolved, Done, Reads, Turn
  <2>3. c.text \in Texts /\ c.kind \in Kinds
    BY <1>0, <2>0, <2>1, <2>2, MergedOf DEF Kinds
  <2>4. m \in Facts /\ memory[m] # NoFact /\ Behind(m)
    BY <1>0, <2>1, <2>2, LedFacts DEF Exists, Led, LedRow
  <2>5. Stands(m, {m})
    BY <2>4 DEF Stands
  <2>6. ASSUME NEW q \in Rows
        PROVE  \/ file'[q].memory \in {0, New}
               \/ /\ file'[q].memory = file[q].memory
                  /\ file[q].memory = m /\ m \in Active => origin[m] \subseteq crossed'
    <3>1. CASE q = r
      <4>1. file'[r] = [Taken(p, r, "ok") EXCEPT !.memory = New]
        BY <2>2, MovedRows
      <4> QED
        BY <3>1, <4>1, SameFact
    <3>2. CASE q # r
      <4>1. file'[q] = Moved(m)[q]
        BY <2>2, <3>2, MovedRows
      <4> QED
        BY <4>1, MovedFact
    <3> QED
      BY <3>1, <3>2
  <2> QED
    BY <2>2, <2>3, <2>5, <2>6, LedWritten
<1>6. CASE Adopt \/ AdoptSwap
  <2>1. /\ UNCHANGED <<memory, lastFact, origin, crossed, seen, file>>
        /\ pc' \in {"adopting", "adopted", "ingest"}
    BY <1>6 DEF Adopt, AdoptSwap, db, history
  <2> QED
    BY <2>1, LedKept
<1>7. CASE Adopted
  <2>1. UNCHANGED <<memory, lastFact, origin, crossed, seen>> /\ pc' = "ingest"
    BY <1>7 DEF Adopted, history
  <2>2. PICK r, v : /\ r = at /\ v = Render(seen[at])
                    /\ file' = [file EXCEPT ![r].disk = v, ![r].digest = v]
    BY <1>7 DEF Adopted
  <2>3. r \in Rows
    BY <1>7, <2>2 DEF Adopted, Sound, Reading, Rowed
  <2>4. file' = [file EXCEPT ![r] = [file[r] EXCEPT !.disk = v, !.digest = v]]
    BY <1>0, <2>2, <2>3
  <2>5. \A q \in Rows : file'[q].memory = file[q].memory
    BY <1>0, <2>3, <2>4, SameFact
  <2> QED
    BY <2>1, <2>5, LedKept
<1>8. ASSUME NEW p \in Paths, IngestIgnores(p) PROVE Led' /\ TwinsOnlyIfCrossed'
  <2>1. /\ UNCHANGED <<memory, lastFact, origin, crossed, seen>> /\ pc' = "ingest"
        /\ \A r \in Rows : \/ file'[r] = file[r]
                           \/ file'[r] = [file[r] EXCEPT !.path = p, !.missing = "no"]
    BY <1>8 DEF IngestIgnores, Rest, Reads, Turn
  <2>2. PICK no : no = "no"
    OBVIOUS
  <2>3. ASSUME NEW r \in Rows PROVE file'[r].memory = file[r].memory
    <3>1. file'[r] = file[r] \/ file'[r] = [file[r] EXCEPT !.path = p, !.missing = no]
      BY <2>1, <2>2
    <3>2. [file[r] EXCEPT !.path = p, !.missing = no].memory = file[r].memory
      BY SameFact
    <3> QED
      BY <3>1, <3>2
  <2> QED
    BY <2>1, <2>3, LedKept
<1> QED
  BY <1>1, <1>2, <1>3, <1>4, <1>5, <1>6, <1>7, <1>8 DEF Ingest

LEMMA LedDeletions ==
    ASSUME Sound, Led, TwinsOnlyIfCrossed, NoneDue \/ AskForAll \/ ForgetMissing
    PROVE  Led' /\ TwinsOnlyIfCrossed'
<1>1. pc' = "follow" /\ UNCHANGED <<lastFact, origin, crossed>>
  BY DEF NoneDue, AskForAll, ForgetMissing, Deleting, history
<1>2. CASE NoneDue \/ AskForAll
  <2>1. UNCHANGED <<memory, seen>>
    BY <1>2 DEF NoneDue, AskForAll
  <2>2. ASSUME NEW r \in Rows PROVE file'[r].memory = file[r].memory
    <3>1. PICK s : s = "held"
      OBVIOUS
    <3>2. file'[r] = Noted(r) \/ file'[r] = [file[r] EXCEPT !.state = s]
      BY <1>2, <3>1 DEF NoneDue, AskForAll
    <3>3. /\ Noted(r).memory = file[r].memory
          /\ [file[r] EXCEPT !.state = s].memory = file[r].memory
      BY SameFact
    <3> QED
      BY <3>2, <3>3
  <2> QED
    BY <1>1, <2>1, <2>2, LedKept
<1>3. CASE ForgetMissing
  <2> DEFINE named == {r \in Due : seen[r] # 0}
             g     == UNION {Lineage(seen[r]) : r \in {r \in named : Exists(seen[r])}}
  <2>1. PICK gone : gone = g
    OBVIOUS
  <2>2. /\ memory' = Without(gone)
        /\ \A r \in Rows : file'[r] = IF r \in Due THEN NoFile
                              ELSE [Noted(r) EXCEPT !.memory = IF @ \in gone THEN 0 ELSE @]
        /\ \A r \in Rows : seen'[r] \in {0, seen[r]}
    BY <1>3, <2>1 DEF ForgetMissing
  <2>3. Closed(gone)
    BY <2>1, LineageClosed, NextOf DEF Sound, Closed
  <2> HIDE DEF g
  <2>4. ASSUME NEW r \in Rows
        PROVE  \/ file'[r].memory = 0
               \/ file'[r].memory = file[r].memory /\ file[r].memory \notin gone
    <3>1. CASE r \in Due
      BY <2>2, <3>1, NoFileIsNone
    <3>2. CASE r \notin Due
      <4>1. PICK m : m = IF Noted(r).memory \in gone THEN 0 ELSE Noted(r).memory
        OBVIOUS
      <4>2. file'[r] = [Noted(r) EXCEPT !.memory = m]
        BY <2>2, <3>2, <4>1
      <4> QED
        BY <4>1, <4>2, SameFact
    <3> QED
      BY <3>1, <3>2
  <2> QED
    BY <1>1, <2>2, <2>3, <2>4, LedForgotten
<1> QED
  BY <1>2, <1>3

\* The head of a fact's chain leads, and there is such a fact.
LEMMA HeadIsActive ==
    ASSUME Sound, Traced, NEW m \in Facts, memory[m] # NoFact
    PROVE  Head[m] \in Facts /\ memory[Head[m]] # NoFact /\ memory[Head[m]].next = 0
<1>1. /\ \A k \in Facts : Head[k] = IF memory[k].next = 0 THEN k ELSE Head[memory[k].next]
      /\ \A k \in Facts : Head[k] \in Facts /\ memory[k].next \in 0..MaxFacts
  BY HeadLeads, NextOf DEF Sound
<1> DEFINE S == {k \in Facts : /\ memory[k] # NoFact
                               /\ ~(memory[Head[k]] # NoFact /\ memory[Head[k]].next = 0)}
<1>2. S = {}
  <2>1. SUFFICES ASSUME S # {} PROVE FALSE
    OBVIOUS
  <2>2. PICK k \in S : memory[k].next \notin S
    BY <2>1 DEF Sound, Chained, Rooted
  <2>3. memory[k].next # 0
    BY <1>1, <2>2
  <2>4. memory[k].next \in Facts /\ memory[memory[k].next] # NoFact
    BY <1>1, <2>2, <2>3, VaultAssumption DEF Traced, Facts
  <2>5. Head[k] = Head[memory[k].next]
    BY <1>1, <2>2, <2>3
  <2> QED
    BY <2>2, <2>4, <2>5
<1> QED
  BY <1>1, <1>2

LEMMA LedFollow ==
    ASSUME Sound, Led, TwinsOnlyIfCrossed, FollowHeads
    PROVE  Led' /\ TwinsOnlyIfCrossed'
<1>1. /\ UNCHANGED <<memory, lastFact, origin, crossed>> /\ pc' = "drop"
      /\ \A r \in Rows : seen'[r] = IF r \in Superseded THEN Followed(r) ELSE seen[r]
      /\ \A r \in Rows : file'[r] = IF r \in Superseded
                                    THEN [file[r] EXCEPT !.memory = Followed(r)] ELSE file[r]
  BY DEF FollowHeads, history
<1>2. ASSUME NEW r \in Rows, r \in Superseded
      PROVE  Followed(r) = 0 \/ (memory[Followed(r)] # NoFact /\ Behind(Followed(r)))
  <2>1. seen[r] \in Facts /\ memory[seen[r]] # NoFact
    BY <1>2, LedFacts DEF Superseded, Exists
  <2>2. memory[Head[seen[r]]] # NoFact /\ memory[Head[seen[r]]].next = 0
    BY <2>1, HeadIsActive, LedFacts
  <2>3. Followed(r) \in {0, Head[seen[r]]}
    BY DEF Followed
  <2> QED
    BY <2>2, <2>3 DEF Behind
<1>3. ASSUME NEW r \in Rows, r \in Superseded PROVE file'[r].memory = Followed(r)
  <2>1. PICK m : m = Followed(r)
    OBVIOUS
  <2>2. file'[r] = [file[r] EXCEPT !.memory = m]
    BY <1>1, <1>3, <2>1
  <2> QED
    BY <2>1, <2>2, SameFact
<1>4. ASSUME NEW r \in Rows
      PROVE  /\ \/ file'[r].memory \in {0, file[r].memory}
                \/ memory[file'[r].memory] # NoFact /\ Behind(file'[r].memory)
             /\ seen'[r] \in {0, seen[r], file[r].memory} \/ Behind(seen'[r])
  BY <1>1, <1>2, <1>3
<1> QED
  BY <1>1, <1>4, LedKept

LEMMA LedDrop ==
    ASSUME Sound, Led, TwinsOnlyIfCrossed,
           (\E r \in Rows : DropFile(r)) \/ DropSwap \/ DropRaises \/ DropRow \/ Views
    PROVE  Led' /\ TwinsOnlyIfCrossed'
<1>0. CASE DropRaises
  <2>1. /\ UNCHANGED <<memory, lastFact, origin, crossed, file>>
        /\ pc' = "idle" /\ \A r \in Rows : seen'[r] = 0
    BY <1>0 DEF DropRaises, Leaves, db, history
  <2> QED
    BY <2>1, LedKept
<1>1. ASSUME (\E r \in Rows : DropFile(r)) \/ DropSwap \/ DropRow \/ Views
      PROVE  UNCHANGED <<memory, lastFact, origin, crossed, seen>>
  <2>1. CASE (\E r \in Rows : DropFile(r)) \/ DropRow \/ Views
    BY <2>1 DEF DropFile, DropTurn, DropRow, Views, db, history
  <2>2. CASE DropSwap
    BY <2>2 DEF DropSwap, db
  <2> QED
    BY <1>1, <2>1, <2>2
<1>2. CASE (\E r \in Rows : DropFile(r)) \/ DropSwap
  <2>1. file' = file /\ pc' \in {"drop", "dropping", "dropped"}
    BY <1>2 DEF DropFile, DropSwap, DropTurn, db
  <2> QED
    BY <1>1, <1>2, <2>1, LedKept
<1>3. CASE DropRow
  <2>1. file' = [file EXCEPT ![at] = NoFile] /\ pc' = "drop"
    BY <1>3 DEF DropRow
  <2>2. \A r \in Rows : file'[r].memory \in {0, file[r].memory}
    BY <2>1, NoFileIsNone DEF Sound, TypeOK
  <2> QED
    BY <1>1, <1>3, <2>1, <2>2, LedKept
<1>4. CASE Views
  <2>1. file' = file /\ todo' = {Render(m) : m \in Active}
    BY <1>4 DEF Views, db
  <2>2. ASSUME NEW v \in todo' PROVE Behind(v.anchor)
    <3>1. PICK m \in Active : v = Render(m)
      BY <2>1, <2>2
    <3>2. v.anchor = m /\ memory[m].next = 0
      BY <3>1 DEF Render, Active
    <3> QED
      BY <3>2 DEF Behind
  <2>3. pc' = "write"
    BY <1>4 DEF Views
  <2> QED
    BY <1>1, <1>4, <2>1, <2>2, <2>3, LedKept
<1> QED
  BY <1>0, <1>2, <1>3, <1>4

LEMMA LedWrite ==
    ASSUME Sound, Led, TwinsOnlyIfCrossed, Write \/ Record
    PROVE  Led' /\ TwinsOnlyIfCrossed'
<1>0. /\ file \in [Rows -> File \union {NoFile}] /\ seen \in [Rows -> 0..MaxFacts]
      /\ lastFile \in 0..MaxRows
  BY DEF Sound, TypeOK
<1>1. UNCHANGED <<memory, lastFact, origin, crossed>> /\ pc \in {"write", "writing", "record"}
  <2>1. CASE WriteSwap
    BY <2>1 DEF WriteSwap, db
  <2> QED
    BY <2>1 DEF Write, WriteRow, WriteFile, WriteQuarantines, WriteRaises, WriteSkips, WriteTurn,
                Record, db, history
<1>2. CASE WriteRow(FirstView)
  <2>1. PICK v : v = FirstView
    OBVIOUS
  <2>2. /\ Exists(v.anchor) /\ lastFile < MaxRows /\ UNCHANGED <<todo, pc>>
        /\ file' = [file EXCEPT ![lastFile + 1] = [path |-> v.anchor, state |-> "ok",
                memory |-> v.anchor, disk |-> None, digest |-> None, missing |-> "no"]]
        /\ seen' = [seen EXCEPT ![lastFile + 1] = v.anchor]
        /\ pc = "write" /\ todo # {}
    BY <1>2, <2>1 DEF WriteRow, WriteTurn
  <2>3. v \in todo
    BY <2>1, <2>2, FirstViewOf DEF Sound
  <2>4. memory[v.anchor] # NoFact /\ Behind(v.anchor)
    BY <2>2, <2>3 DEF Led, LedView, Exists
  <2>5. \A r \in Rows : file'[r].memory \in {file[r].memory, v.anchor} /\ seen'[r] \in {seen[r], v.anchor}
    BY <1>0, <2>2, VaultAssumption DEF Rows
  <2>6. ASSUME NEW r \in Rows
        PROVE  /\ \/ file'[r].memory \in {0, file[r].memory}
                  \/ memory[file'[r].memory] # NoFact /\ Behind(file'[r].memory)
               /\ seen'[r] \in {0, seen[r], file[r].memory} \/ Behind(seen'[r])
    BY <2>4, <2>5
  <2> QED
    BY <1>1, <2>2, <2>6, LedKept
<1>3. CASE WriteFile(FirstView) \/ WriteSwap
  <2>1. UNCHANGED <<file, seen, todo>> /\ pc' \in {"writing", "record"}
    BY <1>3 DEF WriteFile, WriteSwap, db
  <2> QED
    BY <1>1, <2>1, LedKept
<1>4. CASE WriteQuarantines(FirstView)
  <2>1. /\ UNCHANGED <<seen, pc>> /\ todo' \subseteq todo /\ pc = "write"
        /\ \E r : file' = [file EXCEPT ![r].state = "quarantined"]
    BY <1>4 DEF WriteQuarantines, Rest, WriteTurn
  <2>2. PICK r : file' = [file EXCEPT ![r].state = "quarantined"]
    BY <2>1
  <2>3. r \in Rows => file' = [file EXCEPT ![r] = [file[r] EXCEPT !.state = "quarantined"]]
    BY <2>2
  <2>4. r \notin Rows => \A q \in Rows : file'[q] = file[q]
    BY <1>0, <2>2
  <2>5. CASE r \in Rows
    <3>1. ASSUME NEW q \in Rows PROVE file'[q].memory = file[q].memory
      <4>1. PICK s : s = "quarantined"
        OBVIOUS
      <4>2. file'[q] = file[q] \/ file'[q] = [file[q] EXCEPT !.state = s]
        BY <1>0, <2>3, <2>5, <4>1
      <4>3. [file[q] EXCEPT !.state = s].memory = file[q].memory
        BY SameFact
      <4> QED
        BY <4>2, <4>3
    <3> QED
      BY <1>1, <2>1, <3>1, LedKept
  <2>6. CASE r \notin Rows
    BY <1>1, <2>1, <2>4, <2>6, LedKept
  <2> QED
    BY <2>5, <2>6
<1>5. CASE WriteRaises(FirstView)
  <2>1. file' = file /\ pc' = "idle" /\ \A r \in Rows : seen'[r] = 0
    BY <1>5 DEF WriteRaises, Leaves, db
  <2> QED
    BY <1>1, <2>1, LedKept
<1>6. CASE WriteSkips(FirstView)
  <2>1. UNCHANGED <<file, seen, pc>> /\ todo' \subseteq todo /\ pc = "write"
    BY <1>6 DEF WriteSkips, WriteTurn, Rest, db
  <2> QED
    BY <1>1, <2>1, LedKept
<1>7. CASE Record
  <2>1. seen' = seen /\ todo' \subseteq todo /\ pc' = "write"
    BY <1>7 DEF Record
  <2>2. PICK r, v : /\ r = at /\ v = FirstView
                    /\ file' = [file EXCEPT ![r].state = "ok", ![r].disk = v, ![r].digest = v]
    BY <1>7 DEF Record
  <2>3. r \in Rows
    BY <1>7, <2>2 DEF Record, Sound, Writing, Rowed
  <2>4. file' = [file EXCEPT ![r] = [file[r] EXCEPT !.state = "ok", !.disk = v, !.digest = v]]
    BY <1>0, <2>2, <2>3
  <2>5. \A q \in Rows : file'[q].memory = file[q].memory
    BY <1>0, <2>3, <2>4, SameFact
  <2> QED
    BY <1>1, <2>1, <2>5, LedKept
<1> QED
  BY <1>2, <1>3, <1>4, <1>5, <1>6, <1>7 DEF Write

LEMMA LedNext ==
    ASSUME Sound, Led, TwinsOnlyIfCrossed, [Next]_vars
    PROVE  Led' /\ TwinsOnlyIfCrossed'
<1>0. \A r \in Rows : pc = "idle" => seen[r] = 0
  BY DEF Led, LedRow
<1>1. CASE \E m, n \in Facts : Consolidate(m, n)
  <2>1. PICK m \in Facts, n \in Facts : Consolidate(m, n)
    BY <1>1
  <2>2. UNCHANGED <<file, seen, pc, todo>> /\ pc = "idle"
    BY <2>1 DEF Consolidate, Ops, pass
  <2>3. Traced' /\ TwinsOnlyIfCrossed' /\ Follows({})
    BY <2>1, LedFacts, MergedLed
  <2>4. ASSUME NEW r \in Rows PROVE LedRow(r)'
    <3>1. PICK m1, k1 : m1 = file[r].memory /\ k1 = seen[r]
      OBVIOUS
    <3>2. /\ m1 # 0 => m1 \in Facts /\ memory[m1] # NoFact
          /\ Behind(m1) /\ Behind(k1) /\ k1 = 0
      BY <2>2, <3>1, LedFacts DEF Led, LedRow
    <3>3. (m1 # 0 => memory'[m1] # NoFact) /\ Behind(m1)' /\ Behind(k1)'
      BY <2>3, <3>2 DEF Follows
    <3> QED
      BY <2>2, <3>1, <3>2, <3>3 DEF LedRow, Behind
  <2> QED
    BY <2>2, <2>3, <2>4 DEF Led, Rows
<1>2. CASE \E r \in Rows : GraceElapses(r)
  <2>1. PICK r \in Rows : GraceElapses(r)
    BY <1>2
  <2>2. /\ UNCHANGED <<memory, lastFact, origin, crossed, seen, pc, todo>>
        /\ \E s : file' = [file EXCEPT ![r].missing = s]
    BY <2>1 DEF GraceElapses, pass
  <2>3. PICK s : file' = [file EXCEPT ![r].missing = s]
    BY <2>2
  <2>4. file' = [file EXCEPT ![r] = [file[r] EXCEPT !.missing = s]]
    BY <2>3
  <2>5. \A q \in Rows : file'[q].memory = file[q].memory
    BY <2>4, SameFact DEF Sound, TypeOK
  <2> QED
    BY <1>0, <2>2, <2>5, LedKept
<1>3. CASE WindowMoves \/ UNCHANGED vars
  <2>1. UNCHANGED <<memory, lastFact, origin, crossed, file, seen, pc, todo>>
    BY <1>3 DEF WindowMoves, vars, db, pass, history
  <2> QED
    BY <1>0, <2>1, LedKept
<1>4. CASE PassStops \/ \E which \in SUBSET Rows, all \in {{}, mass} : ExpireHolds(which, all)
  <2>1. /\ UNCHANGED <<memory, lastFact, origin, crossed>> /\ pc' = "idle"
        /\ \A r \in Rows : seen'[r] = 0
    BY <1>4 DEF PassStops, ExpireHolds, Leaves, db, history
  <2>2. ASSUME NEW r \in Rows PROVE file'[r].memory = file[r].memory
    <3>1. file'[r] \in {file[r], Reverted(r), Restored(r)}
      BY <1>4 DEF PassStops, ExpireHolds, db
    <3> QED
      BY <3>1, SameFact
  <2> QED
    BY <2>1, <2>2, LedKept
<1>5. CASE StartPass
  <2>1. /\ UNCHANGED <<memory, lastFact, origin, crossed, file>> /\ pc' = "ingest"
        /\ \A r \in Rows : seen'[r] = file[r].memory
    BY <1>5 DEF StartPass, db
  <2> QED
    BY <2>1, LedKept
<1> QED
  BY <1>1, <1>2, <1>3, <1>4, <1>5, LedUser, LedIngest, LedDeletions, LedFollow, LedDrop, LedWrite
     DEF Next, Pass

LEMMA LedInit == Init => Led /\ TwinsOnlyIfCrossed
<1> SUFFICES ASSUME Init PROVE Led /\ TwinsOnlyIfCrossed
  OBVIOUS
<1>1. /\ lastFact = 2 /\ pc = "idle" /\ 1 \in Facts /\ 2 \in Facts
      /\ \A m \in Facts : /\ memory[m].next = 0
                          /\ m <= 2 => memory[m] # NoFact
                          /\ origin[m] \subseteq {m} /\ (m > 2 => origin[m] = {})
  BY VaultAssumption DEF Init, NoFact, Facts
<1>2. Traced
  BY <1>1 DEF Traced, Facts
<1>3. \A m : Behind(m)
  BY <1>1 DEF Behind
<1>4. \A r \in Rows : seen[r] = 0 /\ file[r].memory \in {0, 1, 2}
  BY VaultAssumption DEF Init, Synced, NoFile, Rows
<1>5. TwinsOnlyIfCrossed
  BY <1>1 DEF TwinsOnlyIfCrossed, Active
<1> QED
  BY <1>1, <1>2, <1>3, <1>4, <1>5 DEF Led, LedRow

\* One fact becomes two active ones only where a correction came under a pass or a
\* merge before it: whatever else is passed to write_memory as the corrected fact
\* still leads (memory.py's write_memory, called from ingest.py, holds.py and the
\* web panel; consolidate.py's merges).
THEOREM TwinsNeedACrossing == Spec => []TwinsOnlyIfCrossed
<1>1. Sound /\ Led /\ TwinsOnlyIfCrossed /\ [Next]_vars => Led' /\ TwinsOnlyIfCrossed'
  BY LedNext
<1> QED
  BY <1>1, LedInit, AlwaysSound, PTL DEF Spec
=============================================================================
