----------------------- MODULE ProjectScripts_proofs -----------------------
(***************************************************************************)
(* What the scripts keep that act on the files of a project, whatever the  *)
(* texts, epics, modules, settings and cards are: the stop hook            *)
(* (stop_hooks.py), sprint-status.yaml (sprint_plan.py, sprint_status.py), *)
(* the files of a module setup (merge-config.py, merge-help-csv.py,        *)
(* cleanup-legacy.py), the pinned policies (runtime_policy.py), the        *)
(* answers of the orchestrator's commands (tmux.py, basic.py), the places  *)
(* they look at (runtime_layout.py, resolve_customization.py) and the      *)
(* rosters (resolve_party.py, resolve_personas.py).  Each part has its own *)
(* inductive invariant.                                                    *)
(***************************************************************************)
EXTENDS SprintFile, SkillInstall, PolicySnapshot, Orchestration, ProjectRoot, RuntimeLayout, Roster, StopHooks,
        FiniteSetTheorems, SequenceTheorems, WellFoundedInduction, TLAPS

\* A set of naturals that is not empty has a least element.
LEMMA LeastElement ==
  ASSUME NEW S \in SUBSET Nat, S # {}
  PROVE  \E m \in S : \A n \in S : m <= n
<1>1. IsWellFoundedOn(OpToRel(<, Nat), Nat)
  BY NatLessThanWellFounded
<1>2. PICK m \in S : \A n \in S : ~(<<n, m>> \in OpToRel(<, Nat))
  BY <1>1, WFMin
<1>3. \A n \in S : ~(n < m)
  BY <1>2 DEF OpToRel
<1> QED BY <1>3

(***************************************************************************)
(* The stop hook, whatever the texts of config.toml and hooks.json are:    *)
(* first what an edit of one line does to the tables of the others, then   *)
(* what the runs do with the texts they have prepared.                     *)
(***************************************************************************)
\* s is t with one more element, at i.
IsInsertion(t, s, i) ==
  /\ DOMAIN s = 1..(Len(t) + 1) /\ i \in DOMAIN s
  /\ \A j \in 1..(i - 1) : s[j] = t[j]
  /\ \A j \in i..Len(t) : s[j + 1] = t[j]

LEMMA InsertAtInserts ==
  ASSUME NEW S, NEW s \in Seq(S), NEW i \in 1..(Len(s) + 1), NEW e
  PROVE  IsInsertion(s, InsertAt(s, i, e), i) /\ InsertAt(s, i, e)[i] = e
<1> DEFINE T == S \cup {e}
           n == Len(s)
           front == SubSeq(s, 1, i - 1)
           back == SubSeq(s, i, n)
           r == (front \o <<e>>) \o back
<1>1. s \in Seq(T) /\ n \in Nat /\ Len(s) = n /\ DOMAIN s = 1..n /\ <<e>> \in Seq(T) /\ Len(<<e>>) = 1 /\ <<e>>[1] = e
  OBVIOUS
<1>2. i \in 1..(n + 1) /\ i \in Nat
  OBVIOUS
<1> HIDE DEF n
<1>3. front \in Seq(T) /\ Len(front) = i - 1 /\ \A j \in 1..(i - 1) : front[j] = s[j]
  BY <1>1, <1>2
<1>4. back \in Seq(T) /\ Len(back) = n + 1 - i /\ \A j \in 1..(n + 1 - i) : back[j] = s[i + j - 1]
  BY <1>1, <1>2
<1> HIDE DEF front, back, T
<1>5. /\ front \o <<e>> \in Seq(T) /\ Len(front \o <<e>>) = i /\ (front \o <<e>>)[i] = e
      /\ \A j \in 1..(i - 1) : (front \o <<e>>)[j] = s[j]
  BY <1>1, <1>2, <1>3
<1> DEFINE head == front \o <<e>>
<1>6. head \in Seq(T) /\ Len(head) = i /\ head[i] = e /\ \A j \in 1..(i - 1) : head[j] = s[j]
  BY <1>5
<1> HIDE DEF head
<1>7. /\ head \o back \in Seq(T) /\ Len(head \o back) = i + (n + 1 - i)
      /\ \A j \in 1..i : (head \o back)[j] = head[j]
      /\ \A j \in 1..(n + 1 - i) : (head \o back)[i + j] = back[j]
  <2>1. head \o back \in Seq(T) /\ Len(head \o back) = i + (n + 1 - i)
    BY <1>4, <1>6, ConcatProperties
  <2>2. \A j \in 1..(Len(head) + Len(back)) : (head \o back)[j] = IF j <= Len(head) THEN head[j] ELSE back[j - Len(head)]
    BY <1>4, <1>6, ConcatProperties, Zenon
  <2>3. \A j \in 1..(n + 1) : (head \o back)[j] = IF j <= i THEN head[j] ELSE back[j - i]
    BY <1>1, <1>2, <1>4, <1>6, <2>2
  <2>4. \A j \in 1..i : (head \o back)[j] = head[j]
    <3> SUFFICES ASSUME NEW j \in 1..i PROVE (head \o back)[j] = head[j]
      OBVIOUS
    <3>1. j \in 1..(n + 1) /\ j <= i
      BY <1>1, <1>2
    <3> QED BY <2>3, <3>1
  <2>5. \A j \in 1..(n + 1 - i) : (head \o back)[i + j] = back[j]
    <3> SUFFICES ASSUME NEW j \in 1..(n + 1 - i) PROVE (head \o back)[i + j] = back[j]
      OBVIOUS
    <3>1. i + j \in 1..(n + 1) /\ ~(i + j <= i) /\ (i + j) - i = j
      BY <1>1, <1>2
    <3> QED BY <2>3, <3>1
  <2> QED BY <2>1, <2>4, <2>5
<1>8. r = InsertAt(s, i, e) /\ r = head \o back
  BY DEF InsertAt, front, back, n, head
<1> HIDE DEF r
<1>9. DOMAIN r = 1..(n + 1) /\ r[i] = e /\ \A j \in 1..(i - 1) : r[j] = s[j]
  <2>1. DOMAIN r = 1..Len(r) /\ Len(r) = n + 1
    BY <1>1, <1>2, <1>7, <1>8
  <2> QED BY <1>1, <1>2, <1>6, <1>7, <1>8, <2>1
<1>10. \A j \in i..n : r[j + 1] = s[j]
  <2> SUFFICES ASSUME NEW j \in i..n PROVE r[j + 1] = s[j]
    OBVIOUS
  <2> DEFINE k == j + 1 - i
  <2>1. k \in 1..(n + 1 - i) /\ i + k = j + 1 /\ i + k - 1 = j
    BY <1>1, <1>2
  <2> HIDE DEF k
  <2>2. r[i + k] = back[k] /\ back[k] = s[i + k - 1]
    BY <1>4, <1>7, <1>8, <2>1
  <2> QED BY <2>1, <2>2
<1>11. i \in DOMAIN r
  BY <1>1, <1>2, <1>9
<1> QED BY <1>1, <1>8, <1>9, <1>10, <1>11 DEF IsInsertion

LEMMA RemoveAtRemoves ==
  ASSUME NEW S, NEW s \in Seq(S), NEW i \in 1..Len(s)
  PROVE  RemoveAt(s, i) \in Seq(S) /\ IsInsertion(RemoveAt(s, i), s, i)
<1> DEFINE n == Len(s)
           front == SubSeq(s, 1, i - 1)
           back == SubSeq(s, i + 1, n)
           r == front \o back
<1>1. n \in Nat /\ Len(s) = n /\ DOMAIN s = 1..n
  OBVIOUS
<1>2. i \in 1..n /\ i \in Nat
  OBVIOUS
<1> HIDE DEF n
<1>3. front \in Seq(S) /\ Len(front) = i - 1 /\ \A j \in 1..(i - 1) : front[j] = s[j]
  BY <1>1, <1>2
<1>4. back \in Seq(S) /\ Len(back) = n - i /\ \A j \in 1..(n - i) : back[j] = s[i + j]
  <2>1. back \in Seq(S) /\ Len(back) = n - i
    BY <1>1, <1>2
  <2>2. \A j \in 1..(n - (i + 1) + 1) : back[j] = s[(i + 1) + j - 1]
    BY <1>1, <1>2, <2>1
  <2> QED BY <1>1, <1>2, <2>1, <2>2
<1> HIDE DEF front, back
<1>5. r \in Seq(S) /\ Len(r) = (i - 1) + (n - i)
  <2>1. r \in Seq(S) /\ Len(r) = Len(front) + Len(back)
    BY <1>3, <1>4, ConcatProperties, Zenon
  <2> HIDE DEF r
  <2> QED BY <1>3, <1>4, <2>1
<1>6. \A j \in 1..(n - 1) : r[j] = IF j <= i - 1 THEN front[j] ELSE back[j - (i - 1)]
  <2>1. \A j \in 1..(Len(front) + Len(back)) : r[j] = IF j <= Len(front) THEN front[j] ELSE back[j - Len(front)]
    BY <1>3, <1>4, ConcatProperties, Zenon
  <2> HIDE DEF r
  <2> QED BY <1>1, <1>2, <1>3, <1>4, <2>1
<1>7. r = RemoveAt(s, i)
  BY DEF RemoveAt, front, back, n
<1> HIDE DEF r
<1>8. Len(r) = n - 1 /\ Len(r) + 1 = n
  BY <1>1, <1>2, <1>5
<1>9. \A j \in 1..(i - 1) : s[j] = r[j]
  BY <1>1, <1>2, <1>3, <1>6
<1>10. \A j \in i..(n - 1) : s[j + 1] = r[j]
  <2> SUFFICES ASSUME NEW j \in i..(n - 1) PROVE s[j + 1] = r[j]
    OBVIOUS
  <2> DEFINE k == j + 1 - i
  <2>1. k \in 1..(n - i) /\ i + k = j + 1 /\ k = j - (i - 1) /\ ~(j <= i - 1) /\ j \in 1..(n - 1)
    BY <1>1, <1>2
  <2> HIDE DEF k
  <2>2. r[j] = back[k] /\ back[k] = s[i + k]
    BY <1>4, <1>6, <2>1
  <2> QED BY <2>1, <2>2
<1>11. i..Len(r) = i..(n - 1)
  BY <1>8
<1> QED BY <1>1, <1>2, <1>5, <1>7, <1>8, <1>9, <1>10, <1>11 DEF IsInsertion

LEMMA LeastOfIs ==
  ASSUME NEW at \in SUBSET (Nat \ {0})
  PROVE  /\ LeastOf(at) = 0 <=> at = {}
         /\ at # {} => LeastOf(at) \in at /\ \A j \in at : LeastOf(at) <= j
<1>1. at # {} => \E i \in at : \A j \in at : i <= j
  BY LeastElement
<1> QED BY <1>1 DEF LeastOf

LEMMA GreatestOf ==
  ASSUME NEW n \in Nat, NEW at \in SUBSET (1..n), at # {}
  PROVE  \E i \in at : \A j \in at : j <= i
<1> DEFINE below == {n - i : i \in at}
<1>1. below \in SUBSET Nat /\ below # {}
  <2>1. \A i \in at : n - i \in Nat
    OBVIOUS
  <2> QED BY <2>1
<1>2. PICK least \in below : \A k \in below : least <= k
  BY <1>1, LeastElement
<1>3. PICK i \in at : least = n - i
  BY <1>2
<1>4. \A j \in at : n - i <= n - j
  BY <1>2, <1>3
<1> QED BY <1>4

\* The last header above a line decides its table.
IsHeader(lines, i) == lines[i].kind = "header"
HeaderIs(lines, i, h) ==
  \/ h = 0 /\ \A j \in 1..(i - 1) : ~IsHeader(lines, j)
  \/ h \in 1..(i - 1) /\ IsHeader(lines, h) /\ \A j \in (h + 1)..(i - 1) : ~IsHeader(lines, j)

LEMMA HeaderExists ==
  ASSUME NEW lines, NEW i \in Nat \ {0}
  PROVE  \E h \in Nat : HeaderIs(lines, i, h)
<1> DEFINE above == {j \in 1..(i - 1) : IsHeader(lines, j)}
<1>1. CASE above = {}
  BY <1>1 DEF HeaderIs
<1>2. CASE above # {}
  <2>1. above \in SUBSET (1..(i - 1)) /\ i - 1 \in Nat
    OBVIOUS
  <2>2. PICK h \in above : \A j \in above : j <= h
    BY <1>2, <2>1, GreatestOf
  <2>3. \A j \in (h + 1)..(i - 1) : ~IsHeader(lines, j)
    BY <2>2
  <2> QED BY <2>2, <2>3 DEF HeaderIs
<1> QED BY <1>1, <1>2

LEMMA TableIs ==
  ASSUME NEW lines, NEW i \in Nat \ {0}, NEW h \in Nat, HeaderIs(lines, i, h)
  PROVE  TableAt(lines, i) = IF h = 0 THEN "" ELSE lines[h].name
<1> DEFINE above == {j \in 1..(i - 1) : lines[j].kind = "header"}
           chosen == CHOOSE j \in above : \A k \in above : k <= j
<1>1. TableAt(lines, i) = IF above = {} THEN "" ELSE lines[chosen].name
  BY DEF TableAt
<1>2. CASE h = 0
  <2>1. above = {}
    BY <1>2 DEF HeaderIs, IsHeader
  <2> QED BY <1>1, <1>2, <2>1
<1>3. CASE h # 0
  <2>1. h \in above /\ \A k \in above : k <= h
    BY <1>3 DEF HeaderIs, IsHeader
  <2>2. chosen \in above /\ \A k \in above : k <= chosen
    BY <2>1
  <2> HIDE DEF chosen
  <2>3. chosen = h
    BY <2>1, <2>2
  <2> HIDE DEF above
  <2> QED BY <1>1, <1>3, <2>1, <2>3
<1> QED BY <1>2, <1>3

LEMMA TablesAgree ==
  ASSUME NEW a, NEW b, NEW i \in Nat \ {0}, NEW j \in Nat \ {0}, NEW g \in Nat, NEW h \in Nat,
         HeaderIs(a, i, g), HeaderIs(b, j, h), g = 0 <=> h = 0, h # 0 => a[g] = b[h]
  PROVE  TableAt(a, i) = TableAt(b, j)
<1>1. CASE h = 0
  <2>1. TableAt(a, i) = "" /\ TableAt(b, j) = ""
    BY <1>1, TableIs
  <2> QED BY <2>1
<1>2. CASE h # 0
  <2>1. TableAt(a, i) = a[g].name /\ TableAt(b, j) = b[h].name
    BY <1>2, TableIs
  <2> QED BY <1>2, <2>1
<1> QED BY <1>1, <1>2

LEMMA InsertionKeepsTables ==
  ASSUME NEW S, NEW t \in Seq(S), NEW s, NEW i, IsInsertion(t, s, i), ~IsHeader(s, i)
  PROVE  /\ \A j \in 1..i : TableAt(s, j) = TableAt(t, j)
         /\ \A j \in i..Len(t) : TableAt(s, j + 1) = TableAt(t, j)
<1>1. Len(t) \in Nat /\ i \in 1..(Len(t) + 1)
  BY DEF IsInsertion
<1>2. ASSUME NEW j \in 1..i PROVE TableAt(s, j) = TableAt(t, j)
  <2>0. j \in Nat \ {0} /\ j + 1 \in Nat \ {0}
    BY <1>1
  <2>1. PICK h \in Nat : HeaderIs(t, j, h)
    BY <2>0, HeaderExists
  <2>2. \A k \in 1..(j - 1) : s[k] = t[k]
    BY <1>1 DEF IsInsertion
  <2>3. HeaderIs(s, j, h) /\ (h # 0 => s[h] = t[h])
    BY <1>1, <2>1, <2>2 DEF HeaderIs, IsHeader
  <2> QED BY <2>0, <2>1, <2>3, TablesAgree
<1>3. ASSUME NEW j \in i..Len(t) PROVE TableAt(s, j + 1) = TableAt(t, j)
  <2>0. j \in Nat \ {0} /\ j + 1 \in Nat \ {0}
    BY <1>1
  <2>1. PICK h \in Nat : HeaderIs(t, j, h)
    BY <2>0, HeaderExists
  <2> DEFINE g == IF h = 0 \/ h < i THEN h ELSE h + 1
  <2>2. /\ \A k \in 1..(i - 1) : IsHeader(s, k) <=> IsHeader(t, k)
        /\ \A k \in i..Len(t) : IsHeader(s, k + 1) <=> IsHeader(t, k)
    BY <1>1 DEF IsInsertion, IsHeader
  <2>3. \A m \in (i + 1)..(Len(t) + 1) : IsHeader(s, m) <=> IsHeader(t, m - 1)
    <3> SUFFICES ASSUME NEW m \in (i + 1)..(Len(t) + 1) PROVE IsHeader(s, m) <=> IsHeader(t, m - 1)
      OBVIOUS
    <3>1. m - 1 \in i..Len(t) /\ (m - 1) + 1 = m
      BY <1>1
    <3> QED BY <2>2, <3>1
  <2> DEFINE HeadS(m) == IsHeader(s, m)
             HeadT(m) == IsHeader(t, m)
  <2>4. HeaderIs(s, j + 1, g)
    <3>1. CASE h = 0
      <4>1. \A k \in 1..j : ~HeadS(k)
        <5>1. \A k \in 1..(j - 1) : ~HeadT(k)
          BY <2>1, <3>1 DEF HeaderIs
        <5> HIDE DEF HeadS, HeadT
        <5> QED BY <1>1, <2>2, <2>3, <5>1 DEF HeadS, HeadT
      <4> QED BY <3>1, <4>1 DEF HeaderIs
    <3>2. CASE h # 0
      <4>1. h \in 1..(j - 1) /\ HeadT(h) /\ \A k \in (h + 1)..(j - 1) : ~HeadT(k)
        BY <2>1, <3>2 DEF HeaderIs
      <4>2. g \in 1..j /\ HeadS(g)
        BY <1>1, <2>2, <2>3, <4>1
      <4>3. \A k \in (g + 1)..j : ~HeadS(k)
        <5> SUFFICES ASSUME NEW k \in (g + 1)..j PROVE ~HeadS(k)
          OBVIOUS
        <5>1. CASE k < i
          BY <1>1, <2>2, <4>1, <5>1
        <5>2. CASE k = i
          BY <5>2
        <5>3. CASE k > i
          BY <1>1, <2>3, <4>1, <5>3
        <5> QED BY <1>1, <5>1, <5>2, <5>3
      <4> QED BY <1>1, <4>2, <4>3 DEF HeaderIs
    <3> QED BY <3>1, <3>2
  <2>5. g \in Nat /\ (g = 0 <=> h = 0) /\ (h # 0 => s[g] = t[h])
    BY <1>1, <2>1 DEF IsInsertion, HeaderIs
  <2> HIDE DEF g
  <2> QED BY <2>0, <2>1, <2>4, <2>5, TablesAgree
<1> QED BY <1>2, <1>3

LEMMA ReplacingKeepsTables ==
  ASSUME NEW S, NEW s \in Seq(S), NEW i \in DOMAIN s, NEW e, ~IsHeader(s, i), e.kind # "header", NEW j \in 1..Len(s)
  PROVE  TableAt([s EXCEPT ![i] = e], j) = TableAt(s, j)
<1> DEFINE r == [s EXCEPT ![i] = e]
<1>1. /\ DOMAIN s = 1..Len(s) /\ Len(s) \in Nat
      /\ \A k \in DOMAIN s : k # i => r[k] = s[k]
      /\ r[i] = e
  OBVIOUS
<1> HIDE DEF r
<1>0. j \in Nat \ {0}
  BY <1>1
<1>2. PICK h \in Nat : HeaderIs(s, j, h)
  BY <1>0, HeaderExists
<1>3. HeaderIs(r, j, h) /\ (h # 0 => r[h] = s[h])
  BY <1>1, <1>2 DEF HeaderIs, IsHeader
<1>4. TableAt(r, j) = TableAt(s, j)
  BY <1>0, <1>2, <1>3, TablesAgree
<1> QED BY <1>4 DEF r

(***************************************************************************)
(* What an edit of one line does to the features table.                    *)
(***************************************************************************)
OtherLines(lines, i) == {lines[j] : j \in InFeatures(lines) \ {i}}
FeatureLines(lines) == {lines[j] : j \in InFeatures(lines)}
IsKeyLine(line) == line.kind \in {"key", "dotted"}
StandsIn(line, table) ==
  \/ line.kind = "key" /\ table = "features"
  \/ line.kind = "dotted" /\ table = ""
\* r is s with another line of its kind at i.
IsReplacement(s, i, e, r) ==
  /\ InFeatures(r) = InFeatures(s) /\ Inlines(r) = Inlines(s)
  /\ OtherLines(r, i) = OtherLines(s, i) /\ r[i] = e
  /\ \A j \in DOMAIN s : j # i => r[j] = s[j]

LEMMA InFeaturesIs ==
  ASSUME NEW lines, NEW i
  PROVE  i \in InFeatures(lines) <=> i \in DOMAIN lines /\ StandsIn(lines[i], TableAt(lines, i))
<1> DEFINE stands(j) == \/ lines[j].kind = "key" /\ TableAt(lines, j) = "features"
                        \/ lines[j].kind = "dotted" /\ TableAt(lines, j) = ""
<1>1. InFeatures(lines) = {j \in DOMAIN lines : stands(j)}
  BY DEF InFeatures
<1>2. stands(i) <=> StandsIn(lines[i], TableAt(lines, i))
  BY Zenon DEF StandsIn
<1> HIDE DEF stands
<1> QED BY <1>1, <1>2

LEMMA InsertionInFeatures ==
  ASSUME NEW S, NEW t \in Seq(S), NEW s, NEW i, IsInsertion(t, s, i), IsKeyLine(s[i])
  PROVE  /\ OtherLines(s, i) = FeatureLines(t)
         /\ Inlines(t) = {} <=> Inlines(s) = {}
         /\ TableAt(s, i) = TableAt(t, i)
<1>1. Len(t) \in Nat /\ i \in 1..(Len(t) + 1) /\ DOMAIN t = 1..Len(t) /\ DOMAIN s = 1..(Len(t) + 1)
  BY DEF IsInsertion
<1>2. ~IsHeader(s, i)
  BY DEF IsKeyLine, IsHeader
<1>3. /\ \A j \in 1..i : TableAt(s, j) = TableAt(t, j)
      /\ \A j \in i..Len(t) : TableAt(s, j + 1) = TableAt(t, j)
  BY <1>2, InsertionKeepsTables
<1>4. /\ \A j \in 1..(i - 1) : s[j] = t[j]
      /\ \A j \in i..Len(t) : s[j + 1] = t[j]
  BY DEF IsInsertion
<1>5. ASSUME NEW j \in 1..(i - 1)
      PROVE  s[j] = t[j] /\ (j \in InFeatures(s) <=> j \in InFeatures(t)) /\ (j \in Inlines(s) <=> j \in Inlines(t))
  <2>1. j \in 1..i /\ j \in DOMAIN s /\ j \in DOMAIN t
    BY <1>1
  <2>2. TableAt(s, j) = TableAt(t, j) /\ s[j] = t[j]
    BY <1>3, <1>4, <2>1
  <2> QED BY <2>1, <2>2, InFeaturesIs DEF Inlines
<1>6. ASSUME NEW j \in i..Len(t)
      PROVE  s[j + 1] = t[j] /\ (j + 1 \in InFeatures(s) <=> j \in InFeatures(t)) /\ (j + 1 \in Inlines(s) <=> j \in Inlines(t))
  <2>1. j + 1 \in DOMAIN s /\ j \in DOMAIN t
    BY <1>1
  <2>2. TableAt(s, j + 1) = TableAt(t, j) /\ s[j + 1] = t[j]
    BY <1>3, <1>4
  <2> QED BY <2>1, <2>2, InFeaturesIs DEF Inlines
<1>7. i \notin Inlines(s)
  BY DEF IsKeyLine, Inlines
<1>8. \A j \in 1..(Len(t) + 1) : j # i => j \in 1..(i - 1) \/ (j - 1 \in i..Len(t) /\ (j - 1) + 1 = j)
  BY <1>1
<1>9. \A j \in 1..Len(t) : j \in 1..(i - 1) \/ (j \in i..Len(t) /\ j + 1 # i)
  BY <1>1
<1>10. InFeatures(s) \subseteq 1..(Len(t) + 1) /\ InFeatures(t) \subseteq 1..Len(t)
       /\ Inlines(s) \subseteq 1..(Len(t) + 1) /\ Inlines(t) \subseteq 1..Len(t)
  BY <1>1 DEF InFeatures, Inlines
<1>11. \A j \in 1..(i - 1) : j # i
  BY <1>1
<1>12. OtherLines(s, i) \subseteq FeatureLines(t)
  <2> SUFFICES ASSUME NEW j \in InFeatures(s) \ {i} PROVE s[j] \in FeatureLines(t)
    BY DEF OtherLines
  <2>1. CASE j \in 1..(i - 1)
    BY <1>5, <2>1 DEF FeatureLines
  <2>2. CASE j - 1 \in i..Len(t) /\ (j - 1) + 1 = j
    BY <1>6, <2>2 DEF FeatureLines
  <2> QED BY <1>8, <1>10, <2>1, <2>2
<1>13. FeatureLines(t) \subseteq OtherLines(s, i)
  <2> SUFFICES ASSUME NEW j \in InFeatures(t) PROVE t[j] \in OtherLines(s, i)
    BY DEF FeatureLines
  <2>1. CASE j \in 1..(i - 1)
    BY <1>5, <1>11, <2>1 DEF OtherLines
  <2>2. CASE j \in i..Len(t) /\ j + 1 # i
    BY <1>6, <2>2 DEF OtherLines
  <2> QED BY <1>9, <1>10, <2>1, <2>2
<1>14. Inlines(t) = {} <=> Inlines(s) = {}
  <2>1. ASSUME NEW j \in Inlines(s) PROVE Inlines(t) # {}
    <3>1. CASE j \in 1..(i - 1)
      BY <1>5, <2>1, <3>1
    <3>2. CASE j - 1 \in i..Len(t) /\ (j - 1) + 1 = j
      BY <1>6, <2>1, <3>2
    <3>3. j # i
      BY <1>7, <2>1
    <3> QED BY <1>8, <1>10, <2>1, <3>1, <3>2, <3>3
  <2>2. ASSUME NEW j \in Inlines(t) PROVE Inlines(s) # {}
    <3>1. CASE j \in 1..(i - 1)
      BY <1>5, <2>2, <3>1
    <3>2. CASE j \in i..Len(t)
      BY <1>6, <2>2, <3>2
    <3> QED BY <1>9, <1>10, <2>2, <3>1, <3>2
  <2> QED BY <2>1, <2>2
<1>15. TableAt(s, i) = TableAt(t, i)
  BY <1>1, <1>3
<1> QED BY <1>12, <1>13, <1>14, <1>15

LEMMA ReplacingInFeatures ==
  ASSUME NEW S, NEW s \in Seq(S), NEW i \in InFeatures(s), NEW e, e.kind = s[i].kind
  PROVE  IsReplacement(s, i, e, [s EXCEPT ![i] = e])
<1> DEFINE r == [s EXCEPT ![i] = e]
<1>1. DOMAIN s = 1..Len(s) /\ DOMAIN r = DOMAIN s /\ i \in DOMAIN s /\ r[i] = e
  <2>1. i \in DOMAIN s
    BY DEF InFeatures
  <2>2. DOMAIN s = 1..Len(s)
    OBVIOUS
  <2> QED BY <2>1, <2>2
<1>2. \A j \in DOMAIN s : j # i => r[j] = s[j]
  BY <1>1
<1>3. ~IsHeader(s, i) /\ e.kind # "header"
  BY DEF InFeatures, IsHeader
<1>4. \A j \in DOMAIN s : TableAt(r, j) = TableAt(s, j)
  <2> SUFFICES ASSUME NEW j \in DOMAIN s PROVE TableAt(r, j) = TableAt(s, j)
    OBVIOUS
  <2>1. j \in 1..Len(s)
    BY <1>1
  <2>2. TableAt([s EXCEPT ![i] = e], j) = TableAt(s, j)
    BY <1>1, <1>3, <2>1, ReplacingKeepsTables
  <2> QED BY <2>2
<1>5. \A j \in DOMAIN s : r[j].kind = s[j].kind
  BY <1>1, <1>2
<1>6. InFeatures(r) = InFeatures(s) /\ Inlines(r) = Inlines(s)
  BY <1>1, <1>4, <1>5 DEF InFeatures, Inlines
<1>7. InFeatures(s) \subseteq DOMAIN s
  BY DEF InFeatures
<1>8. OtherLines(r, i) = OtherLines(s, i)
  BY <1>2, <1>6, <1>7 DEF OtherLines
<1> QED BY <1>1, <1>2, <1>6, <1>8, Zenon DEF IsReplacement

LEMMA LinesButOne ==
  ASSUME NEW lines, NEW i \in InFeatures(lines)
  PROVE  FeatureLines(lines) = OtherLines(lines, i) \cup {lines[i]}
BY DEF FeatureLines, OtherLines

\* What is left of the features table by a patch of its lines.
IsOwned(line) == line.name \in {"hooks", "codex_hooks"}
IsPatched(lines, r) ==
  /\ Inlines(r) = {}
  /\ \E line \in FeatureLines(r) : line.name = "hooks" /\ line.on = TRUE
  /\ \A line \in FeatureLines(r) : line.name # "codex_hooks"
  /\ \A line \in FeatureLines(lines) : IsOwned(line) \/ line \in FeatureLines(r)

LEMMA AppliedIsPatched ==
  ASSUME NEW S, NEW lines \in Seq(S), Inlines(lines) = {},
         NEW line, IsKeyLine(line), line.name = "hooks", line.on = TRUE,
         NEW hooksAt, hooksAt = 0 \/ (hooksAt \in InFeatures(lines) /\ lines[hooksAt].kind = line.kind /\ lines[hooksAt].name = "hooks"),
         NEW legacyAt, legacyAt = 0 \/ (legacyAt \in InFeatures(lines) /\ lines[legacyAt].kind = line.kind /\ lines[legacyAt].name = "codex_hooks"),
         \A j \in InFeatures(lines) : lines[j].name = "codex_hooks" => j = legacyAt,
         NEW insertAfter,
         hooksAt = 0 /\ legacyAt = 0 => insertAfter + 1 \in 1..(Len(lines) + 1) /\ StandsIn(line, TableAt(lines, insertAfter + 1))
  PROVE  IsPatched(lines, ApplyFeatureHooks(lines, insertAfter, hooksAt, legacyAt, line))
<1>0. DOMAIN lines = 1..Len(lines) /\ Len(lines) \in Nat /\ InFeatures(lines) \subseteq DOMAIN lines /\ 0 \notin DOMAIN lines
  <2>1. InFeatures(lines) \subseteq DOMAIN lines
    BY DEF InFeatures
  <2>2. DOMAIN lines = 1..Len(lines) /\ Len(lines) \in Nat
    OBVIOUS
  <2> QED BY <2>1, <2>2
<1>1. CASE hooksAt # 0
  <2> DEFINE r == [lines EXCEPT ![hooksAt] = line]
  <2>1. hooksAt \in InFeatures(lines) /\ lines[hooksAt].kind = line.kind /\ lines[hooksAt].name = "hooks"
    BY <1>1
  <2>2. /\ InFeatures(r) = InFeatures(lines) /\ Inlines(r) = Inlines(lines)
        /\ OtherLines(r, hooksAt) = OtherLines(lines, hooksAt) /\ r[hooksAt] = line
        /\ \A j \in DOMAIN lines : j # hooksAt => r[j] = lines[j]
    <3>1. hooksAt \in InFeatures(lines) /\ line.kind = lines[hooksAt].kind
      BY <2>1
    <3>2. IsReplacement(lines, hooksAt, line, r)
      BY <3>1, ReplacingInFeatures
    <3> HIDE DEF r
    <3> QED BY <3>2 DEF IsReplacement
  <2>3. r \in Seq(S \cup {line}) /\ Len(r) = Len(lines) /\ DOMAIN r = DOMAIN lines
    BY <1>0, <2>1
  <2> HIDE DEF r
  <2>4. FeatureLines(r) = OtherLines(lines, hooksAt) \cup {line} /\ FeatureLines(lines) = OtherLines(lines, hooksAt) \cup {lines[hooksAt]}
    BY <2>1, <2>2, LinesButOne
  <2>5. CASE legacyAt = 0
    <3>1. \A j \in InFeatures(lines) : lines[j].name # "codex_hooks"
      BY <1>0, <2>5
    <3>2. \A other \in OtherLines(lines, hooksAt) : other.name # "codex_hooks"
      BY <3>1 DEF OtherLines
    <3>3. IsPatched(lines, r)
      BY <2>1, <2>2, <2>4, <3>2 DEF IsPatched, IsOwned
    <3> QED BY <1>1, <2>5, <3>3 DEF ApplyFeatureHooks, r
  <2>6. CASE legacyAt # 0
    <3> DEFINE d == RemoveAt(r, legacyAt)
    <3>1. legacyAt \in InFeatures(lines) /\ lines[legacyAt].kind = line.kind /\ lines[legacyAt].name = "codex_hooks"
      BY <2>6
    <3>2. legacyAt # hooksAt /\ r[legacyAt] = lines[legacyAt] /\ legacyAt \in InFeatures(r) /\ legacyAt \in 1..Len(r)
      BY <1>0, <2>1, <2>2, <2>3, <3>1
    <3>3. d \in Seq(S \cup {line}) /\ IsInsertion(d, r, legacyAt)
      BY <2>3, <3>2, RemoveAtRemoves
    <3>4. IsKeyLine(r[legacyAt])
      BY <3>1, <3>2 DEF IsKeyLine
    <3> HIDE DEF d
    <3>5. OtherLines(r, legacyAt) = FeatureLines(d) /\ (Inlines(d) = {} <=> Inlines(r) = {})
      BY <3>3, <3>4, InsertionInFeatures
    <3>6. \A j \in InFeatures(r) \ {legacyAt} : r[j].name # "codex_hooks"
      <4> SUFFICES ASSUME NEW j \in InFeatures(r) \ {legacyAt} PROVE r[j].name # "codex_hooks"
        OBVIOUS
      <4>1. CASE j = hooksAt
        BY <2>2, <4>1
      <4>2. CASE j # hooksAt
        BY <1>0, <2>2, <4>2
      <4> QED BY <4>1, <4>2
    <3>7. line \in OtherLines(r, legacyAt)
      BY <2>1, <2>2, <3>2 DEF OtherLines
    <3>8. ASSUME NEW j \in InFeatures(lines), ~IsOwned(lines[j]) PROVE lines[j] \in OtherLines(r, legacyAt)
      <4>1. j # legacyAt /\ j # hooksAt
        BY <2>1, <3>1, <3>8 DEF IsOwned
      <4>2. r[j] = lines[j] /\ j \in InFeatures(r) \ {legacyAt}
        BY <1>0, <2>2, <4>1
      <4> QED BY <4>2 DEF OtherLines
    <3>9. \A other \in OtherLines(r, legacyAt) : other.name # "codex_hooks"
      BY <3>6 DEF OtherLines
    <3>10. \A other \in FeatureLines(lines) : IsOwned(other) \/ other \in OtherLines(r, legacyAt)
      BY <3>8 DEF FeatureLines
    <3>11. IsPatched(lines, d)
      BY <2>2, <3>5, <3>7, <3>9, <3>10 DEF IsPatched
    <3> QED BY <1>1, <2>6, <3>11 DEF ApplyFeatureHooks, r, d
  <2> QED BY <2>5, <2>6
<1>2. CASE hooksAt = 0 /\ legacyAt # 0
  <2> DEFINE r == [lines EXCEPT ![legacyAt] = line]
  <2>1. legacyAt \in InFeatures(lines) /\ lines[legacyAt].kind = line.kind /\ lines[legacyAt].name = "codex_hooks"
    BY <1>2
  <2>2. /\ InFeatures(r) = InFeatures(lines) /\ Inlines(r) = Inlines(lines)
        /\ OtherLines(r, legacyAt) = OtherLines(lines, legacyAt) /\ r[legacyAt] = line
    <3>1. legacyAt \in InFeatures(lines) /\ line.kind = lines[legacyAt].kind
      BY <2>1
    <3>2. IsReplacement(lines, legacyAt, line, r)
      BY <3>1, ReplacingInFeatures
    <3> HIDE DEF r
    <3> QED BY <3>2 DEF IsReplacement
  <2> HIDE DEF r
  <2>3. FeatureLines(r) = OtherLines(lines, legacyAt) \cup {line} /\ FeatureLines(lines) = OtherLines(lines, legacyAt) \cup {lines[legacyAt]}
    BY <2>1, <2>2, LinesButOne
  <2>4. \A other \in OtherLines(lines, legacyAt) : other.name # "codex_hooks"
    BY DEF OtherLines
  <2>5. IsPatched(lines, r)
    BY <2>1, <2>2, <2>3, <2>4 DEF IsPatched, IsOwned
  <2> QED BY <1>2, <2>5 DEF ApplyFeatureHooks, r
<1>3. CASE hooksAt = 0 /\ legacyAt = 0
  <2> DEFINE i == insertAfter + 1
             r == InsertAt(lines, i, line)
  <2>1. i \in 1..(Len(lines) + 1) /\ StandsIn(line, TableAt(lines, i))
    BY <1>3
  <2> HIDE DEF i
  <2>2. IsInsertion(lines, r, i) /\ r[i] = line
    BY <2>1, InsertAtInserts
  <2> HIDE DEF r
  <2>3. OtherLines(r, i) = FeatureLines(lines) /\ (Inlines(lines) = {} <=> Inlines(r) = {}) /\ TableAt(r, i) = TableAt(lines, i)
    BY <2>2, InsertionInFeatures
  <2>4. i \in InFeatures(r)
    BY <2>1, <2>2, <2>3, InFeaturesIs DEF IsInsertion
  <2>5. FeatureLines(r) = FeatureLines(lines) \cup {line}
    BY <2>2, <2>3, <2>4, LinesButOne
  <2>6. \A other \in FeatureLines(lines) : other.name # "codex_hooks"
    BY <1>0, <1>3 DEF FeatureLines
  <2>7. IsPatched(lines, r)
    BY <2>3, <2>5, <2>6 DEF IsPatched
  <2> QED BY <1>3, <2>7 DEF ApplyFeatureHooks, r, i
<1> QED BY <1>1, <1>2, <1>3

(***************************************************************************)
(* The patch of a config.toml that parses.                                 *)
(***************************************************************************)
IsConfig(lines) ==
  /\ lines \in Seq(Range(lines))
  /\ \A i \in DOMAIN lines : lines[i].items \in Seq(Range(lines[i].items)) /\ (lines[i].kind = "header" => lines[i].name # "")

OthersOf(lines) == {f \in Features(lines) : f[1] \notin {"hooks", "codex_hooks"}}
IsRight(lines, r) == HooksEnabled(r) /\ OthersOf(lines) \subseteq Features(r)

LEMMA AtMostOne ==
  ASSUME NEW n \in Nat, NEW S \in SUBSET (1..n), Cardinality(S) <= 1, NEW i \in S, NEW j \in S
  PROVE  i = j
<1>1. IsFiniteSet(S)
  <2>1. IsFiniteSet(1..n)
    BY FS_Interval
  <2> QED BY <2>1, FS_Subset
<1>2. IsFiniteSet(S \ {i}) /\ Cardinality(S \ {i}) = Cardinality(S) - 1
  BY <1>1, FS_RemoveElement
<1>3. Cardinality(S) \in Nat /\ Cardinality(S \ {i}) \in Nat
  BY <1>1, <1>2, FS_CardinalityType
<1>4. Cardinality(S \ {i}) = 0
  BY <1>2, <1>3
<1>5. S \ {i} = {}
  BY <1>2, <1>4, FS_EmptySet
<1> QED BY <1>5

LEMMA FeaturesWithoutInlines ==
  ASSUME NEW lines, Inlines(lines) = {}
  PROVE  Features(lines) = {<<line.name, line.on>> : line \in FeatureLines(lines)}
BY DEF Features, FeatureLines

LEMMA PatchedIsRight ==
  ASSUME NEW lines, NEW r, Inlines(lines) = {}, IsPatched(lines, r)
  PROVE  IsRight(lines, r)
<1>1. /\ Features(lines) = {<<line.name, line.on>> : line \in FeatureLines(lines)}
      /\ Features(r) = {<<line.name, line.on>> : line \in FeatureLines(r)}
  BY FeaturesWithoutInlines DEF IsPatched
<1>2. <<"hooks", TRUE>> \in Features(r)
  <2>1. PICK line \in FeatureLines(r) : line.name = "hooks" /\ line.on = TRUE
    BY DEF IsPatched
  <2> QED BY <1>1, <2>1
<1>3. \A on \in BOOLEAN : <<"codex_hooks", on>> \notin Features(r)
  <2> SUFFICES ASSUME NEW on \in BOOLEAN, NEW line \in FeatureLines(r), <<"codex_hooks", on>> = <<line.name, line.on>> PROVE FALSE
    BY <1>1
  <2>1. line.name # "codex_hooks"
    BY DEF IsPatched
  <2> QED BY <2>1
<1>4. OthersOf(lines) \subseteq Features(r)
  <2> SUFFICES ASSUME NEW f \in OthersOf(lines) PROVE f \in Features(r)
    OBVIOUS
  <2>1. PICK line \in FeatureLines(lines) : f = <<line.name, line.on>>
    BY <1>1 DEF OthersOf
  <2>2. ~IsOwned(line)
    BY <2>1 DEF OthersOf, IsOwned
  <2>3. line \in FeatureLines(r)
    BY <2>2 DEF IsPatched
  <2> QED BY <1>1, <2>1, <2>3
<1> QED BY <1>2, <1>3, <1>4 DEF IsRight, HooksEnabled

LEMMA ElementsOfInsertion ==
  ASSUME NEW S, NEW t \in Seq(S), NEW s, NEW i, IsInsertion(t, s, i)
  PROVE  /\ \A j \in DOMAIN t : \E k \in DOMAIN s : k # i /\ s[k] = t[j]
         /\ \A k \in DOMAIN s : k # i => \E j \in DOMAIN t : s[k] = t[j]
<1>1. Len(t) \in Nat /\ i \in 1..(Len(t) + 1) /\ DOMAIN t = 1..Len(t) /\ DOMAIN s = 1..(Len(t) + 1)
  BY DEF IsInsertion
<1>2. /\ \A j \in 1..(i - 1) : s[j] = t[j]
      /\ \A j \in i..Len(t) : s[j + 1] = t[j]
  BY DEF IsInsertion
<1>3. ASSUME NEW j \in DOMAIN t PROVE \E k \in DOMAIN s : k # i /\ s[k] = t[j]
  <2>1. CASE j < i
    BY <1>1, <1>2, <2>1
  <2>2. CASE j >= i
    <3>1. j + 1 \in DOMAIN s /\ j + 1 # i /\ s[j + 1] = t[j]
      BY <1>1, <1>2, <2>2
    <3> QED BY <3>1
  <2> QED BY <1>1, <2>1, <2>2
<1>4. ASSUME NEW k \in DOMAIN s, k # i PROVE \E j \in DOMAIN t : s[k] = t[j]
  <2>1. CASE k < i
    BY <1>1, <1>2, <2>1
  <2>2. CASE k > i
    <3>1. k - 1 \in i..Len(t) /\ (k - 1) + 1 = k /\ k - 1 \in DOMAIN t
      BY <1>1, <2>2
    <3>2. s[(k - 1) + 1] = t[k - 1]
      BY <1>2, <3>1
    <3> QED BY <3>1, <3>2
  <2> QED BY <1>1, <1>4, <2>1, <2>2
<1> QED BY <1>3, <1>4

\* An inline table: r is what becomes of its items.
AreSet(items, r) ==
  /\ \E k \in DOMAIN r : r[k].name = "hooks" /\ r[k].on = TRUE
  /\ \A k \in DOMAIN r : r[k].name # "codex_hooks"
  /\ \A j \in DOMAIN items : items[j].name \in {"hooks", "codex_hooks"} \/ \E k \in DOMAIN r : r[k] = items[j]

LEMMA ItemsAreSet ==
  ASSUME NEW S, NEW items \in Seq(S), \A j, k \in DOMAIN items : j # k => items[j].name # items[k].name
  PROVE  AreSet(items, SetInlineItems(items))
<1> DEFINE named(name) == {k \in DOMAIN items : items[k].name = name}
           hooksAt == LeastOf(named("hooks"))
           legacyAt == LeastOf(named("codex_hooks"))
           line == [name |-> "hooks", on |-> TRUE]
           n == Len(items)
<1>1. n \in Nat /\ DOMAIN items = 1..n /\ Len(items) = n
  OBVIOUS
<1>2. line.name = "hooks" /\ line.on = TRUE
  OBVIOUS
<1>3. \A name : /\ LeastOf(named(name)) = 0 <=> named(name) = {}
                /\ named(name) # {} => LeastOf(named(name)) \in named(name)
  <2> SUFFICES ASSUME NEW name
               PROVE  /\ LeastOf(named(name)) = 0 <=> named(name) = {}
                      /\ named(name) # {} => LeastOf(named(name)) \in named(name)
    OBVIOUS
  <2>1. named(name) \in SUBSET (Nat \ {0})
    BY <1>1
  <2> HIDE DEF named
  <2> QED BY <2>1, LeastOfIs
<1>4. hooksAt = 0 <=> \A k \in DOMAIN items : items[k].name # "hooks"
  BY <1>3
<1>5. hooksAt # 0 => hooksAt \in DOMAIN items /\ items[hooksAt].name = "hooks"
  BY <1>3
<1>6. legacyAt # 0 => legacyAt \in DOMAIN items /\ items[legacyAt].name = "codex_hooks"
  BY <1>3
<1>7. \A k \in DOMAIN items : items[k].name = "codex_hooks" => k = legacyAt
  <2> SUFFICES ASSUME NEW k \in DOMAIN items, items[k].name = "codex_hooks" PROVE k = legacyAt
    OBVIOUS
  <2>1. k \in named("codex_hooks")
    OBVIOUS
  <2>2. legacyAt \in named("codex_hooks")
    BY <1>3, <2>1
  <2>3. legacyAt \in DOMAIN items /\ items[legacyAt].name = "codex_hooks"
    BY <2>2
  <2> HIDE DEF legacyAt
  <2> QED BY <2>3
<1>8. SetInlineItems(items) = ApplyFeatureHooks(items, n, hooksAt, legacyAt, line)
  BY DEF SetInlineItems
<1> HIDE DEF hooksAt, legacyAt, n, line
<1>9. CASE hooksAt # 0
  <2> DEFINE r == [items EXCEPT ![hooksAt] = line]
  <2>1. hooksAt \in DOMAIN items /\ items[hooksAt].name = "hooks"
    BY <1>5, <1>9
  <2>2. DOMAIN r = DOMAIN items /\ r[hooksAt] = line /\ \A j \in DOMAIN items : j # hooksAt => r[j] = items[j]
    BY <1>1, <2>1
  <2>3. r \in Seq(S \cup {line}) /\ Len(r) = n
    BY <1>1, <2>1
  <2> HIDE DEF r
  <2>4. CASE legacyAt = 0
    <3>1. \A k \in DOMAIN items : items[k].name # "codex_hooks"
      BY <1>1, <1>7, <2>4
    <3>2. AreSet(items, r)
      BY <1>2, <2>1, <2>2, <3>1 DEF AreSet
    <3> QED BY <1>8, <1>9, <2>4, <3>2 DEF ApplyFeatureHooks, r
  <2>5. CASE legacyAt # 0
    <3> DEFINE d == RemoveAt(r, legacyAt)
    <3>1. legacyAt \in DOMAIN items /\ items[legacyAt].name = "codex_hooks" /\ legacyAt # hooksAt /\ legacyAt \in 1..Len(r)
      BY <1>1, <1>6, <2>1, <2>3, <2>5
    <3>2. d \in Seq(S \cup {line}) /\ IsInsertion(d, r, legacyAt)
      BY <2>3, <3>1, RemoveAtRemoves
    <3> HIDE DEF d
    <3>3. /\ \A j \in DOMAIN d : \E k \in DOMAIN r : k # legacyAt /\ r[k] = d[j]
          /\ \A k \in DOMAIN r : k # legacyAt => \E j \in DOMAIN d : r[k] = d[j]
      BY <3>2, ElementsOfInsertion
    <3>4. \E k \in DOMAIN d : d[k] = line
      BY <2>1, <2>2, <3>1, <3>3
    <3>5. \A k \in DOMAIN r : k # legacyAt => r[k].name # "codex_hooks"
      BY <1>2, <1>7, <2>2
    <3>6. \A j \in DOMAIN items : items[j].name \in {"hooks", "codex_hooks"} \/ \E k \in DOMAIN d : d[k] = items[j]
      <4> SUFFICES ASSUME NEW j \in DOMAIN items, items[j].name \notin {"hooks", "codex_hooks"} PROVE \E k \in DOMAIN d : d[k] = items[j]
        OBVIOUS
      <4>1. j # hooksAt /\ j # legacyAt
        BY <2>1, <3>1
      <4> QED BY <2>2, <3>3, <4>1
    <3>7. \A j \in DOMAIN d : d[j].name # "codex_hooks"
      BY <3>3, <3>5
    <3>8. AreSet(items, d)
      BY <1>2, <3>4, <3>6, <3>7 DEF AreSet
    <3> QED BY <1>8, <1>9, <2>5, <3>8 DEF ApplyFeatureHooks, r, d
  <2> QED BY <2>4, <2>5
<1>10. CASE hooksAt = 0 /\ legacyAt # 0
  <2> DEFINE r == [items EXCEPT ![legacyAt] = line]
  <2>1. legacyAt \in DOMAIN items /\ items[legacyAt].name = "codex_hooks"
    BY <1>6, <1>10
  <2>2. DOMAIN r = DOMAIN items /\ r[legacyAt] = line /\ \A j \in DOMAIN items : j # legacyAt => r[j] = items[j]
    BY <1>1, <2>1
  <2> HIDE DEF r
  <2>3. AreSet(items, r)
    BY <1>2, <1>7, <2>1, <2>2 DEF AreSet
  <2> QED BY <1>8, <1>10, <2>3 DEF ApplyFeatureHooks, r
<1>11. CASE hooksAt = 0 /\ legacyAt = 0
  <2> DEFINE r == InsertAt(items, n + 1, line)
  <2>1. n + 1 \in 1..(Len(items) + 1)
    BY <1>1
  <2>2. IsInsertion(items, r, n + 1) /\ r[n + 1] = line
    BY <2>1, InsertAtInserts
  <2> HIDE DEF r
  <2>3. /\ \A j \in DOMAIN items : \E k \in DOMAIN r : k # n + 1 /\ r[k] = items[j]
        /\ \A k \in DOMAIN r : k # n + 1 => \E j \in DOMAIN items : r[k] = items[j]
    BY <2>2, ElementsOfInsertion
  <2>4. n + 1 \in DOMAIN r
    BY <2>2 DEF IsInsertion
  <2>5. \A k \in DOMAIN items : items[k].name # "codex_hooks"
    BY <1>1, <1>7, <1>11
  <2>6. AreSet(items, r)
    BY <1>2, <2>2, <2>3, <2>4, <2>5 DEF AreSet
  <2> QED BY <1>8, <1>11, <2>6 DEF ApplyFeatureHooks, r
<1> QED BY <1>9, <1>10, <1>11

(***************************************************************************)
(* Where the lines of a table stand.                                       *)
(***************************************************************************)
LEMMA TableUnder ==
  ASSUME NEW lines, NEW n \in Nat, NEW h \in Nat, NEW i \in Nat \ {0}, HeaderIs(lines, i, h)
  PROVE  /\ h = 0 => TableAt(lines, i) = ""
         /\ h # 0 => TableAt(lines, i) = lines[h].name
BY TableIs, Zenon

\* The root ends before the first header.
IsRoot(lines, e) ==
  /\ e \in 0..Len(lines) /\ \A j \in 1..e : ~IsHeader(lines, j)
  /\ e = Len(lines) \/ IsHeader(lines, e + 1)

LEMMA RootEndIs ==
  ASSUME NEW lines, lines \in Seq(Range(lines)),
         NEW first, first = LeastOf({i \in DOMAIN lines : lines[i].kind = "header"})
  PROVE  IsRoot(lines, IF first = 0 THEN Len(lines) ELSE first - 1)
<1> DEFINE n == Len(lines)
           heads == {i \in DOMAIN lines : lines[i].kind = "header"}
<1>1. n \in Nat /\ DOMAIN lines = 1..n /\ Len(lines) = n
  OBVIOUS
<1> HIDE DEF n
<1>2. heads \in SUBSET (Nat \ {0})
  BY <1>1
<1>3. /\ LeastOf(heads) = 0 <=> heads = {}
      /\ heads # {} => LeastOf(heads) \in heads /\ \A j \in heads : LeastOf(heads) <= j
  BY <1>2, LeastOfIs, Zenon
<1>4. first = LeastOf(heads)
  OBVIOUS
<1>5. CASE first = 0
  <2>1. heads = {}
    BY <1>3, <1>4, <1>5
  <2>2. \A j \in 1..n : ~IsHeader(lines, j)
    BY <1>1, <2>1 DEF IsHeader
  <2>3. IsRoot(lines, n)
    BY <1>1, <2>2 DEF IsRoot
  <2> QED BY <1>1, <1>5, <2>3
<1>6. CASE first # 0
  <2>1. first \in heads /\ \A j \in heads : first <= j
    BY <1>3, <1>4, <1>6
  <2>2. first \in 1..n /\ IsHeader(lines, first)
    BY <1>1, <2>1 DEF IsHeader
  <2>3. \A j \in 1..(first - 1) : ~IsHeader(lines, j)
    <3> SUFFICES ASSUME NEW j \in 1..(first - 1) PROVE ~IsHeader(lines, j)
      OBVIOUS
    <3>1. j \in 1..n /\ ~(first <= j)
      BY <1>1, <2>2
    <3>2. j \notin heads
      BY <2>1, <3>1
    <3> QED BY <1>1, <3>1, <3>2 DEF IsHeader
  <2> DEFINE e == first - 1
  <2>4. e \in 0..n /\ e + 1 = first
    BY <1>1, <2>2
  <2> HIDE DEF e
  <2>5. \A j \in 1..e : ~IsHeader(lines, j)
    BY <2>3 DEF e
  <2>6. IsRoot(lines, e)
    BY <1>1, <2>2, <2>4, <2>5 DEF IsRoot
  <2> QED BY <1>6, <2>6 DEF e
<1> QED BY <1>5, <1>6

LEMMA RootLines ==
  ASSUME NEW lines, IsConfig(lines), NEW e, IsRoot(lines, e)
  PROVE  /\ \A i \in 1..(e + 1) : TableAt(lines, i) = ""
         /\ \A i \in DOMAIN lines : TableAt(lines, i) = "" => i \in 1..(e + 1)
<1> DEFINE n == Len(lines)
<1>1. n \in Nat /\ DOMAIN lines = 1..n
  <2>1. lines \in Seq(Range(lines))
    BY DEF IsConfig
  <2> QED BY <2>1
<1>2. e \in 0..n /\ (\A j \in 1..e : ~IsHeader(lines, j)) /\ (e = n \/ IsHeader(lines, e + 1))
  BY DEF IsRoot
<1> HIDE DEF n
<1>3. ASSUME NEW i \in 1..(e + 1) PROVE TableAt(lines, i) = ""
  <2>1. i \in Nat \ {0} /\ \A j \in 1..(i - 1) : j \in 1..e
    BY <1>1, <1>2
  <2>2. HeaderIs(lines, i, 0)
    BY <1>2, <2>1 DEF HeaderIs
  <2> QED BY <2>1, <2>2, TableUnder
<1>4. ASSUME NEW i \in DOMAIN lines, i \notin 1..(e + 1) PROVE TableAt(lines, i) # ""
  <2>1. i \in 1..n
    BY <1>1
  <2>2. i \in Nat \ {0} /\ e + 1 \in 1..(i - 1) /\ e # n
    BY <1>1, <1>2, <1>4, <2>1
  <2>3. PICK h \in Nat : HeaderIs(lines, i, h)
    BY <2>2, HeaderExists
  <2>4. IsHeader(lines, e + 1)
    BY <1>2, <2>2
  <2>5. h # 0 /\ h \in 1..(i - 1) /\ IsHeader(lines, h)
    BY <2>2, <2>3, <2>4 DEF HeaderIs
  <2>6. h \in DOMAIN lines
    BY <1>1, <2>1, <2>5
  <2>7. lines[h].name # ""
    BY <2>5, <2>6 DEF IsConfig, IsHeader
  <2> QED BY <2>2, <2>3, <2>5, <2>7, TableUnder
<1> QED BY <1>3, <1>4

LEMMA HeaderOfTable ==
  ASSUME NEW lines, IsConfig(lines), NEW i \in DOMAIN lines, TableAt(lines, i) = "features"
  PROVE  \E h \in Headers(lines, "features") : HeaderIs(lines, i, h)
<1>1. Len(lines) \in Nat /\ DOMAIN lines = 1..Len(lines)
  <2>1. lines \in Seq(Range(lines))
    BY DEF IsConfig
  <2> QED BY <2>1
<1>2. i \in Nat \ {0} /\ i \in 1..Len(lines)
  BY <1>1
<1>3. PICK h \in Nat : HeaderIs(lines, i, h)
  BY <1>2, HeaderExists
<1>4. h # 0 /\ lines[h].name = "features"
  BY <1>2, <1>3, TableUnder
<1>5. h \in 1..(i - 1) /\ IsHeader(lines, h)
  BY <1>3, <1>4 DEF HeaderIs
<1>6. h \in DOMAIN lines
  BY <1>1, <1>2, <1>5
<1> QED BY <1>3, <1>4, <1>5, <1>6 DEF Headers, IsHeader

LEMMA OneHeader ==
  ASSUME NEW lines, IsConfig(lines), ParsesToml(lines), NEW i \in Headers(lines, "features"), NEW j \in Headers(lines, "features")
  PROVE  i = j
<1>1. lines \in Seq(Range(lines))
  BY DEF IsConfig
<1>2. Len(lines) \in Nat /\ DOMAIN lines = 1..Len(lines)
  BY <1>1
<1>3. Headers(lines, "features") \in SUBSET (1..Len(lines))
  BY <1>2 DEF Headers
<1>4. Cardinality(Headers(lines, "features")) <= 1
  BY DEF ParsesToml
<1> QED BY <1>2, <1>3, <1>4, AtMostOne

LEMMA OneInline ==
  ASSUME NEW lines, IsConfig(lines), ParsesToml(lines), NEW i \in Inlines(lines), NEW j \in Inlines(lines)
  PROVE  i = j
<1>1. lines \in Seq(Range(lines))
  BY DEF IsConfig
<1>2. Len(lines) \in Nat /\ DOMAIN lines = 1..Len(lines)
  BY <1>1
<1>3. Inlines(lines) \in SUBSET (1..Len(lines))
  BY <1>2 DEF Inlines
<1>4. Cardinality(Inlines(lines)) <= 1
  BY DEF ParsesToml
<1> QED BY <1>2, <1>3, <1>4, AtMostOne

\* A table ends before the next header.
NextHeader(lines, start) == LeastOf({i \in (start + 1)..Len(lines) : lines[i].kind = "header"})

LEMMA TableEndIs ==
  ASSUME NEW lines, lines \in Seq(Range(lines)), NEW start \in DOMAIN lines,
         NEW next, next = NextHeader(lines, start),
         NEW end, end = IF next = 0 THEN Len(lines) ELSE next - 1
  PROVE  /\ end \in start..Len(lines) /\ \A j \in (start + 1)..end : ~IsHeader(lines, j)
<1> DEFINE n == Len(lines)
           heads == {i \in (start + 1)..n : lines[i].kind = "header"}
<1>1. n \in Nat /\ DOMAIN lines = 1..n /\ Len(lines) = n /\ start \in 1..n
  OBVIOUS
<1>2. next = LeastOf(heads)
  BY DEF NextHeader
<1> HIDE DEF n
<1>3. heads \in SUBSET (Nat \ {0})
  BY <1>1
<1>4. /\ next = 0 <=> heads = {}
      /\ heads # {} => next \in heads /\ \A j \in heads : next <= j
  <2>1. /\ LeastOf(heads) = 0 <=> heads = {}
        /\ heads # {} => LeastOf(heads) \in heads /\ \A j \in heads : LeastOf(heads) <= j
    BY <1>3, LeastOfIs, Zenon
  <2> HIDE DEF heads
  <2> QED BY <1>2, <2>1
<1>5. CASE next = 0
  <2>1. heads = {}
    BY <1>4, <1>5
  <2>2. \A j \in (start + 1)..n : ~IsHeader(lines, j)
    BY <1>1, <2>1 DEF IsHeader
  <2>3. end = n
    BY <1>1, <1>5
  <2>4. end \in start..n
    BY <1>1, <2>3
  <2>5. \A j \in (start + 1)..end : ~IsHeader(lines, j)
    BY <2>2, <2>3
  <2> QED BY <1>1, <2>4, <2>5
<1>6. CASE next # 0
  <2>1. next \in heads /\ \A j \in heads : next <= j
    BY <1>4, <1>6
  <2>2. next \in (start + 1)..n /\ end = next - 1
    BY <1>1, <1>6, <2>1
  <2>3. end \in start..n
    BY <1>1, <2>2
  <2>4. \A j \in (start + 1)..end : ~IsHeader(lines, j)
    <3> SUFFICES ASSUME NEW j \in (start + 1)..end PROVE ~IsHeader(lines, j)
      OBVIOUS
    <3>1. j \in (start + 1)..n /\ ~(next <= j)
      BY <1>1, <2>2
    <3>2. j \notin heads
      BY <2>1, <3>1
    <3> QED BY <3>1, <3>2 DEF IsHeader
  <2> QED BY <1>1, <2>3, <2>4
<1> QED BY <1>5, <1>6

\* ... and the first header after the lines of a table is the end of it.
LEMMA TableEndsAt ==
  ASSUME NEW lines, lines \in Seq(Range(lines)), NEW start \in DOMAIN lines,
         NEW next, next = NextHeader(lines, start),
         NEW end, end = IF next = 0 THEN Len(lines) ELSE next - 1
  PROVE  end = Len(lines) \/ IsHeader(lines, end + 1)
<1> DEFINE n == Len(lines)
           heads == {i \in (start + 1)..n : lines[i].kind = "header"}
<1>1. n \in Nat /\ DOMAIN lines = 1..n /\ Len(lines) = n /\ start \in 1..n
  OBVIOUS
<1>2. next = LeastOf(heads)
  BY DEF NextHeader
<1> HIDE DEF n
<1>3. heads \in SUBSET (Nat \ {0})
  BY <1>1
<1>4. next # 0 => next \in heads
  <2>1. /\ LeastOf(heads) = 0 <=> heads = {}
        /\ heads # {} => LeastOf(heads) \in heads /\ \A j \in heads : LeastOf(heads) <= j
    BY <1>3, LeastOfIs, Zenon
  <2> HIDE DEF heads
  <2> QED BY <1>2, <2>1
<1>5. CASE next = 0
  BY <1>1, <1>5
<1>6. CASE next # 0
  <2>1. next \in (start + 1)..n /\ lines[next].kind = "header"
    BY <1>4, <1>6
  <2>2. end + 1 = next
    BY <1>1, <1>6, <2>1
  <2> QED BY <2>1, <2>2 DEF IsHeader
<1> QED BY <1>5, <1>6

LEMMA FeaturesTable ==
  ASSUME NEW lines, IsConfig(lines), ParsesToml(lines), NEW start \in Headers(lines, "features"),
         NEW end, end \in start..Len(lines), \A j \in (start + 1)..end : ~IsHeader(lines, j),
         end = Len(lines) \/ IsHeader(lines, end + 1)
  PROVE  /\ Inlines(lines) = {}
         /\ \A i \in InFeatures(lines) : lines[i].kind = "key" /\ i \in (start + 1)..end
         /\ \A i \in (start + 1)..(end + 1) : TableAt(lines, i) = "features"
<1> DEFINE n == Len(lines)
<1>1. n \in Nat /\ DOMAIN lines = 1..n
  <2>1. lines \in Seq(Range(lines))
    BY DEF IsConfig
  <2> QED BY <2>1
<1>2. end \in start..n /\ (end = n \/ IsHeader(lines, end + 1))
  OBVIOUS
<1> HIDE DEF n
<1>3. start \in 1..n /\ IsHeader(lines, start) /\ lines[start].name = "features"
  BY <1>1 DEF Headers, IsHeader
<1>4. Inlines(lines) = {} /\ \A i \in InFeatures(lines) : lines[i].kind = "key"
  <2>1. Headers(lines, "features") # {}
    OBVIOUS
  <2> QED BY <2>1 DEF ParsesToml
<1>5. ASSUME NEW i \in (start + 1)..(end + 1) PROVE TableAt(lines, i) = "features"
  <2>1. i \in Nat \ {0} /\ start \in 1..(i - 1) /\ start # 0 /\ start \in Nat
    BY <1>1, <1>2, <1>3
  <2>2. \A j \in (start + 1)..(i - 1) : j \in (start + 1)..end
    BY <1>1, <1>2, <1>3
  <2>3. HeaderIs(lines, i, start)
    BY <1>3, <2>1, <2>2 DEF HeaderIs
  <2> QED BY <1>3, <2>1, <2>3, TableUnder
<1>6. ASSUME NEW i \in InFeatures(lines) PROVE i \in (start + 1)..end
  <2>1. i \in DOMAIN lines /\ lines[i].kind = "key" /\ TableAt(lines, i) = "features"
    BY <1>4 DEF InFeatures
  <2>2. PICK h \in Headers(lines, "features") : HeaderIs(lines, i, h)
    BY <2>1, HeaderOfTable
  <2>3. h = start
    BY <2>2, OneHeader
  <2>4. start \in 1..(i - 1) /\ \A j \in (start + 1)..(i - 1) : ~IsHeader(lines, j)
    BY <1>3, <2>2, <2>3 DEF HeaderIs
  <2>5. ~IsHeader(lines, i)
    BY <2>1 DEF IsHeader
  <2>6. i \in 1..n
    BY <1>1, <2>1
  <2>7. CASE i > end
    <3>1. end + 1 \in (start + 1)..i /\ end # n
      BY <1>1, <1>2, <1>3, <2>6, <2>7
    <3>2. end + 1 = i \/ end + 1 \in (start + 1)..(i - 1)
      BY <1>1, <1>2, <1>3, <2>6, <3>1
    <3> QED BY <1>2, <2>4, <2>5, <3>1, <3>2
  <2>8. CASE i <= end
    BY <1>1, <1>2, <1>3, <2>4, <2>6, <2>8
  <2> QED BY <1>1, <1>2, <1>3, <2>6, <2>7, <2>8
<1> QED BY <1>4, <1>5, <1>6

LEMMA DottedTable ==
  ASSUME NEW lines, IsConfig(lines), ParsesToml(lines), NEW e, IsRoot(lines, e), NEW d \in 1..e, lines[d].kind = "dotted"
  PROVE  /\ Inlines(lines) = {}
         /\ \A i \in InFeatures(lines) : lines[i].kind = "dotted" /\ i \in 1..e
         /\ \A i \in 1..(e + 1) : TableAt(lines, i) = ""
<1> DEFINE n == Len(lines)
<1>1. n \in Nat /\ DOMAIN lines = 1..n
  <2>1. lines \in Seq(Range(lines))
    BY DEF IsConfig
  <2> QED BY <2>1
<1>2. e \in 0..n /\ (e = n \/ IsHeader(lines, e + 1))
  BY DEF IsRoot
<1> HIDE DEF n
<1>3. /\ \A i \in 1..(e + 1) : TableAt(lines, i) = ""
      /\ \A i \in DOMAIN lines : TableAt(lines, i) = "" => i \in 1..(e + 1)
  BY RootLines
<1>4. d \in InFeatures(lines)
  <2>1. d \in DOMAIN lines /\ d \in 1..(e + 1)
    BY <1>1, <1>2
  <2> QED BY <1>3, <2>1 DEF InFeatures
<1>5. Headers(lines, "features") = {}
  BY <1>4 DEF ParsesToml
<1>6. Inlines(lines) = {}
  BY <1>4 DEF ParsesToml
<1>7. ASSUME NEW i \in InFeatures(lines) PROVE lines[i].kind = "dotted" /\ i \in 1..e
  <2>1. i \in DOMAIN lines /\ TableAt(lines, i) # "features"
    BY <1>5, HeaderOfTable DEF InFeatures
  <2>2. lines[i].kind = "dotted" /\ TableAt(lines, i) = ""
    BY <2>1 DEF InFeatures
  <2>3. i \in 1..(e + 1) /\ i \in 1..n
    BY <1>1, <1>3, <2>1, <2>2
  <2>4. i # e + 1
    <3> SUFFICES ASSUME i = e + 1 PROVE FALSE
      OBVIOUS
    <3>1. e # n
      BY <1>1, <1>2, <2>3
    <3>2. IsHeader(lines, i)
      BY <1>2, <3>1
    <3> QED BY <2>2, <3>2 DEF IsHeader
  <2>5. i \in 1..e
    BY <1>1, <1>2, <2>3, <2>4
  <2> QED BY <2>2, <2>5
<1> QED BY <1>3, <1>6, <1>7

(***************************************************************************)
(* The patch, where the features table is.                                 *)
(***************************************************************************)
LegacyIsPlain(lines) == \A i \in InFeatures(lines) : lines[i].name = "codex_hooks" => lines[i].plain

LEMMA IsLineIs ==
  ASSUME NEW line, NEW kind, NEW name
  PROVE  /\ IsLine(line, kind, name) => line.kind = kind /\ line.name = name
         /\ line.kind = kind /\ line.name = name /\ line.plain => IsLine(line, kind, name)
BY Zenon DEF IsLine

\* The lines between lo and hi that a pattern matches.
Matched(lines, lo, hi, kind, name) == {i \in lo..hi : IsLine(lines[i], kind, name)}

LEMMA AtIs ==
  ASSUME NEW lines, NEW lo \in Nat \ {0}, NEW hi \in Nat, NEW kind, NEW name,
         NEW at, at = LeastOf(Matched(lines, lo, hi, kind, name))
  PROVE  /\ at = 0 => \A i \in lo..hi : ~IsLine(lines[i], kind, name)
         /\ at # 0 => at \in lo..hi /\ IsLine(lines[at], kind, name)
<1> DEFINE found == {i \in lo..hi : IsLine(lines[i], kind, name)}
<1>1. found \in SUBSET (Nat \ {0}) /\ at = LeastOf(found)
  BY DEF Matched
<1>2. /\ at = 0 <=> found = {}
      /\ found # {} => at \in found
  <2> HIDE DEF found
  <2>1. /\ LeastOf(found) = 0 <=> found = {}
        /\ found # {} => LeastOf(found) \in found /\ \A j \in found : LeastOf(found) <= j
    BY <1>1, LeastOfIs, Zenon
  <2> QED BY <1>1, <2>1
<1> QED BY <1>2

LEMMA HookLineIs ==
  /\ Key("hooks", TRUE).kind = "key" /\ Key("hooks", TRUE).name = "hooks" /\ Key("hooks", TRUE).on = TRUE
  /\ Dotted("hooks", TRUE).kind = "dotted" /\ Dotted("hooks", TRUE).name = "hooks" /\ Dotted("hooks", TRUE).on = TRUE
  /\ Header("features").kind = "header" /\ Header("features").name = "features"
BY DEF Key, Dotted, Header, Line

LEMMA NoKeyTwice ==
  ASSUME NEW lines, ParsesToml(lines), NEW i \in InFeatures(lines), NEW j \in InFeatures(lines),
         lines[i].kind = lines[j].kind, lines[i].name = lines[j].name
  PROVE  i = j
<1>1. /\ i \in DOMAIN lines /\ j \in DOMAIN lines /\ lines[i].kind \in {"key", "dotted"}
      /\ TableAt(lines, i) = TableAt(lines, j)
  <2>1. /\ i \in DOMAIN lines /\ StandsIn(lines[i], TableAt(lines, i))
        /\ j \in DOMAIN lines /\ StandsIn(lines[j], TableAt(lines, j))
    BY InFeaturesIs
  <2> QED BY <2>1 DEF StandsIn
<1>2. \A k, m \in DOMAIN lines :
       k # m /\ lines[k].kind \in {"key", "dotted"} /\ lines[k].kind = lines[m].kind
         /\ TableAt(lines, k) = TableAt(lines, m) => lines[k].name # lines[m].name
  BY Zenon DEF ParsesToml
<1> QED BY <1>1, <1>2

\* The lines of the features table stand between lo and hi and are all of one kind.
IsZone(lines, lo, hi, kind) ==
  /\ Inlines(lines) = {}
  /\ \A i \in InFeatures(lines) : lines[i].kind = kind /\ i \in lo..hi
  /\ \A i \in lo..hi : lines[i].kind = kind => i \in InFeatures(lines)

LEMMA ZoneIsPatched ==
  ASSUME NEW lines, IsConfig(lines), ParsesToml(lines), LegacyIsPlain(lines),
         NEW lo \in Nat \ {0}, NEW hi \in Nat, NEW line, IsKeyLine(line), line.name = "hooks", line.on = TRUE,
         IsZone(lines, lo, hi, line.kind),
         NEW hooksAt, hooksAt = LeastOf(Matched(lines, lo, hi, line.kind, "hooks")),
         NEW legacyAt, legacyAt = LeastOf(Matched(lines, lo, hi, line.kind, "codex_hooks")),
         NEW insertAfter,
         hooksAt = 0 /\ legacyAt = 0 => insertAfter + 1 \in 1..(Len(lines) + 1) /\ StandsIn(line, TableAt(lines, insertAfter + 1))
  PROVE  IsRight(lines, ApplyFeatureHooks(lines, insertAfter, hooksAt, legacyAt, line))
<1>1. /\ Inlines(lines) = {}
      /\ \A i \in InFeatures(lines) : lines[i].kind = line.kind /\ i \in lo..hi
      /\ \A i \in lo..hi : lines[i].kind = line.kind => i \in InFeatures(lines)
  BY DEF IsZone
<1>2. /\ hooksAt = 0 => \A i \in lo..hi : ~IsLine(lines[i], line.kind, "hooks")
      /\ hooksAt # 0 => hooksAt \in lo..hi /\ IsLine(lines[hooksAt], line.kind, "hooks")
  BY AtIs
<1>3. /\ legacyAt = 0 => \A i \in lo..hi : ~IsLine(lines[i], line.kind, "codex_hooks")
      /\ legacyAt # 0 => legacyAt \in lo..hi /\ IsLine(lines[legacyAt], line.kind, "codex_hooks")
  BY AtIs
<1>4. hooksAt = 0 \/ (hooksAt \in InFeatures(lines) /\ lines[hooksAt].kind = line.kind /\ lines[hooksAt].name = "hooks")
  BY <1>1, <1>2, IsLineIs, Zenon
<1>5. legacyAt = 0 \/ (legacyAt \in InFeatures(lines) /\ lines[legacyAt].kind = line.kind /\ lines[legacyAt].name = "codex_hooks")
  BY <1>1, <1>3, IsLineIs, Zenon
<1>6. ASSUME NEW j \in InFeatures(lines), lines[j].name = "codex_hooks" PROVE j = legacyAt
  <2>1. lines[j].plain
    BY <1>6 DEF LegacyIsPlain
  <2>2. j \in lo..hi /\ lines[j].kind = line.kind /\ IsLine(lines[j], line.kind, "codex_hooks")
    BY <1>1, <1>6, <2>1, IsLineIs, Zenon
  <2>3. legacyAt # 0
    BY <1>3, <2>2, Zenon
  <2>4. legacyAt \in InFeatures(lines) /\ lines[legacyAt].kind = line.kind /\ lines[legacyAt].name = "codex_hooks"
    BY <1>5, <2>3, Zenon
  <2>5. lines[j].kind = lines[legacyAt].kind /\ lines[j].name = lines[legacyAt].name
    BY <1>6, <2>2, <2>4, Zenon
  <2> QED BY <2>4, <2>5, NoKeyTwice, Zenon
<1>7. lines \in Seq(Range(lines))
  BY DEF IsConfig
<1>8. IsPatched(lines, ApplyFeatureHooks(lines, insertAfter, hooksAt, legacyAt, line))
  <2>1. \A j \in InFeatures(lines) : lines[j].name = "codex_hooks" => j = legacyAt
    BY <1>6
  <2> QED BY <1>1, <1>4, <1>5, <1>7, <2>1, AppliedIsPatched, Zenon
<1> QED BY <1>1, <1>8, PatchedIsRight, Zenon

LEMMA ConfigLength ==
  ASSUME NEW lines, IsConfig(lines)
  PROVE  lines \in Seq(Range(lines)) /\ Len(lines) \in Nat /\ DOMAIN lines = 1..Len(lines)
<1>1. lines \in Seq(Range(lines))
  BY DEF IsConfig
<1> QED BY <1>1

LEMMA TableBounds ==
  ASSUME NEW n \in Nat, NEW start \in 1..n, NEW end \in start..n
  PROVE  /\ start + 1 \in 1..(n + 1) /\ start + 1 \in (start + 1)..(end + 1) /\ start + 1 \in Nat \ {0} /\ end \in Nat
         /\ \A i \in (start + 1)..end : i \in (start + 1)..(end + 1) /\ i \in 1..n
OBVIOUS

\* The table has a header that the patterns match.
FeaturesAt(lines) == LeastOf({i \in DOMAIN lines : IsLine(lines[i], "header", "features")})

LEMMA HeaderIsPatched ==
  ASSUME NEW lines, IsConfig(lines), ParsesToml(lines), LegacyIsPlain(lines), lines # <<>>,
         NEW start, start = FeaturesAt(lines), start # 0
  PROVE  IsRight(lines, SetFeaturesHooks(lines))
<1> DEFINE next == NextHeader(lines, start)
           end == IF next = 0 THEN Len(lines) ELSE next - 1
           hooksAt == LeastOf(Matched(lines, start + 1, end, "key", "hooks"))
           legacyAt == LeastOf(Matched(lines, start + 1, end, "key", "codex_hooks"))
           line == Key("hooks", TRUE)
<1>1. lines \in Seq(Range(lines)) /\ Len(lines) \in Nat /\ DOMAIN lines = 1..Len(lines)
  BY ConfigLength
<1>2. start \in Headers(lines, "features")
  <2> DEFINE found == {i \in DOMAIN lines : IsLine(lines[i], "header", "features")}
  <2>1. found \in SUBSET (Nat \ {0}) /\ start = LeastOf(found)
    BY <1>1 DEF FeaturesAt
  <2>2. \A i \in found : i \in Headers(lines, "features")
    BY IsLineIs DEF Headers
  <2> HIDE DEF found
  <2>3. /\ LeastOf(found) = 0 <=> found = {}
        /\ found # {} => LeastOf(found) \in found /\ \A j \in found : LeastOf(found) <= j
    BY <2>1, LeastOfIs, Zenon
  <2> QED BY <2>1, <2>2, <2>3
<1>3. SetFeaturesHooks(lines) = ApplyFeatureHooks(lines, start, hooksAt, legacyAt, line)
  BY Zenon DEF SetFeaturesHooks, Matched, NextHeader, FeaturesAt
<1>4. start \in DOMAIN lines
  BY <1>2 DEF Headers
<1>5. /\ end \in start..Len(lines) /\ \A j \in (start + 1)..end : ~IsHeader(lines, j)
      /\ end = Len(lines) \/ IsHeader(lines, end + 1)
  BY <1>1, <1>4, TableEndIs, TableEndsAt
<1> HIDE DEF next, end
<1>b. /\ start + 1 \in 1..(Len(lines) + 1) /\ start + 1 \in (start + 1)..(end + 1) /\ start + 1 \in Nat \ {0} /\ end \in Nat
      /\ \A i \in (start + 1)..end : i \in (start + 1)..(end + 1) /\ i \in 1..Len(lines)
  <2>1. start \in 1..Len(lines) /\ end \in start..Len(lines)
    BY <1>1, <1>4, <1>5, Zenon
  <2> QED BY <1>1, <2>1, TableBounds, Zenon
<1>6. /\ Inlines(lines) = {}
      /\ \A i \in InFeatures(lines) : lines[i].kind = "key" /\ i \in (start + 1)..end
      /\ \A i \in (start + 1)..(end + 1) : TableAt(lines, i) = "features"
  BY <1>2, <1>5, FeaturesTable
<1>7. line.kind = "key" /\ line.name = "hooks" /\ line.on = TRUE /\ IsKeyLine(line)
  BY HookLineIs DEF IsKeyLine
<1> HIDE DEF line
<1>8. IsZone(lines, start + 1, end, line.kind)
  <2>1. ASSUME NEW i \in (start + 1)..end, lines[i].kind = "key" PROVE i \in InFeatures(lines)
    <3>1. i \in (start + 1)..(end + 1) /\ i \in DOMAIN lines
      BY <1>1, <1>b, Zenon
    <3> QED BY <1>6, <2>1, <3>1 DEF InFeatures
  <2> QED BY <1>6, <1>7, <2>1 DEF IsZone
<1>9. start + 1 \in 1..(Len(lines) + 1) /\ StandsIn(line, TableAt(lines, start + 1))
  <2>1. start + 1 \in 1..(Len(lines) + 1) /\ start + 1 \in (start + 1)..(end + 1)
    BY <1>b, Zenon
  <2> QED BY <1>6, <1>7, <2>1 DEF StandsIn
<1>10. start + 1 \in Nat \ {0} /\ end \in Nat
  BY <1>b, Zenon
<1>11. /\ hooksAt = LeastOf(Matched(lines, start + 1, end, line.kind, "hooks"))
       /\ legacyAt = LeastOf(Matched(lines, start + 1, end, line.kind, "codex_hooks"))
  BY <1>7
<1> HIDE DEF hooksAt, legacyAt
<1>12. IsRight(lines, ApplyFeatureHooks(lines, start, hooksAt, legacyAt, line))
  BY <1>7, <1>8, <1>9, <1>10, <1>11, ZoneIsPatched, Zenon
<1> QED BY <1>3, <1>12

\* The table is made of dotted keys of the root, one of which the patterns match.
LEMMA DottedIsPatched ==
  ASSUME NEW lines, IsConfig(lines), ParsesToml(lines), LegacyIsPlain(lines),
         NEW e, IsRoot(lines, e), NEW d \in 1..e, lines[d].kind = "dotted",
         NEW hooksAt, hooksAt = LeastOf(Matched(lines, 1, e, "dotted", "hooks")),
         NEW legacyAt, legacyAt = LeastOf(Matched(lines, 1, e, "dotted", "codex_hooks")),
         NEW insertAfter, hooksAt = 0 /\ legacyAt = 0 => insertAfter \in 0..e
  PROVE  IsRight(lines, ApplyFeatureHooks(lines, insertAfter, hooksAt, legacyAt, Dotted("hooks", TRUE)))
<1> DEFINE line == Dotted("hooks", TRUE)
<1>1. lines \in Seq(Range(lines)) /\ Len(lines) \in Nat /\ DOMAIN lines = 1..Len(lines)
  BY ConfigLength
<1>2. e \in 0..Len(lines)
  BY DEF IsRoot
<1>3. /\ Inlines(lines) = {}
      /\ \A i \in InFeatures(lines) : lines[i].kind = "dotted" /\ i \in 1..e
      /\ \A i \in 1..(e + 1) : TableAt(lines, i) = ""
  BY DottedTable
<1>4. line.kind = "dotted" /\ line.name = "hooks" /\ line.on = TRUE /\ IsKeyLine(line)
  BY HookLineIs DEF IsKeyLine
<1> HIDE DEF line
<1>5. IsZone(lines, 1, e, line.kind)
  <2>1. ASSUME NEW i \in 1..e, lines[i].kind = "dotted" PROVE i \in InFeatures(lines)
    <3>1. i \in 1..(e + 1) /\ i \in DOMAIN lines
      BY <1>1, <1>2
    <3> QED BY <1>3, <2>1, <3>1 DEF InFeatures
  <2> QED BY <1>3, <1>4, <2>1 DEF IsZone
<1>6. hooksAt = 0 /\ legacyAt = 0 => insertAfter + 1 \in 1..(Len(lines) + 1) /\ StandsIn(line, TableAt(lines, insertAfter + 1))
  <2> SUFFICES ASSUME insertAfter \in 0..e
               PROVE  insertAfter + 1 \in 1..(Len(lines) + 1) /\ StandsIn(line, TableAt(lines, insertAfter + 1))
    OBVIOUS
  <2>1. insertAfter + 1 \in 1..(Len(lines) + 1) /\ insertAfter + 1 \in 1..(e + 1)
    BY <1>1, <1>2
  <2> QED BY <1>3, <1>4, <2>1 DEF StandsIn
<1>7. 1 \in Nat \ {0} /\ e \in Nat
  BY <1>1, <1>2
<1>8. /\ hooksAt = LeastOf(Matched(lines, 1, e, line.kind, "hooks"))
      /\ legacyAt = LeastOf(Matched(lines, 1, e, line.kind, "codex_hooks"))
  BY <1>4
<1>9. IsRight(lines, ApplyFeatureHooks(lines, insertAfter, hooksAt, legacyAt, line))
  BY <1>4, <1>5, <1>6, <1>7, <1>8, ZoneIsPatched, Zenon
<1> QED BY <1>9 DEF line

\* The table is an inline one of the root.
LEMMA InlineFeatures ==
  ASSUME NEW lines, NEW i, Inlines(lines) = {i}, InFeatures(lines) = {}
  PROVE  Features(lines) = {<<lines[i].items[k].name, lines[i].items[k].on>> : k \in DOMAIN lines[i].items}
BY DEF Features

LEMMA InlineIsPatched ==
  ASSUME NEW lines, IsConfig(lines), ParsesToml(lines), NEW i \in Inlines(lines)
  PROVE  IsRight(lines, [lines EXCEPT ![i] = Inline(SetInlineItems(lines[i].items))])
<1> DEFINE items == lines[i].items
           new == SetInlineItems(items)
           line == Inline(new)
           r == [lines EXCEPT ![i] = line]
<1>1. lines \in Seq(Range(lines)) /\ Len(lines) \in Nat /\ DOMAIN lines = 1..Len(lines)
  BY ConfigLength
<1>2. i \in DOMAIN lines /\ lines[i].kind = "inline" /\ TableAt(lines, i) = ""
  BY DEF Inlines
<1>3. InFeatures(lines) = {}
  BY DEF ParsesToml
<1>4. Inlines(lines) = {i}
  BY OneInline
<1>5. items \in Seq(Range(items))
  BY <1>2 DEF IsConfig
<1>6. \A j, k \in DOMAIN items : j # k => items[j].name # items[k].name
  BY Zenon DEF ParsesToml
<1>7. AreSet(items, new)
  BY <1>5, <1>6, ItemsAreSet, Zenon
<1> HIDE DEF new
<1>8. line.kind = "inline" /\ line.items = new
  BY DEF Inline, Line
<1> HIDE DEF line
<1>9. DOMAIN r = DOMAIN lines /\ r[i] = line /\ \A j \in DOMAIN lines : j # i => r[j] = lines[j]
  BY <1>1, <1>2
<1>10. \A j \in DOMAIN lines : TableAt(r, j) = TableAt(lines, j)
  <2> SUFFICES ASSUME NEW j \in DOMAIN lines PROVE TableAt(r, j) = TableAt(lines, j)
    OBVIOUS
  <2>1. ~IsHeader(lines, i) /\ line.kind # "header"
    BY <1>2, <1>8 DEF IsHeader
  <2>2. j \in 1..Len(lines)
    BY <1>1
  <2> QED BY <1>1, <1>2, <2>1, <2>2, ReplacingKeepsTables
<1> HIDE DEF r
<1>11. \A j \in DOMAIN lines : r[j].kind = lines[j].kind
  BY <1>2, <1>8, <1>9
<1>12. InFeatures(r) = InFeatures(lines) /\ Inlines(r) = Inlines(lines)
  BY <1>9, <1>10, <1>11 DEF InFeatures, Inlines
<1>13. /\ Features(lines) = {<<items[k].name, items[k].on>> : k \in DOMAIN items}
       /\ Features(r) = {<<new[k].name, new[k].on>> : k \in DOMAIN new}
  <2>1. r[i].items = new
    BY <1>8, <1>9
  <2> QED BY <1>3, <1>4, <1>12, <2>1, InlineFeatures
<1> HIDE DEF items
<1>14. <<"hooks", TRUE>> \in Features(r)
  <2>1. PICK k \in DOMAIN new : new[k].name = "hooks" /\ new[k].on = TRUE
    BY <1>7 DEF AreSet
  <2> QED BY <1>13, <2>1
<1>15. \A on \in BOOLEAN : <<"codex_hooks", on>> \notin Features(r)
  <2> SUFFICES ASSUME NEW on \in BOOLEAN, NEW k \in DOMAIN new, <<"codex_hooks", on>> = <<new[k].name, new[k].on>> PROVE FALSE
    BY <1>13
  <2>1. new[k].name # "codex_hooks"
    BY <1>7 DEF AreSet
  <2> QED BY <2>1
<1>16. OthersOf(lines) \subseteq Features(r)
  <2> SUFFICES ASSUME NEW f \in OthersOf(lines) PROVE f \in Features(r)
    OBVIOUS
  <2>1. PICK j \in DOMAIN items : f = <<items[j].name, items[j].on>>
    BY <1>13 DEF OthersOf
  <2>2. items[j].name \notin {"hooks", "codex_hooks"}
    BY <2>1 DEF OthersOf
  <2>3. PICK k \in DOMAIN new : new[k] = items[j]
    BY <1>7, <2>2 DEF AreSet
  <2> QED BY <1>13, <2>1, <2>3
<1>17. IsRight(lines, r)
  BY <1>14, <1>15, <1>16 DEF IsRight, HooksEnabled
<1> QED BY <1>17 DEF r, line, new, items

\* There is no table yet: one is added below, and the text still has to parse.
Created == <<Header("features"), Key("hooks", TRUE)>>

LEMMA PairIs ==
  ASSUME NEW a, NEW b
  PROVE  <<a, b>> \in Seq({a, b}) /\ Len(<<a, b>>) = 2 /\ DOMAIN <<a, b>> = 1..2 /\ <<a, b>>[1] = a /\ <<a, b>>[2] = b
OBVIOUS

LEMMA SeqWidens ==
  ASSUME NEW A, NEW B, A \subseteq B, NEW s \in Seq(A)
  PROVE  s \in Seq(B)
OBVIOUS

LEMMA CreatedLines ==
  /\ Created \in Seq({Header("features"), Key("hooks", TRUE)}) /\ Len(Created) = 2 /\ DOMAIN Created = 1..2
  /\ Created[1].kind = "header" /\ Created[1].name = "features"
  /\ Created[2].kind = "key" /\ Created[2].name = "hooks" /\ Created[2].on = TRUE
<1>1. /\ Created \in Seq({Header("features"), Key("hooks", TRUE)}) /\ Len(Created) = 2 /\ DOMAIN Created = 1..2
      /\ Created[1] = Header("features") /\ Created[2] = Key("hooks", TRUE)
  BY PairIs, Zenon DEF Created
<1> QED BY <1>1, HookLineIs, Zenon

LEMMA AddedIsRight ==
  ASSUME NEW lines, IsConfig(lines), ParsesToml(lines \o Created)
  PROVE  IsRight(lines, lines \o Created)
<1> DEFINE n == Len(lines)
           r == lines \o Created
           S == Range(lines) \cup {Header("features"), Key("hooks", TRUE)}
<1>1. lines \in Seq(Range(lines)) /\ n \in Nat /\ DOMAIN lines = 1..n
  BY ConfigLength
<1>2. r \in Seq(S) /\ DOMAIN r = 1..(n + 2) /\ (\A j \in 1..n : r[j] = lines[j]) /\ r[n + 1] = Created[1] /\ r[n + 2] = Created[2]
  <2>1. lines \in Seq(S) /\ Created \in Seq(S) /\ Len(Created) = 2
    <3>1. Range(lines) \subseteq S /\ {Header("features"), Key("hooks", TRUE)} \subseteq S
      OBVIOUS
    <3> HIDE DEF S
    <3> QED BY <1>1, <3>1, CreatedLines, SeqWidens, Zenon
  <2> HIDE DEF S
  <2>2. /\ r \in Seq(S) /\ Len(r) = n + Len(Created)
        /\ \A j \in 1..(n + Len(Created)) : r[j] = IF j <= n THEN lines[j] ELSE Created[j - n]
    BY <2>1, ConcatProperties, Zenon
  <2>3. r \in Seq(S) /\ Len(r) = n + 2 /\ \A j \in 1..(n + 2) : r[j] = IF j <= n THEN lines[j] ELSE Created[j - n]
    BY <2>1, <2>2
  <2> HIDE DEF r, n
  <2>4. DOMAIN r = 1..(n + 2)
    BY <2>3
  <2>5. \A j \in 1..n : r[j] = lines[j]
    BY <1>1, <2>3
  <2>6. n + 1 \in 1..(n + 2) /\ ~(n + 1 <= n) /\ (n + 1) - n = 1
    BY <1>1
  <2>7. n + 2 \in 1..(n + 2) /\ ~(n + 2 <= n) /\ (n + 2) - n = 2
    BY <1>1
  <2> QED BY <2>3, <2>4, <2>5, <2>6, <2>7
<1>3. ParsesToml(r)
  OBVIOUS
<1> HIDE DEF r, n, S
<1>4. /\ r[n + 1].kind = "header" /\ r[n + 1].name = "features"
      /\ r[n + 2].kind = "key" /\ r[n + 2].name = "hooks" /\ r[n + 2].on = TRUE
  BY <1>2, CreatedLines
<1>5. n + 1 \in DOMAIN r /\ n + 2 \in DOMAIN r /\ \A j \in 1..n : j \in DOMAIN r /\ j # n + 1
  BY <1>1, <1>2
<1>6. n + 1 \in Headers(r, "features")
  BY <1>4, <1>5 DEF Headers
<1>7. Inlines(r) = {} /\ \A i \in InFeatures(r) : r[i].kind = "key"
  <2>1. Headers(r, "features") # {}
    BY <1>6
  <2> QED BY <1>3, <2>1 DEF ParsesToml
<1>8. \A h \in Headers(r, "features") : h = n + 1
  <2> SUFFICES ASSUME NEW h \in Headers(r, "features") PROVE h = n + 1
    OBVIOUS
  <2>1. Headers(r, "features") \in SUBSET (1..(n + 2)) /\ n + 2 \in Nat
    BY <1>1, <1>2 DEF Headers
  <2>2. Cardinality(Headers(r, "features")) <= 1
    BY <1>3 DEF ParsesToml
  <2> QED BY <1>6, <2>1, <2>2, AtMostOne
<1>9. ASSUME NEW i \in 1..n PROVE TableAt(r, i) = TableAt(lines, i) /\ TableAt(lines, i) # "features"
  <2>1. i \in Nat \ {0} /\ i \in DOMAIN lines
    BY <1>1
  <2>2. PICK h \in Nat : HeaderIs(lines, i, h)
    BY <2>1, HeaderExists
  <2>3. \A k \in 1..(i - 1) : r[k] = lines[k]
    BY <1>1, <1>2
  <2>4. HeaderIs(r, i, h) /\ (h # 0 => r[h] = lines[h])
    BY <1>1, <2>2, <2>3 DEF HeaderIs, IsHeader
  <2>5. TableAt(r, i) = TableAt(lines, i)
    BY <2>1, <2>2, <2>4, TablesAgree
  <2>6. TableAt(lines, i) # "features"
    <3> SUFFICES ASSUME TableAt(lines, i) = "features" PROVE FALSE
      OBVIOUS
    <3>1. PICK g \in Headers(lines, "features") : HeaderIs(lines, i, g)
      BY <2>1, HeaderOfTable
    <3>2. g \in 1..n /\ lines[g].kind = "header" /\ lines[g].name = "features"
      BY <1>1 DEF Headers
    <3>3. g \in Headers(r, "features")
      BY <1>2, <1>5, <3>2 DEF Headers
    <3> QED BY <1>5, <1>8, <3>2, <3>3
  <2> QED BY <2>5, <2>6
<1>10. \A i \in InFeatures(r) : i = n + 2
  <2> SUFFICES ASSUME NEW i \in InFeatures(r) PROVE i = n + 2
    OBVIOUS
  <2>1. i \in DOMAIN r /\ r[i].kind = "key" /\ TableAt(r, i) = "features"
    BY <1>7 DEF InFeatures
  <2>2. i \notin 1..n
    BY <1>9, <2>1
  <2>3. i # n + 1
    BY <1>4, <2>1
  <2> QED BY <1>1, <1>2, <2>1, <2>2, <2>3
<1>11. InFeatures(lines) = {}
  <2> SUFFICES ASSUME NEW i \in InFeatures(lines) PROVE FALSE
    OBVIOUS
  <2>1. i \in DOMAIN lines /\ StandsIn(lines[i], TableAt(lines, i))
    BY InFeaturesIs
  <2>2. i \in 1..n /\ i \in DOMAIN r /\ r[i] = lines[i] /\ TableAt(r, i) = TableAt(lines, i)
    BY <1>1, <1>2, <1>5, <1>9, <2>1
  <2>3. i \in InFeatures(r)
    BY <2>1, <2>2, InFeaturesIs
  <2> QED BY <1>1, <1>10, <2>2, <2>3
<1>12. Inlines(lines) = {}
  <2> SUFFICES ASSUME NEW i \in Inlines(lines) PROVE FALSE
    OBVIOUS
  <2>1. i \in DOMAIN lines /\ lines[i].kind = "inline" /\ TableAt(lines, i) = ""
    BY DEF Inlines
  <2>2. i \in 1..n /\ i \in DOMAIN r /\ r[i] = lines[i] /\ TableAt(r, i) = TableAt(lines, i)
    BY <1>1, <1>2, <1>5, <1>9, <2>1
  <2> QED BY <1>7, <2>1, <2>2 DEF Inlines
<1>13. n + 2 \in InFeatures(r)
  <2>1. n + 2 \in Nat \ {0} /\ n + 1 \in 1..((n + 2) - 1) /\ n + 1 \in Nat /\ n + 1 # 0 /\ ((n + 1) + 1)..((n + 2) - 1) = {}
    BY <1>1
  <2>2. HeaderIs(r, n + 2, n + 1)
    BY <1>4, <2>1 DEF HeaderIs, IsHeader
  <2>3. TableAt(r, n + 2) = "features"
    BY <1>4, <2>1, <2>2, TableUnder
  <2> QED BY <1>4, <1>5, <2>3 DEF InFeatures
<1>14. IsPatched(lines, r)
  <2>1. InFeatures(r) = {n + 2}
    BY <1>10, <1>13
  <2>2. FeatureLines(r) = {r[n + 2]} /\ FeatureLines(lines) = {}
    BY <1>11, <2>1 DEF FeatureLines
  <2> QED BY <1>4, <1>7, <2>2 DEF IsPatched
<1> QED BY <1>12, <1>14, PatchedIsRight DEF r

LEMMA CreatedParses == ParsesToml(Created) /\ HooksEnabled(Created)
<1>1. /\ Created \in Seq({Header("features"), Key("hooks", TRUE)}) /\ Len(Created) = 2 /\ DOMAIN Created = 1..2
      /\ Created[1].kind = "header" /\ Created[1].name = "features"
      /\ Created[2].kind = "key" /\ Created[2].name = "hooks" /\ Created[2].on = TRUE
  BY CreatedLines
<1>2. \A i \in DOMAIN Created : i = 1 \/ i = 2
  BY <1>1
<1>3. \A name : Headers(Created, name) \subseteq {1}
  BY <1>1, <1>2 DEF Headers
<1>4. \A name : Cardinality(Headers(Created, name)) <= 1
  <2> SUFFICES ASSUME NEW name PROVE Cardinality(Headers(Created, name)) <= 1
    OBVIOUS
  <2>1. Cardinality({1}) = 1 /\ IsFiniteSet({1})
    BY FS_Singleton, Zenon
  <2>2. Cardinality(Headers(Created, name)) <= Cardinality({1})
    BY <1>3, <2>1, FS_Subset, Zenon
  <2> QED BY <2>1, <2>2
<1>5. Inlines(Created) = {}
  BY <1>1, <1>2 DEF Inlines
<1>6. Cardinality(Inlines(Created)) <= 1
  BY <1>5, FS_EmptySet
<1>7. \A i \in DOMAIN Created : Created[i].kind \in {"key", "dotted"} => i = 2
  BY <1>1, <1>2
<1>8. \A i \in InFeatures(Created) : i = 2 /\ Created[i].kind = "key"
  BY <1>1, <1>2 DEF InFeatures
<1>9. Created # BrokenConfig
  <2>1. Len(BrokenConfig) = 1
    BY DEF BrokenConfig
  <2> QED BY <1>1, <2>1
<1>10. ParsesToml(Created)
  BY <1>4, <1>5, <1>6, <1>7, <1>8, <1>9, Zenon DEF ParsesToml
<1>11. <<>> \o Created = Created
  BY <1>1, EmptySeq, ConcatEmptySeq
<1>12. IsConfig(<<>>)
  BY DEF IsConfig
<1> QED BY <1>10, <1>11, <1>12, AddedIsRight DEF IsRight

LEMMA RootBounds ==
  ASSUME NEW lines, Len(lines) \in Nat, NEW e, IsRoot(lines, e)
  PROVE  e \in Nat /\ e \in 0..Len(lines) /\ 1 \in Nat \ {0}
BY DEF IsRoot

\* A text that parses, and has no deprecated key that the patterns miss, is right
\* once it is patched and parses again.
LEMMA SetFeaturesIsRight ==
  ASSUME NEW lines, IsConfig(lines), ParsesToml(lines), LegacyIsPlain(lines), ParsesToml(SetFeaturesHooks(lines))
  PROVE  IsRight(lines, SetFeaturesHooks(lines))
<1>1. lines \in Seq(Range(lines)) /\ Len(lines) \in Nat /\ DOMAIN lines = 1..Len(lines)
  BY ConfigLength
<1>2. CASE lines = <<>>
  <2>1. SetFeaturesHooks(lines) = Created
    BY <1>2, Zenon DEF SetFeaturesHooks, Created
  <2>2. Features(lines) = {}
    <3>1. DOMAIN lines = {}
      BY <1>2
    <3> QED BY <3>1 DEF Features, InFeatures, Inlines
  <2> QED BY <2>1, <2>2, CreatedParses DEF IsRight, OthersOf
<1>3. CASE lines # <<>> /\ FeaturesAt(lines) # 0
  BY <1>3, HeaderIsPatched
<1>4. CASE lines # <<>> /\ FeaturesAt(lines) = 0
  <2> DEFINE first == LeastOf({i \in DOMAIN lines : lines[i].kind = "header"})
             e == IF first = 0 THEN Len(lines) ELSE first - 1
             hooksAt == LeastOf(Matched(lines, 1, e, "dotted", "hooks"))
             legacyAt == LeastOf(Matched(lines, 1, e, "dotted", "codex_hooks"))
             inlines == {i \in 1..e : lines[i].kind = "inline"}
             inline == LeastOf(inlines)
             dotted == {i \in 1..e : lines[i].kind = "dotted" /\ lines[i].plain}
             last == CHOOSE i \in dotted : \A j \in dotted : j <= i
  <2>1. SetFeaturesHooks(lines) = SetTopLevelFeaturesHooks(lines)
    BY <1>4, Zenon DEF SetFeaturesHooks, FeaturesAt
  <2>2. IsRoot(lines, e)
    BY <1>1, RootEndIs
  <2>3. /\ hooksAt # 0 \/ legacyAt # 0 =>
             SetTopLevelFeaturesHooks(lines) = ApplyFeatureHooks(lines, e, hooksAt, legacyAt, Dotted("hooks", TRUE))
        /\ hooksAt = 0 /\ legacyAt = 0 /\ inline # 0 =>
             SetTopLevelFeaturesHooks(lines) = [lines EXCEPT ![inline] = Inline(SetInlineItems(lines[inline].items))]
        /\ hooksAt = 0 /\ legacyAt = 0 /\ inline = 0 /\ dotted # {} =>
             SetTopLevelFeaturesHooks(lines) = InsertAt(lines, 1 + last, Dotted("hooks", TRUE))
        /\ hooksAt = 0 /\ legacyAt = 0 /\ inline = 0 /\ dotted = {} =>
             SetTopLevelFeaturesHooks(lines) = lines \o Created
    BY Zenon DEF SetTopLevelFeaturesHooks, Matched, Created
  <2> HIDE DEF first, e
  <2>4. e \in Nat /\ e \in 0..Len(lines) /\ 1 \in Nat \ {0}
    BY <1>1, <2>2, RootBounds, Zenon
  <2>5. /\ hooksAt # 0 => hooksAt \in 1..e /\ IsLine(lines[hooksAt], "dotted", "hooks")
        /\ legacyAt # 0 => legacyAt \in 1..e /\ IsLine(lines[legacyAt], "dotted", "codex_hooks")
    BY <2>4, AtIs, Zenon
  <2>6. CASE hooksAt # 0 \/ legacyAt # 0
    <3>1. \E d \in 1..e : lines[d].kind = "dotted"
      BY <2>5, <2>6, IsLineIs, Zenon
    <3> HIDE DEF hooksAt, legacyAt
    <3>2. IsRight(lines, ApplyFeatureHooks(lines, e, hooksAt, legacyAt, Dotted("hooks", TRUE)))
      BY <2>2, <2>6, <3>1, DottedIsPatched, Zenon DEF hooksAt, legacyAt
    <3> QED BY <2>1, <2>3, <2>6, <3>2, Zenon
  <2>7. CASE hooksAt = 0 /\ legacyAt = 0 /\ inline # 0
    <3>1. inlines \in SUBSET (Nat \ {0})
      BY <2>4
    <3>2. inline \in inlines
      <4> HIDE DEF inlines
      <4>1. /\ LeastOf(inlines) = 0 <=> inlines = {}
            /\ inlines # {} => LeastOf(inlines) \in inlines /\ \A j \in inlines : LeastOf(inlines) <= j
        BY <3>1, LeastOfIs, Zenon
      <4> QED BY <2>7, <4>1
    <3>3. inline \in 1..e /\ lines[inline].kind = "inline"
      BY <3>2
    <3> HIDE DEF inline
    <3>4. inline \in DOMAIN lines /\ inline \in 1..(e + 1)
      BY <1>1, <2>4, <3>3
    <3>5. inline \in Inlines(lines)
      BY <2>2, <3>3, <3>4, RootLines DEF Inlines
    <3>6. IsRight(lines, [lines EXCEPT ![inline] = Inline(SetInlineItems(lines[inline].items))])
      BY <3>5, InlineIsPatched, Zenon
    <3> QED BY <2>1, <2>3, <2>7, <3>6, Zenon
  <2>8. CASE hooksAt = 0 /\ legacyAt = 0 /\ inline = 0 /\ dotted # {}
    <3>1. dotted \in SUBSET (1..e)
      OBVIOUS
    <3>2. last \in dotted
      <4> HIDE DEF dotted
      <4>1. \E i \in dotted : \A j \in dotted : j <= i
        BY <2>4, <2>8, <3>1, GreatestOf
      <4> QED BY <4>1
    <3>3. last \in 1..e /\ lines[last].kind = "dotted"
      BY <3>2
    <3> HIDE DEF last, hooksAt, legacyAt
    <3>4. last \in 0..e /\ 1 + last = last + 1
      BY <2>4, <3>3
    <3>5. IsRight(lines, ApplyFeatureHooks(lines, last, hooksAt, legacyAt, Dotted("hooks", TRUE)))
      BY <2>2, <3>3, <3>4, DottedIsPatched, Zenon DEF hooksAt, legacyAt
    <3>6. ApplyFeatureHooks(lines, last, hooksAt, legacyAt, Dotted("hooks", TRUE)) = InsertAt(lines, last + 1, Dotted("hooks", TRUE))
      BY <2>8, Zenon DEF ApplyFeatureHooks
    <3>7. SetTopLevelFeaturesHooks(lines) = InsertAt(lines, last + 1, Dotted("hooks", TRUE))
      BY <2>3, <2>8, <3>4, Zenon
    <3> QED BY <2>1, <3>5, <3>6, <3>7, Zenon
  <2>9. CASE hooksAt = 0 /\ legacyAt = 0 /\ inline = 0 /\ dotted = {}
    <3>1. SetFeaturesHooks(lines) = lines \o Created
      BY <2>1, <2>3, <2>9, Zenon
    <3> QED BY <3>1, AddedIsRight, Zenon
  <2> QED BY <2>6, <2>7, <2>8, <2>9, Zenon
<1> QED BY <1>2, <1>3, <1>4

-----------------------------------------------------------------------------
(***************************************************************************)
(* The runs.                                                               *)
(***************************************************************************)
\* hooks.json is a file that cannot be read or its handlers, and so is what a run
\* has prepared to write.
IsHooksFile(content) == content \in {NoFile, Broken} \cup Seq(Handlers)
IsPlanned(forHooks) == forHooks.written => forHooks.data \in Seq(Handlers)
HooksTypeInv ==
  /\ HooksTypeOK
  /\ DOMAIN installPlan = Installers /\ DOMAIN answer = Installers
  /\ \A p \in Installers : IsPlanned(installPlan[p].hooks)

LEMMA AppendedHandlers ==
  ASSUME NEW handlers \in Seq(Handlers), NEW owner \in Handlers
  PROVE  Append(handlers, owner) \in Seq(Handlers)
BY AppendProperties

LEMMA PreparedIs ==
  ASSUME NEW content, IsHooksFile(content)
  PROVE  IsPlanned(PrepareHooks(content))
<1>0. "ours" \in Handlers
  BY DEF Handlers
<1>1. CASE content = NoFile
  <2>1. PrepareHooks(content) = [error |-> "", written |-> TRUE, data |-> <<"ours">>, reason |-> "created"]
    BY <1>1 DEF PrepareHooks
  <2>2. <<"ours">> \in Seq(Handlers)
    BY <1>0
  <2>3. PrepareHooks(content).data = <<"ours">>
    <3>1. PICK error, written, reason :
            PrepareHooks(content) = [error |-> error, written |-> written, data |-> <<"ours">>, reason |-> reason]
      BY <2>1, Zenon
    <3> QED BY <3>1
  <2> QED BY <2>2, <2>3 DEF IsPlanned
<1>2. CASE content # NoFile /\ content = Broken
  BY <1>2 DEF PrepareHooks, IsPlanned
<1>3. CASE content \notin {NoFile, Broken} /\ Has(content, "stale")
  <2> DEFINE renewed == [i \in DOMAIN content |-> IF content[i] = "stale" THEN "ours" ELSE content[i]]
  <2>1. content \in Seq(Handlers)
    BY <1>3 DEF IsHooksFile
  <2>2. Len(content) \in Nat /\ DOMAIN content = 1..Len(content) /\ \A i \in DOMAIN content : content[i] \in Handlers
    BY <2>1, LenProperties, ElementOfSeq
  <2>3. renewed \in [1..Len(content) -> Handlers]
    BY <1>0, <2>2
  <2>4. renewed \in Seq(Handlers)
    BY <2>2, <2>3, SeqDef
  <2>5. PrepareHooks(content) = [error |-> "", written |-> TRUE, data |-> renewed, reason |-> "hook_normalized"]
    BY <1>3 DEF PrepareHooks
  <2> HIDE DEF renewed
  <2>6. PrepareHooks(content).data = renewed
    <3>1. PICK error, written, reason :
            PrepareHooks(content) = [error |-> error, written |-> written, data |-> renewed, reason |-> reason]
      BY <2>5, Zenon
    <3> QED BY <3>1
  <2> QED BY <2>4, <2>6 DEF IsPlanned
<1>4. CASE content \notin {NoFile, Broken} /\ ~Has(content, "stale") /\ Has(content, "ours")
  BY <1>4 DEF PrepareHooks, IsPlanned
<1>5. CASE content \notin {NoFile, Broken} /\ ~Has(content, "stale") /\ ~Has(content, "ours")
  <2>1. content \in Seq(Handlers)
    BY <1>5 DEF IsHooksFile
  <2>2. Append(content, "ours") \in Seq(Handlers)
    BY <1>0, <2>1, AppendedHandlers
  <2>3. PrepareHooks(content) = [error |-> "", written |-> TRUE, data |-> Append(content, "ours"), reason |-> "added"]
    BY <1>5 DEF PrepareHooks
  <2>4. PrepareHooks(content).data = Append(content, "ours")
    <3>1. PICK error, written, reason :
            PrepareHooks(content) = [error |-> error, written |-> written, data |-> Append(content, "ours"), reason |-> reason]
      BY <2>3, Zenon
    <3> QED BY <3>1
  <2> QED BY <2>2, <2>4 DEF IsPlanned
<1> QED BY <1>1, <1>2, <1>3, <1>4, <1>5

LEMMA HooksInit_Types == HooksInit => HooksTypeInv
<1> SUFFICES ASSUME HooksInit PROVE HooksTypeInv
  OBVIOUS
<1>1. hooks \in {NoFile, Broken} \cup Seq(Handlers) /\ hookEdits \in 0..MaxHookEdits /\ trust \in BOOLEAN
  <2>1. MaxHookEdits \in Nat
    BY Zenon, HookAssumption
  <2>2. hooks \in {NoFile, Broken} \cup Seq(Handlers)
    BY Zenon, HookAssumption DEF HooksInit
  <2>3. hookEdits = 0 /\ trust = FALSE
    BY DEF HooksInit
  <2>4. trust \in BOOLEAN
    BY <2>3, Zenon
  <2>5. hookEdits = 0
    BY <2>3, Zenon
  <2>6. hookEdits \in 0..MaxHookEdits
    BY <2>1, <2>5
  <2> QED BY <2>2, <2>4, <2>6, Zenon
<1>2. /\ step \in [Installers -> {"idle", "writeConfig", "writeHooks", "report", "done"}] /\ quiet \in [Installers -> BOOLEAN]
      /\ \A p \in Installers : answer[p] = NoAnswer /\ installPlan[p] = NoPlan
      /\ DOMAIN installPlan = Installers /\ DOMAIN answer = Installers
  BY DEF HooksInit
<1>3. ~NoAnswer.ok
  BY DEF NoAnswer
<1>4. IsPlanned(NoPlan.hooks)
  BY DEF NoPlan, NothingPlanned, IsPlanned
<1> QED BY <1>1, <1>2, <1>3, <1>4 DEF HooksTypeInv, HooksTypeOK

\* A run goes to its next step.
LEMMA StepGoes ==
  ASSUME HooksTypeInv, NEW p \in Installers, NEW to \in {"idle", "writeConfig", "writeHooks", "report", "done"},
         step' = [step EXCEPT ![p] = to]
  PROVE  step' \in [Installers -> {"idle", "writeConfig", "writeHooks", "report", "done"}]
BY DEF HooksTypeInv, HooksTypeOK

\* What a run has planned and answered.
LEMMA PlanBecomes ==
  ASSUME HooksTypeInv, NEW p \in Installers, NEW scheme, installPlan' = [installPlan EXCEPT ![p] = scheme], IsPlanned(scheme.hooks)
  PROVE  DOMAIN installPlan' = Installers /\ \A q \in Installers : IsPlanned(installPlan'[q].hooks)
BY DEF HooksTypeInv

LEMMA AnswerBecomes ==
  ASSUME HooksTypeInv, NEW p \in Installers, NEW printed, answer' = [answer EXCEPT ![p] = printed], printed.ok => printed.error = ""
  PROVE  DOMAIN answer' = Installers /\ \A q \in Installers : answer'[q].ok => answer'[q].error = ""
BY DEF HooksTypeInv, HooksTypeOK

LEMMA HooksStepTypes == ASSUME HooksTypeInv, [HooksNext]_hookVars PROVE HooksTypeInv'
<1> DEFINE Stages == {"idle", "writeConfig", "writeHooks", "report", "done"}
           FilesKept == IsHooksFile(hooks) /\ hookEdits \in 0..MaxHookEdits /\ trust \in BOOLEAN
           Runs == step \in [Installers -> Stages] /\ quiet \in [Installers -> BOOLEAN]
           Plans == DOMAIN installPlan = Installers /\ \A p \in Installers : IsPlanned(installPlan[p].hooks)
           Answers == DOMAIN answer = Installers /\ \A p \in Installers : answer[p].ok => answer[p].error = ""
<1>1. FilesKept /\ Runs /\ Plans /\ Answers
  BY DEF HooksTypeInv, HooksTypeOK, IsHooksFile
<1>2. ASSUME FilesKept', Runs', Plans', Answers' PROVE HooksTypeInv'
  BY <1>2 DEF HooksTypeInv, HooksTypeOK, IsHooksFile
<1>3. IsPlanned(NoPlan.hooks)
  BY DEF NoPlan, NothingPlanned, IsPlanned
<1>4. ASSUME NEW p \in Installers, EnsureStopHook(p) PROVE HooksTypeInv'
  <2>1. UNCHANGED <<hooks, hookEdits, trust>> /\ quiet' = [quiet EXCEPT ![p] = \E q \in Installers : answer[q].ok]
    BY <1>4 DEF EnsureStopHook
  <2>2. PICK forConfig, error :
          IF error # ""
          THEN /\ answer' = [answer EXCEPT ![p] = [NoAnswer EXCEPT !.error = error]]
               /\ step' = [step EXCEPT ![p] = "done"] /\ installPlan' = installPlan
          ELSE /\ installPlan' = [installPlan EXCEPT ![p] = [hookConfig |-> forConfig, hooks |-> PrepareHooks(hooks)]]
               /\ step' = [step EXCEPT ![p] = "writeConfig"] /\ answer' = answer
    BY <1>4, Zenon DEF EnsureStopHook
  <2>3. FilesKept'
    BY <1>1, <2>1 DEF IsHooksFile
  <2>4. Runs'
    <3>1. (\E q \in Installers : answer[q].ok) \in BOOLEAN
      OBVIOUS
    <3>2. quiet' \in [Installers -> BOOLEAN]
      BY <1>1, <2>1, <3>1
    <3>3. step' \in [Installers -> Stages]
      BY <2>2, StepGoes
    <3> QED BY <3>2, <3>3
  <2>5. CASE error # ""
    <3>1. [NoAnswer EXCEPT !.error = error].ok = FALSE
      BY DEF NoAnswer
    <3>2. Answers'
      BY <2>2, <2>5, <3>1, AnswerBecomes
    <3>3. Plans'
      BY <1>1, <2>2, <2>5
    <3> QED BY <1>2, <2>3, <2>4, <3>2, <3>3
  <2>6. CASE error = ""
    <3> DEFINE scheme == [hookConfig |-> forConfig, hooks |-> PrepareHooks(hooks)]
    <3>1. scheme.hooks = PrepareHooks(hooks)
      OBVIOUS
    <3>2. IsPlanned(scheme.hooks)
      BY <1>1, <3>1, PreparedIs
    <3>3. installPlan' = [installPlan EXCEPT ![p] = scheme] /\ answer' = answer
      BY <2>2, <2>6
    <3> HIDE DEF scheme
    <3>4. Plans'
      BY <3>2, <3>3, PlanBecomes
    <3>5. Answers'
      BY <1>1, <3>3
    <3> QED BY <1>2, <2>3, <2>4, <3>4, <3>5
  <2> QED BY <2>5, <2>6
<1>5. ASSUME NEW p \in Installers, WriteHookConfig(p) PROVE HooksTypeInv'
  <2>1. UNCHANGED <<hooks, trust, hookEdits, installPlan, quiet, answer>> /\ step' = [step EXCEPT ![p] = "writeHooks"]
    BY <1>5 DEF WriteHookConfig
  <2>2. step' \in [Installers -> Stages]
    BY <2>1, StepGoes
  <2> QED BY <1>1, <1>2, <2>1, <2>2 DEF IsHooksFile
<1>6. ASSUME NEW p \in Installers, WriteHooks(p) PROVE HooksTypeInv'
  <2>1. /\ hooks' = IF installPlan[p].hooks.written THEN installPlan[p].hooks.data ELSE hooks
        /\ UNCHANGED <<trust, hookEdits, installPlan, quiet, answer>> /\ step' = [step EXCEPT ![p] = "report"]
    BY <1>6 DEF WriteHooks
  <2>2. step' \in [Installers -> Stages]
    BY <2>1, StepGoes
  <2>3. IsHooksFile(hooks')
    BY <1>1, <2>1 DEF IsHooksFile, IsPlanned
  <2> QED BY <1>1, <1>2, <2>1, <2>2, <2>3
<1>7. ASSUME NEW p \in Installers, Report(p) PROVE HooksTypeInv'
  <2>1. /\ UNCHANGED <<hooks, trust, hookEdits, quiet>> /\ step' = [step EXCEPT ![p] = "done"]
        /\ installPlan' = [installPlan EXCEPT ![p] = NoPlan]
    BY <1>7 DEF Report
  <2>2. PICK changed, trusted, reason :
          answer' = [answer EXCEPT ![p] = [ok |-> TRUE, error |-> "", changed |-> changed, trusted |-> trusted, reason |-> reason]]
    BY <1>7, Zenon DEF Report
  <2>3. step' \in [Installers -> Stages] /\ Plans'
    BY <1>3, <2>1, StepGoes, PlanBecomes
  <2>4. Answers'
    <3> DEFINE printed == [ok |-> TRUE, error |-> "", changed |-> changed, trusted |-> trusted, reason |-> reason]
    <3>1. printed.error = "" /\ answer' = [answer EXCEPT ![p] = printed]
      BY <2>2
    <3> HIDE DEF printed
    <3> QED BY <3>1, AnswerBecomes
  <2> QED BY <1>1, <1>2, <2>1, <2>3, <2>4 DEF IsHooksFile
<1>8. ASSUME NEW p \in Installers, InstallerDies(p) PROVE HooksTypeInv'
  <2>1. /\ UNCHANGED <<hooks, trust, hookEdits, quiet, answer>> /\ step' = [step EXCEPT ![p] = "done"]
        /\ installPlan' = [installPlan EXCEPT ![p] = NoPlan]
    BY <1>8 DEF InstallerDies
  <2>2. step' \in [Installers -> Stages] /\ Plans'
    BY <1>3, <2>1, StepGoes, PlanBecomes
  <2> QED BY <1>1, <1>2, <2>1, <2>2 DEF IsHooksFile
<1>9. CASE AddForeignHook
  <2>1. /\ hookEdits < MaxHookEdits /\ hooks \notin {NoFile, Broken} /\ hooks' = Append(hooks, "foreign")
        /\ hookEdits' = hookEdits + 1 /\ UNCHANGED <<trust, step, installPlan, quiet, answer>>
    BY <1>9 DEF AddForeignHook
  <2>2. hooks \in Seq(Handlers) /\ "foreign" \in Handlers
    BY <1>1, <2>1 DEF IsHooksFile, Handlers
  <2>3. IsHooksFile(hooks')
    BY <2>1, <2>2, AppendedHandlers DEF IsHooksFile
  <2>4. hookEdits' \in 0..MaxHookEdits
    <3>1. MaxHookEdits \in Nat
      BY Zenon, HookAssumption
    <3>2. hookEdits \in 0..MaxHookEdits /\ hookEdits < MaxHookEdits /\ hookEdits' = hookEdits + 1
      BY <1>1, <2>1
    <3> QED BY <3>1, <3>2
  <2> QED BY <1>1, <1>2, <2>1, <2>3, <2>4
<1>10. CASE TrustProject
  BY <1>1, <1>2, <1>10 DEF TrustProject, IsHooksFile
<1>11. CASE UNCHANGED hookVars
  BY <1>1, <1>2, <1>11 DEF hookVars, IsHooksFile
<1> QED BY <1>4, <1>5, <1>6, <1>7, <1>8, <1>9, <1>10, <1>11 DEF HooksNext

(***************************************************************************)
(* What a run prepares is right, and what is right is left.                *)
(***************************************************************************)
IsGood(lines) == ParsesToml(lines) /\ HooksEnabled(lines)
IsFine(lines) == IsConfig(lines) /\ (ParsesToml(lines) => LegacyIsPlain(lines))
IsUpdate(lines, forConfig) ==
  /\ forConfig.written => /\ forConfig.error = "" /\ IsGood(forConfig.data)
                          /\ lines # NoHookConfig => OthersOf(lines) \subseteq Features(forConfig.data)
  /\ ~forConfig.written /\ forConfig.error = "" => IsGood(lines)

LEMMA UpdateFields ==
  ASSUME NEW update, NEW error, NEW written, NEW data, NEW reason,
         update = [error |-> error, written |-> written, data |-> data, reason |-> reason]
  PROVE  update.error = error /\ update.written = written /\ update.data = data
BY Zenon

LEMMA ConfigIsPrepared ==
  ASSUME NEW lines, IsFine(lines)
  PROVE  IsUpdate(lines, PrepareConfig(lines))
<1> DEFINE update == PrepareConfig(lines)
           new == SetFeaturesHooks(lines)
<1>1. CASE lines = NoHookConfig
  <2>1. update = [error |-> "", written |-> TRUE, data |-> Created, reason |-> "created"]
    BY <1>1, Zenon DEF PrepareConfig, Created
  <2> HIDE DEF update
  <2>2. update.error = "" /\ update.written = TRUE /\ update.data = Created
    BY <2>1, UpdateFields, Zenon
  <2>3. IsUpdate(lines, update)
    BY <1>1, <2>2, CreatedParses, Zenon DEF IsUpdate, IsGood
  <2> QED BY <2>3 DEF update
<1>2. CASE lines # NoHookConfig /\ ~ParsesToml(lines)
  <2>1. update = [error |-> "invalid_toml", written |-> FALSE, data |-> <<>>, reason |-> ""]
    BY <1>2, Zenon DEF PrepareConfig
  <2> HIDE DEF update
  <2>2. update.error = "invalid_toml" /\ update.written = FALSE
    BY <2>1, UpdateFields, Zenon
  <2>3. "invalid_toml" # ""
    OBVIOUS
  <2>4. IsUpdate(lines, update)
    BY <2>2, <2>3, Zenon DEF IsUpdate
  <2> QED BY <2>4 DEF update
<1>3. CASE lines # NoHookConfig /\ ParsesToml(lines) /\ HooksEnabled(lines)
  <2>1. update = [error |-> "", written |-> FALSE, data |-> <<>>, reason |-> "already_enabled"]
    BY <1>3, Zenon DEF PrepareConfig
  <2> HIDE DEF update
  <2>2. update.error = "" /\ update.written = FALSE
    BY <2>1, UpdateFields, Zenon
  <2>3. IsUpdate(lines, update)
    BY <1>3, <2>2, Zenon DEF IsUpdate, IsGood
  <2> QED BY <2>3 DEF update
<1>4. CASE lines # NoHookConfig /\ ParsesToml(lines) /\ ~HooksEnabled(lines) /\ ParsesToml(new)
  <2>1. update = [error |-> "", written |-> TRUE, data |-> new, reason |-> "hooks_enabled"]
    BY <1>4, Zenon DEF PrepareConfig
  <2>2. IsRight(lines, new)
    BY <1>4, SetFeaturesIsRight, Zenon DEF IsFine
  <2> HIDE DEF update, new
  <2>3. update.error = "" /\ update.written = TRUE /\ update.data = new
    BY <2>1, UpdateFields, Zenon
  <2>4. IsUpdate(lines, update)
    BY <1>4, <2>2, <2>3, Zenon DEF IsUpdate, IsGood, IsRight
  <2> QED BY <2>4 DEF update
<1>5. CASE lines # NoHookConfig /\ ParsesToml(lines) /\ ~HooksEnabled(lines) /\ ~ParsesToml(new)
  <2>1. update = [error |-> "invalid_toml", written |-> FALSE, data |-> <<>>, reason |-> ""]
    BY <1>5, Zenon DEF PrepareConfig
  <2> HIDE DEF update
  <2>2. update.error = "invalid_toml" /\ update.written = FALSE
    BY <2>1, UpdateFields, Zenon
  <2>3. "invalid_toml" # ""
    OBVIOUS
  <2>4. IsUpdate(lines, update)
    BY <2>2, <2>3, Zenon DEF IsUpdate
  <2> QED BY <2>4 DEF update
<1> QED BY <1>1, <1>2, <1>3, <1>4, <1>5, Zenon

LEMMA NoFileIsFine == IsFine(NoHookConfig) /\ ~HooksEnabled(NoHookConfig)
<1>1. /\ NoHookConfig \in Seq({Header("no file")}) /\ DOMAIN NoHookConfig = {1} /\ Range(NoHookConfig) = {Header("no file")}
      /\ NoHookConfig[1] = Header("no file")
  <2> DEFINE header == Header("no file")
  <2> HIDE DEF header
  <2>1. <<header>> \in Seq({header}) /\ DOMAIN <<header>> = {1} /\ Range(<<header>>) = {header} /\ <<header>>[1] = header
    BY DEF Range
  <2> QED BY <2>1, Zenon DEF NoHookConfig, header
<1>2. /\ Header("no file").kind = "header" /\ Header("no file").name = "no file" /\ Header("no file").items = <<>>
  BY DEF Header, Line
<1>3. <<>> \in Seq(Range(<<>>))
  OBVIOUS
<1>4. NoHookConfig \in Seq(Range(NoHookConfig))
  BY <1>1, Zenon
<1>5. IsConfig(NoHookConfig)
  BY <1>1, <1>2, <1>3, <1>4 DEF IsConfig
<1>6. InFeatures(NoHookConfig) = {} /\ Inlines(NoHookConfig) = {}
  BY <1>1, <1>2 DEF InFeatures, Inlines
<1>7. Features(NoHookConfig) = {}
  BY <1>6 DEF Features
<1> QED BY <1>5, <1>6, <1>7 DEF IsFine, LegacyIsPlain, HooksEnabled

LEMMA GoodIsLeft ==
  ASSUME NEW lines, IsGood(lines)
  PROVE  ~PrepareConfig(lines).written /\ PrepareConfig(lines).error = ""
<1> DEFINE update == PrepareConfig(lines)
<1>1. lines # NoHookConfig
  BY NoFileIsFine DEF IsGood
<1>2. update = [error |-> "", written |-> FALSE, data |-> <<>>, reason |-> "already_enabled"]
  BY <1>1, Zenon DEF PrepareConfig, IsGood
<1> HIDE DEF update
<1>3. update.error = "" /\ update.written = FALSE
  BY <1>2, UpdateFields, Zenon
<1> QED BY <1>3, Zenon DEF update

\* hooks.json has our handler under its current command only.
HasMine(handlers) == Has(handlers, "ours") /\ ~Has(handlers, "stale")
IsHooksUpdate(handlers, forHooks) ==
  /\ forHooks.written => forHooks.error = "" /\ HasMine(forHooks.data) /\ Foreign(forHooks.data) = Foreign(handlers)
  /\ ~forHooks.written /\ forHooks.error = "" => HasMine(handlers)

LEMMA NoHandlers == ~Has(NoFile, "ours") /\ ~Has(Broken, "ours") /\ NoFile # Broken /\ Foreign(NoFile) = {}
BY DEF NoFile, Broken, Has, Foreign

LEMMA AppendedHas ==
  ASSUME NEW handlers \in Seq(Handlers), NEW owner \in Handlers
  PROVE  /\ \A other : Has(Append(handlers, owner), other) <=> Has(handlers, other) \/ other = owner
         /\ owner # "foreign" => Foreign(Append(handlers, owner)) = Foreign(handlers)
<1> DEFINE n == Len(handlers)
           more == Append(handlers, owner)
<1>1. n \in Nat /\ DOMAIN handlers = 1..n
  OBVIOUS
<1>2. DOMAIN more = 1..(n + 1) /\ (\A i \in 1..n : more[i] = handlers[i]) /\ more[n + 1] = owner
  <2>1. more \in Seq(Handlers) /\ Len(more) = n + 1 /\ (\A i \in 1..n : more[i] = handlers[i]) /\ more[n + 1] = owner
    BY <1>1, AppendProperties
  <2> HIDE DEF more, n
  <2> QED BY <2>1
<1> HIDE DEF more, n
<1>3. \A i \in 1..(n + 1) : i \in 1..n \/ i = n + 1
  BY <1>1
<1>4. \A i \in 1..n : i \in 1..(n + 1)
  BY <1>1
<1>5. n + 1 \in 1..(n + 1)
  BY <1>1
<1>6. ASSUME NEW other PROVE Has(more, other) <=> Has(handlers, other) \/ other = owner
  BY <1>1, <1>2, <1>3, <1>4, <1>5, Zenon DEF Has
<1>7. owner # "foreign" => Foreign(more) = Foreign(handlers)
  <2> SUFFICES ASSUME owner # "foreign" PROVE Foreign(more) = Foreign(handlers)
    OBVIOUS
  <2>1. \A i : i \in Foreign(more) <=> i \in Foreign(handlers)
    BY <1>1, <1>2, <1>3, <1>4, Zenon DEF Foreign
  <2>2. Foreign(more) \subseteq Foreign(handlers) /\ Foreign(handlers) \subseteq Foreign(more)
    BY <2>1, Zenon
  <2> QED BY <2>2, Zenon
<1> QED BY <1>6, <1>7, Zenon DEF more

LEMMA HooksArePrepared ==
  ASSUME NEW handlers, IsHooksFile(handlers)
  PROVE  IsHooksUpdate(handlers, PrepareHooks(handlers))
<1> DEFINE update == PrepareHooks(handlers)
<1>0. "ours" \in Handlers /\ "ours" # "stale" /\ "ours" # "foreign" /\ "stale" # "foreign" /\ "invalid_json" # ""
  BY DEF Handlers
<1>1. CASE handlers = NoFile
  <2> DEFINE new == <<"ours">>
  <2>1. update = [error |-> "", written |-> TRUE, data |-> new, reason |-> "created"]
    BY <1>1, Zenon DEF PrepareHooks
  <2>2. HasMine(new) /\ Foreign(new) = Foreign(handlers)
    <3>1. DOMAIN new = {1} /\ new[1] = "ours"
      OBVIOUS
    <3> HIDE DEF new
    <3>2. Has(new, "ours") /\ ~Has(new, "stale") /\ Foreign(new) = {}
      BY <1>0, <3>1 DEF Has, Foreign
    <3> QED BY <1>1, <3>2, NoHandlers DEF HasMine
  <2> HIDE DEF update, new
  <2>3. update.error = "" /\ update.written = TRUE /\ update.data = new
    BY <2>1, UpdateFields, Zenon
  <2>4. IsHooksUpdate(handlers, update)
    BY <2>2, <2>3, Zenon DEF IsHooksUpdate
  <2> QED BY <2>4 DEF update
<1>2. CASE handlers # NoFile /\ handlers = Broken
  <2>1. update = [error |-> "invalid_json", written |-> FALSE, data |-> <<>>, reason |-> ""]
    BY <1>2, Zenon DEF PrepareHooks
  <2> HIDE DEF update
  <2>2. update.error = "invalid_json" /\ update.written = FALSE
    BY <2>1, UpdateFields, Zenon
  <2>3. IsHooksUpdate(handlers, update)
    BY <1>0, <2>2, Zenon DEF IsHooksUpdate
  <2> QED BY <2>3 DEF update
<1>3. CASE handlers \notin {NoFile, Broken} /\ Has(handlers, "stale")
  <2> DEFINE new == [i \in DOMAIN handlers |-> IF handlers[i] = "stale" THEN "ours" ELSE handlers[i]]
  <2>1. update = [error |-> "", written |-> TRUE, data |-> new, reason |-> "hook_normalized"]
    BY <1>3 DEF PrepareHooks
  <2>2. /\ DOMAIN new = DOMAIN handlers
        /\ \A i \in DOMAIN handlers : new[i] = IF handlers[i] = "stale" THEN "ours" ELSE handlers[i]
    OBVIOUS
  <2> HIDE DEF update, new
  <2>3. Has(new, "ours") /\ ~Has(new, "stale")
    BY <1>0, <1>3, <2>2 DEF Has
  <2>4. Foreign(new) = Foreign(handlers)
    BY <1>0, <2>2 DEF Foreign
  <2>5. update.error = "" /\ update.written = TRUE /\ update.data = new
    BY <2>1, UpdateFields, Zenon
  <2>6. IsHooksUpdate(handlers, update)
    BY <2>3, <2>4, <2>5, Zenon DEF IsHooksUpdate, HasMine
  <2> QED BY <2>6 DEF update
<1>4. CASE handlers \notin {NoFile, Broken} /\ ~Has(handlers, "stale") /\ Has(handlers, "ours")
  <2>1. update = [error |-> "", written |-> FALSE, data |-> <<>>, reason |-> "already_configured"]
    BY <1>4 DEF PrepareHooks
  <2> HIDE DEF update
  <2>2. update.error = "" /\ update.written = FALSE
    BY <2>1, UpdateFields, Zenon
  <2>3. IsHooksUpdate(handlers, update)
    BY <1>4, <2>2, Zenon DEF IsHooksUpdate, HasMine
  <2> QED BY <2>3 DEF update
<1>5. CASE handlers \notin {NoFile, Broken} /\ ~Has(handlers, "stale") /\ ~Has(handlers, "ours")
  <2> DEFINE new == Append(handlers, "ours")
  <2>1. update = [error |-> "", written |-> TRUE, data |-> new, reason |-> "added"]
    BY <1>5 DEF PrepareHooks
  <2>2. handlers \in Seq(Handlers)
    BY <1>5 DEF IsHooksFile
  <2>3. (\A other : Has(new, other) <=> Has(handlers, other) \/ other = "ours") /\ Foreign(new) = Foreign(handlers)
    BY <1>0, <2>2, AppendedHas
  <2> HIDE DEF update, new
  <2>4. update.error = "" /\ update.written = TRUE /\ update.data = new
    BY <2>1, UpdateFields, Zenon
  <2>5. IsHooksUpdate(handlers, update)
    BY <1>0, <1>5, <2>3, <2>4, Zenon DEF IsHooksUpdate, HasMine
  <2> QED BY <2>5 DEF update
<1> QED BY <1>1, <1>2, <1>3, <1>4, <1>5

LEMMA MineIsLeft ==
  ASSUME NEW handlers, HasMine(handlers)
  PROVE  ~PrepareHooks(handlers).written /\ PrepareHooks(handlers).error = ""
<1> DEFINE update == PrepareHooks(handlers)
<1>1. handlers # NoFile /\ handlers # Broken
  BY NoHandlers DEF HasMine
<1>2. update = [error |-> "", written |-> FALSE, data |-> <<>>, reason |-> "already_configured"]
  BY <1>1, Zenon DEF PrepareHooks, HasMine
<1> HIDE DEF update
<1>3. update.error = "" /\ update.written = FALSE
  BY <1>2, UpdateFields, Zenon
<1> QED BY <1>3, Zenon DEF update

LEMMA BrokenIsRefused == PrepareHooks(Broken).error # ""
<1> DEFINE update == PrepareHooks(Broken)
<1>1. update = [error |-> "invalid_json", written |-> FALSE, data |-> <<>>, reason |-> ""]
  BY NoHandlers, Zenon DEF PrepareHooks
<1> HIDE DEF update
<1>2. update.error = "invalid_json"
  BY <1>1, UpdateFields, Zenon
<1>3. "invalid_json" # ""
  OBVIOUS
<1> QED BY <1>2, <1>3 DEF update

(***************************************************************************)
(* The inductive invariant.  config.toml is as it was or is the patch of   *)
(* what it was; what a run has prepared is that patch, or nothing because  *)
(* the file is right already; and a file that is right stays right, so     *)
(* that a run which answers has left both files right.                     *)
(***************************************************************************)
Patch == PrepareConfig(original.hookConfig)
ConfigReady == hookProvider = "codex" => IsGood(hookConfig)
ConfigIsKnown == hookConfig = original.hookConfig \/ (Patch.written /\ hookConfig = Patch.data)
ForeignKept(handlers) == hookEdits = 0 => Foreign(handlers) = Foreign(original.hooks)
IsSafePlan(prepared) ==
  /\ prepared.hookConfig.written => hookProvider = "codex" /\ Patch.written /\ prepared.hookConfig.data = Patch.data
  /\ prepared.hooks.written => HasMine(prepared.hooks.data) /\ ForeignKept(prepared.hooks.data)
IsUnwritten(prepared) == ~prepared.hookConfig.written /\ ~prepared.hooks.written
RunInv(p) ==
  /\ IsSafePlan(installPlan[p])
  /\ step[p] = "writeConfig" /\ ~installPlan[p].hookConfig.written => ConfigReady
  /\ step[p] \in {"writeConfig", "writeHooks"} /\ ~installPlan[p].hooks.written => HasMine(hooks)
  /\ step[p] \in {"writeHooks", "report"} => ConfigReady
  /\ step[p] = "report" => HasMine(hooks)
  /\ step[p] # "done" => ~answer[p].ok
  /\ answer[p].ok => ConfigReady /\ HasMine(hooks)
  /\ quiet[p] /\ step[p] \in {"writeConfig", "writeHooks", "report"} => IsUnwritten(installPlan[p])
  /\ quiet[p] /\ answer[p].ok => ~answer[p].changed
CannotStart == original.hooks = Broken \/ (hookProvider = "codex" /\ Patch.error # "")
NothingWritten ==
  /\ hookConfig = original.hookConfig /\ (hookEdits = 0 => hooks = original.hooks)
  /\ original.hooks = Broken => hooks = Broken
  /\ \A p \in Installers : step[p] \in {"idle", "done"}
HookFilesInv ==
  /\ HooksTypeInv
  /\ IsFine(original.hookConfig)
  /\ ConfigIsKnown /\ ForeignKept(hooks)
  /\ CannotStart => NothingWritten
  /\ \A p \in Installers : RunInv(p)
\* Every text there is to start from, if it parses, has no deprecated key that the patterns miss.
LegacyKeysArePlain == \A lines \in HookConfigs : ParsesToml(lines) => LegacyIsPlain(lines)

LEMMA HookInitInv ==
  ASSUME LegacyKeysArePlain, HooksInit
  PROVE  HookFilesInv
<1>1. HooksTypeInv
  BY HooksInit_Types
<1>2. /\ hookConfig = original.hookConfig /\ hooks = original.hooks
      /\ \A p \in Installers : step[p] = "idle" /\ installPlan[p] = NoPlan /\ answer[p] = NoAnswer
  BY DEF HooksInit
<1>3. IsFine(original.hookConfig)
  <2>1. hookConfig \in HookConfigs \/ hookConfig = NoHookConfig
    BY DEF HooksInit
  <2>2. ASSUME NEW lines \in HookConfigs PROVE IsFine(lines)
    <3>1. /\ lines \in Seq(Range(lines))
          /\ \A line \in Range(lines) : line.items \in Seq(Range(line.items)) /\ (line.kind = "header" => line.name # "")
      BY Zenon, HookAssumption
    <3>2. \A i \in DOMAIN lines : lines[i] \in Range(lines)
      BY DEF Range
    <3>3. IsConfig(lines)
      BY <3>1, <3>2, Zenon DEF IsConfig
    <3> QED BY <3>3 DEF IsFine, LegacyKeysArePlain
  <2> QED BY <1>2, <2>1, <2>2, NoFileIsFine
<1>4. ~NoPlan.hookConfig.written /\ ~NoPlan.hooks.written /\ ~NoAnswer.ok
  BY DEF NoPlan, NothingPlanned, NoAnswer
<1>5. ASSUME NEW p \in Installers PROVE RunInv(p)
  <2>1. step[p] = "idle" /\ installPlan[p] = NoPlan /\ answer[p] = NoAnswer
    BY <1>2
  <2>2. IsSafePlan(installPlan[p]) /\ ~answer[p].ok
    BY <1>4, <2>1 DEF IsSafePlan
  <2> QED BY <2>1, <2>2 DEF RunInv
<1>6. ConfigIsKnown /\ ForeignKept(hooks) /\ NothingWritten
  BY <1>2 DEF ConfigIsKnown, ForeignKept, NothingWritten
<1> QED BY <1>1, <1>3, <1>5, <1>6 DEF HookFilesInv

\* What is right of the files, and what the other runs rest on, stays.
FilesStay ==
  /\ UNCHANGED <<hookProvider, original>> /\ (hookEdits' = 0 => hookEdits = 0)
  /\ HasMine(hooks) => HasMine(hooks') /\ (ConfigReady => ConfigReady')

LEMMA OtherRunStays ==
  ASSUME NEW q, RunInv(q), UNCHANGED <<hookProvider, original>>, hookEdits' = 0 => hookEdits = 0,
         HasMine(hooks) => HasMine(hooks'), ConfigReady => ConfigReady',
         step'[q] = step[q], installPlan'[q] = installPlan[q], answer'[q] = answer[q], quiet'[q] = quiet[q]
  PROVE  RunInv(q)'
<1>1. IsSafePlan(installPlan[q])'
  <2>1. IsSafePlan(installPlan[q])
    BY DEF RunInv
  <2>2. Patch' = Patch
    BY DEF Patch
  <2>3. installPlan'[q].hookConfig.written => hookProvider' = "codex" /\ Patch'.written /\ installPlan'[q].hookConfig.data = Patch'.data
    BY <2>1, <2>2 DEF IsSafePlan
  <2>4. installPlan'[q].hooks.written => HasMine(installPlan'[q].hooks.data) /\ ForeignKept(installPlan[q].hooks.data)'
    BY <2>1 DEF IsSafePlan, ForeignKept
  <2> QED BY <2>3, <2>4 DEF IsSafePlan
<1>2. IsUnwritten(installPlan[q])' <=> IsUnwritten(installPlan[q])
  BY DEF IsUnwritten
<1> QED BY <1>1, <1>2 DEF RunInv

\* What a run prepares now: the patch of the text as it was, or nothing.
LEMMA PreparedNow ==
  ASSUME HookFilesInv
  PROVE  /\ PrepareConfig(hookConfig).written => Patch.written /\ PrepareConfig(hookConfig).data = Patch.data
         /\ ~PrepareConfig(hookConfig).written /\ PrepareConfig(hookConfig).error = "" => IsGood(hookConfig)
         /\ IsGood(hookConfig) => ~PrepareConfig(hookConfig).written
<1>1. IsUpdate(original.hookConfig, Patch)
  BY ConfigIsPrepared DEF HookFilesInv, Patch
<1>2. CASE hookConfig = original.hookConfig
  <2>1. PrepareConfig(hookConfig) = Patch
    BY <1>2 DEF Patch
  <2> QED BY <1>1, <1>2, <2>1, GoodIsLeft DEF IsUpdate
<1>3. CASE Patch.written /\ hookConfig = Patch.data
  <2>1. IsGood(hookConfig)
    BY <1>1, <1>3 DEF IsUpdate
  <2> QED BY <2>1, GoodIsLeft
<1> QED BY <1>2, <1>3 DEF HookFilesInv, ConfigIsKnown

LEMMA PatchIsGood ==
  ASSUME HookFilesInv, Patch.written
  PROVE  Patch.error = "" /\ IsGood(Patch.data)
<1>1. IsUpdate(original.hookConfig, Patch)
  BY ConfigIsPrepared DEF HookFilesInv, Patch
<1> QED BY <1>1 DEF IsUpdate

LEMMA OtherEntriesKeep ==
  ASSUME NEW f, NEW p, NEW q \in DOMAIN f, q # p, NEW value
  PROVE  [f EXCEPT ![p] = value][q] = f[q]
OBVIOUS

LEMMA EnsureKeepsInv ==
  ASSUME HookFilesInv, HooksTypeInv', NEW p \in Installers, EnsureStopHook(p)
  PROVE  HookFilesInv'
<1> DEFINE forConfig == IF hookProvider = "codex" THEN PrepareConfig(hookConfig) ELSE NothingPlanned
           forHooks == PrepareHooks(hooks)
           error == IF forConfig.error # "" THEN forConfig.error ELSE forHooks.error
           succeeded == \E q \in Installers : answer[q].ok
<1>1. /\ UNCHANGED <<hookProvider, hookConfig, hooks, original, hookEdits>> /\ step[p] = "idle"
      /\ quiet' = [quiet EXCEPT ![p] = succeeded]
      /\ error # "" => /\ answer' = [answer EXCEPT ![p] = [NoAnswer EXCEPT !.error = error]]
                       /\ step' = [step EXCEPT ![p] = "done"] /\ installPlan' = installPlan
      /\ error = "" => /\ installPlan' = [installPlan EXCEPT ![p] = [hookConfig |-> forConfig, hooks |-> forHooks]]
                       /\ step' = [step EXCEPT ![p] = "writeConfig"] /\ answer' = answer
  BY Zenon DEF EnsureStopHook
<1>2. HooksTypeInv /\ RunInv(p)
  BY DEF HookFilesInv
<1>3. p \in DOMAIN step /\ p \in DOMAIN installPlan /\ p \in DOMAIN answer /\ p \in DOMAIN quiet
  BY <1>2 DEF HooksTypeInv, HooksTypeOK
<1>4. IsHooksUpdate(hooks, forHooks)
  <2>1. IsHooksFile(hooks)
    BY <1>2 DEF HooksTypeInv, HooksTypeOK, IsHooksFile
  <2> QED BY <2>1, HooksArePrepared
<1>5. /\ forConfig.written => hookProvider = "codex" /\ Patch.written /\ forConfig.data = Patch.data
      /\ ~forConfig.written /\ forConfig.error = "" => ConfigReady
      /\ ConfigReady => ~forConfig.written
  <2>1. CASE hookProvider = "codex"
    <3>1. forConfig = PrepareConfig(hookConfig)
      BY <2>1
    <3> HIDE DEF forConfig
    <3> QED BY <2>1, <3>1, PreparedNow DEF ConfigReady
  <2>2. CASE hookProvider # "codex"
    <3>1. forConfig = NothingPlanned
      BY <2>2
    <3>2. ~NothingPlanned.written
      BY DEF NothingPlanned
    <3> HIDE DEF forConfig
    <3> QED BY <2>2, <3>1, <3>2 DEF ConfigReady
  <2> QED BY <2>1, <2>2
<1>6. HasMine(hooks) => ~forHooks.written
  BY MineIsLeft
<1>7. error = "" => forConfig.error = "" /\ forHooks.error = ""
  OBVIOUS
<1>8. CannotStart => error # ""
  <2>1. CASE original.hooks = Broken
    <3>1. hooks = Broken
      BY <2>1 DEF HookFilesInv, CannotStart, NothingWritten
    <3>2. forHooks.error # ""
      BY <3>1, BrokenIsRefused
    <3> QED BY <3>2
  <2>2. CASE hookProvider = "codex" /\ Patch.error # ""
    <3>1. hookConfig = original.hookConfig
      BY <2>2 DEF HookFilesInv, CannotStart, NothingWritten
    <3>2. forConfig = Patch
      BY <2>2, <3>1 DEF Patch
    <3> QED BY <2>2, <3>2
  <2> QED BY <2>1, <2>2 DEF CannotStart
<1> HIDE DEF error, forConfig, forHooks
<1>9. succeeded => ConfigReady /\ HasMine(hooks)
  BY DEF HookFilesInv, RunInv
<1>10. (quiet'[p] => succeeded) /\ ConfigReady' = ConfigReady /\ Patch' = Patch
  BY <1>1, <1>3 DEF ConfigReady, Patch
<1> HIDE DEF succeeded
<1>11. RunInv(p)'
  <2>1. CASE error # ""
    <3>1. step'[p] = "done" /\ installPlan'[p] = installPlan[p] /\ answer'[p] = [NoAnswer EXCEPT !.error = error]
      BY <1>1, <1>3, <2>1
    <3>2. ~answer'[p].ok
      BY <3>1 DEF NoAnswer
    <3>3. IsSafePlan(installPlan[p])'
      <4>1. IsSafePlan(installPlan[p])
        BY <1>2 DEF RunInv
      <4> QED BY <1>1, <1>10, <3>1, <4>1 DEF IsSafePlan, ForeignKept
    <3> QED BY <3>1, <3>2, <3>3 DEF RunInv
  <2>2. CASE error = ""
    <3> DEFINE prepared == [hookConfig |-> forConfig, hooks |-> forHooks]
    <3>1. step'[p] = "writeConfig" /\ installPlan'[p] = prepared /\ answer'[p] = answer[p]
      BY <1>1, <1>3, <2>2
    <3>2. prepared.hookConfig = forConfig /\ prepared.hooks = forHooks
      OBVIOUS
    <3> HIDE DEF prepared
    <3>3. ~answer'[p].ok
      BY <1>1, <1>2, <3>1 DEF RunInv
    <3>4. forConfig.error = "" /\ forHooks.error = ""
      BY <1>7, <2>2
    <3>5. forHooks.written => HasMine(forHooks.data) /\ (hookEdits' = 0 => Foreign(forHooks.data) = Foreign(original'.hooks))
      <4>1. forHooks.written => HasMine(forHooks.data) /\ Foreign(forHooks.data) = Foreign(hooks)
        BY <1>4 DEF IsHooksUpdate
      <4>2. ForeignKept(hooks)
        BY DEF HookFilesInv
      <4> QED BY <1>1, <4>1, <4>2 DEF ForeignKept
    <3>6. IsSafePlan(installPlan[p])'
      <4>1. installPlan'[p].hookConfig = forConfig /\ installPlan'[p].hooks = forHooks
        BY <3>1, <3>2
      <4>2. installPlan'[p].hookConfig.written => hookProvider' = "codex" /\ Patch'.written /\ installPlan'[p].hookConfig.data = Patch'.data
        BY <1>1, <1>5, <1>10, <4>1
      <4>3. installPlan'[p].hooks.written =>
              HasMine(installPlan'[p].hooks.data) /\ (hookEdits' = 0 => Foreign(installPlan'[p].hooks.data) = Foreign(original'.hooks))
        BY <3>5, <4>1
      <4> QED BY <4>2, <4>3 DEF IsSafePlan, ForeignKept
    <3>7. ~installPlan'[p].hookConfig.written => ConfigReady'
      BY <1>5, <1>10, <3>1, <3>2, <3>4
    <3>8. ~installPlan'[p].hooks.written => HasMine(hooks')
      BY <1>1, <1>4, <3>1, <3>2, <3>4 DEF IsHooksUpdate
    <3>9. quiet'[p] => IsUnwritten(installPlan[p])'
      BY <1>5, <1>6, <1>9, <1>10, <3>1, <3>2 DEF IsUnwritten
    <3> QED BY <3>1, <3>3, <3>6, <3>7, <3>8, <3>9 DEF RunInv
  <2> QED BY <2>1, <2>2
<1>12. ASSUME NEW q \in Installers, q # p PROVE RunInv(q)'
  <2>1. step'[q] = step[q] /\ installPlan'[q] = installPlan[q] /\ answer'[q] = answer[q] /\ quiet'[q] = quiet[q]
    <3>0. q \in DOMAIN step /\ q \in DOMAIN installPlan /\ q \in DOMAIN answer /\ q \in DOMAIN quiet
      BY <1>2 DEF HooksTypeInv, HooksTypeOK
    <3>1. CASE error # ""
      BY <1>1, <1>12, <3>0, <3>1, OtherEntriesKeep, Zenon
    <3>2. CASE error = ""
      BY <1>1, <1>12, <3>0, <3>2, OtherEntriesKeep, Zenon
    <3> QED BY <3>1, <3>2
  <2>2. RunInv(q)
    BY DEF HookFilesInv
  <2> QED BY <1>1, <1>10, <2>1, <2>2, OtherRunStays
<1>13. (CannotStart => NothingWritten)'
  <2> SUFFICES ASSUME CannotStart' PROVE NothingWritten'
    OBVIOUS
  <2>1. CannotStart
    BY <1>1, <1>10 DEF CannotStart
  <2>2. NothingWritten /\ error # ""
    BY <1>8, <2>1 DEF HookFilesInv
  <2>3. \A q \in Installers : step'[q] \in {"idle", "done"}
    <3>1. step' = [step EXCEPT ![p] = "done"] /\ \A q \in Installers : step[q] \in {"idle", "done"}
      BY <1>1, <2>2 DEF NothingWritten
    <3> QED BY <1>3, <3>1
  <2> QED BY <1>1, <2>2, <2>3 DEF NothingWritten
<1>14. IsFine(original.hookConfig)' /\ ConfigIsKnown' /\ ForeignKept(hooks)'
  BY <1>1, <1>10 DEF HookFilesInv, ConfigIsKnown, ForeignKept
<1> QED BY <1>11, <1>12, <1>13, <1>14 DEF HookFilesInv

\* A run that is at work shows that runs can start.
LEMMA RunningShows ==
  ASSUME HookFilesInv, NEW p \in Installers, step[p] \notin {"idle", "done"}
  PROVE  ~CannotStart
BY DEF HookFilesInv, NothingWritten

LEMMA RunIsIn ==
  ASSUME HookFilesInv, NEW p \in Installers
  PROVE  p \in DOMAIN step /\ p \in DOMAIN installPlan /\ p \in DOMAIN answer /\ p \in DOMAIN quiet
BY DEF HookFilesInv, HooksTypeInv, HooksTypeOK

LEMMA NoPlanIsSafe == ~NoPlan.hookConfig.written /\ ~NoPlan.hooks.written
BY DEF NoPlan, NothingPlanned

LEMMA WriteConfigKeepsInv ==
  ASSUME HookFilesInv, HooksTypeInv', NEW p \in Installers, WriteHookConfig(p)
  PROVE  HookFilesInv'
<1>1. /\ UNCHANGED <<hookProvider, hooks, original, hookEdits, installPlan, quiet, answer>> /\ step[p] = "writeConfig"
      /\ step' = [step EXCEPT ![p] = "writeHooks"]
      /\ installPlan[p].hookConfig.written => hookConfig' = installPlan[p].hookConfig.data
      /\ ~installPlan[p].hookConfig.written => hookConfig' = hookConfig
  BY Zenon DEF WriteHookConfig
<1>2. RunInv(p) /\ \A q \in Installers : RunInv(q) /\ q \in DOMAIN step
  BY RunIsIn DEF HookFilesInv
<1>3. Patch' = Patch /\ ~CannotStart
  BY <1>1, RunningShows DEF Patch
<1>4. installPlan[p].hookConfig.written => Patch.written /\ hookConfig' = Patch.data /\ IsGood(Patch.data)
  BY <1>1, <1>2, PatchIsGood DEF RunInv, IsSafePlan
<1>5. ConfigReady'
  BY <1>1, <1>2, <1>4 DEF RunInv, ConfigReady
<1>6. ConfigIsKnown'
  BY <1>1, <1>3, <1>4 DEF HookFilesInv, ConfigIsKnown
<1>7. RunInv(p)'
  <2>1. step'[p] = "writeHooks" /\ installPlan'[p] = installPlan[p] /\ answer'[p] = answer[p] /\ quiet'[p] = quiet[p] /\ hooks' = hooks
    BY <1>1, <1>2
  <2>2. IsSafePlan(installPlan[p])'
    BY <1>1, <1>2, <1>3 DEF RunInv, IsSafePlan, ForeignKept
  <2>3. IsUnwritten(installPlan[p])' <=> IsUnwritten(installPlan[p])
    BY <2>1 DEF IsUnwritten
  <2> QED BY <1>1, <1>2, <1>5, <2>1, <2>2, <2>3 DEF RunInv
<1>8. ASSUME NEW q \in Installers, q # p PROVE RunInv(q)'
  <2>1. step'[q] = step[q]
    BY <1>1, <1>2, <1>8, OtherEntriesKeep
  <2> QED BY <1>1, <1>2, <1>5, <2>1, OtherRunStays
<1>9. ~CannotStart' /\ IsFine(original.hookConfig)' /\ ForeignKept(hooks)'
  BY <1>1, <1>3 DEF CannotStart, HookFilesInv, ForeignKept
<1> QED BY <1>6, <1>7, <1>8, <1>9 DEF HookFilesInv

LEMMA WriteHooksKeepsInv ==
  ASSUME HookFilesInv, HooksTypeInv', NEW p \in Installers, WriteHooks(p)
  PROVE  HookFilesInv'
<1>1. /\ UNCHANGED <<hookProvider, hookConfig, original, hookEdits, installPlan, quiet, answer>> /\ step[p] = "writeHooks"
      /\ step' = [step EXCEPT ![p] = "report"]
      /\ installPlan[p].hooks.written => hooks' = installPlan[p].hooks.data
      /\ ~installPlan[p].hooks.written => hooks' = hooks
  BY Zenon DEF WriteHooks
<1>2. RunInv(p) /\ \A q \in Installers : RunInv(q) /\ q \in DOMAIN step
  BY RunIsIn DEF HookFilesInv
<1>3. Patch' = Patch /\ ~CannotStart /\ (ConfigReady' <=> ConfigReady)
  BY <1>1, RunningShows DEF Patch, ConfigReady
<1>4. HasMine(hooks')
  BY <1>1, <1>2 DEF RunInv, IsSafePlan
<1>5. ForeignKept(hooks)'
  <2>1. ForeignKept(hooks)
    BY DEF HookFilesInv
  <2> QED BY <1>1, <1>2, <2>1 DEF RunInv, IsSafePlan, ForeignKept
<1>6. ConfigIsKnown'
  BY <1>1, <1>3 DEF HookFilesInv, ConfigIsKnown
<1>7. RunInv(p)'
  <2>1. step'[p] = "report" /\ installPlan'[p] = installPlan[p] /\ answer'[p] = answer[p] /\ quiet'[p] = quiet[p]
    BY <1>1, <1>2
  <2>2. IsSafePlan(installPlan[p])'
    BY <1>1, <1>2, <1>3 DEF RunInv, IsSafePlan, ForeignKept
  <2>3. IsUnwritten(installPlan[p])' <=> IsUnwritten(installPlan[p])
    BY <2>1 DEF IsUnwritten
  <2> QED BY <1>1, <1>2, <1>3, <1>4, <2>1, <2>2, <2>3 DEF RunInv
<1>8. ASSUME NEW q \in Installers, q # p PROVE RunInv(q)'
  <2>1. step'[q] = step[q]
    BY <1>1, <1>2, <1>8, OtherEntriesKeep
  <2> QED BY <1>1, <1>2, <1>3, <1>4, <2>1, OtherRunStays
<1>9. ~CannotStart' /\ IsFine(original.hookConfig)'
  BY <1>1, <1>3 DEF CannotStart, HookFilesInv
<1> QED BY <1>5, <1>6, <1>7, <1>8, <1>9 DEF HookFilesInv

\* The end of a run, which reports or dies.
LEMMA EndKeepsInv ==
  ASSUME HookFilesInv, HooksTypeInv', NEW p \in Installers, step[p] \in {"writeConfig", "writeHooks", "report"},
         UNCHANGED <<hookProvider, hookConfig, hooks, original, hookEdits, quiet>>,
         step' = [step EXCEPT ![p] = "done"], installPlan' = [installPlan EXCEPT ![p] = NoPlan],
         NEW printed, answer'[p] = printed, \A q \in Installers : q # p => answer'[q] = answer[q],
         printed.ok => ConfigReady /\ HasMine(hooks) /\ (quiet[p] => ~printed.changed)
  PROVE  HookFilesInv'
<1>1. p \in DOMAIN step /\ p \in DOMAIN installPlan /\ p \in DOMAIN answer
  BY RunIsIn
<1>2. Patch' = Patch /\ ~CannotStart /\ (ConfigReady' <=> ConfigReady)
  BY RunningShows DEF Patch, ConfigReady
<1>3. RunInv(p)'
  <2>1. step'[p] = "done" /\ installPlan'[p] = NoPlan /\ answer'[p] = printed /\ quiet'[p] = quiet[p]
    BY <1>1
  <2>2. IsSafePlan(installPlan[p])'
    BY <2>1, NoPlanIsSafe DEF IsSafePlan
  <2> QED BY <1>2, <2>1, <2>2 DEF RunInv
<1>4. ASSUME NEW q \in Installers, q # p PROVE RunInv(q)'
  <2>0. q \in DOMAIN step /\ q \in DOMAIN installPlan /\ q \in DOMAIN answer /\ RunInv(q)
    BY RunIsIn DEF HookFilesInv
  <2>1. step'[q] = step[q] /\ installPlan'[q] = installPlan[q] /\ answer'[q] = answer[q]
    <3>1. step'[q] = step[q] /\ installPlan'[q] = installPlan[q]
      BY <1>4, <2>0, OtherEntriesKeep, Zenon
    <3> QED BY <1>4, <3>1
  <2> QED BY <1>2, <2>0, <2>1, OtherRunStays
<1>5. ~CannotStart' /\ IsFine(original.hookConfig)' /\ ForeignKept(hooks)' /\ ConfigIsKnown'
  BY <1>2 DEF CannotStart, HookFilesInv, ForeignKept, ConfigIsKnown
<1> QED BY <1>3, <1>4, <1>5 DEF HookFilesInv

LEMMA ReportKeepsInv ==
  ASSUME HookFilesInv, HooksTypeInv', NEW p \in Installers, Report(p)
  PROVE  HookFilesInv'
<1> DEFINE changed == installPlan[p].hooks.written \/ installPlan[p].hookConfig.written
<1>1. PICK trusted, reason :
        answer' = [answer EXCEPT ![p] = [ok |-> TRUE, error |-> "", changed |-> changed, trusted |-> trusted, reason |-> reason]]
  BY Zenon DEF Report
<1>2. /\ UNCHANGED <<hookProvider, hookConfig, hooks, original, hookEdits, quiet>> /\ step[p] = "report"
      /\ step' = [step EXCEPT ![p] = "done"] /\ installPlan' = [installPlan EXCEPT ![p] = NoPlan]
  BY Zenon DEF Report
<1>3. RunInv(p)
  BY DEF HookFilesInv
<1>4. ConfigReady /\ HasMine(hooks) /\ (quiet[p] => ~changed)
  BY <1>2, <1>3 DEF RunInv, IsUnwritten
<1> HIDE DEF changed
<1> DEFINE printed == [ok |-> TRUE, error |-> "", changed |-> changed, trusted |-> trusted, reason |-> reason]
<1>5. printed.changed = changed
  BY Zenon
<1> HIDE DEF printed
<1>6. answer' = [answer EXCEPT ![p] = printed]
  BY <1>1, Zenon DEF printed
<1>7. answer'[p] = printed /\ \A q \in Installers : q # p => answer'[q] = answer[q]
  <2>1. \A q \in Installers : q \in DOMAIN answer
    BY RunIsIn
  <2> QED BY <1>6, <2>1
<1> QED BY <1>2, <1>4, <1>5, <1>7, EndKeepsInv

LEMMA DeathKeepsInv ==
  ASSUME HookFilesInv, HooksTypeInv', NEW p \in Installers, InstallerDies(p)
  PROVE  HookFilesInv'
<1>1. /\ UNCHANGED <<hookProvider, hookConfig, hooks, original, hookEdits, quiet, answer>>
      /\ step[p] \in {"writeConfig", "writeHooks", "report"}
      /\ step' = [step EXCEPT ![p] = "done"] /\ installPlan' = [installPlan EXCEPT ![p] = NoPlan]
  BY DEF InstallerDies
<1>2. RunInv(p)
  BY DEF HookFilesInv
<1>3. ~answer[p].ok
  BY <1>1, <1>2 DEF RunInv
<1>4. answer'[p] = answer[p] /\ \A q \in Installers : q # p => answer'[q] = answer[q]
  BY <1>1
<1> QED BY <1>1, <1>3, <1>4, EndKeepsInv

LEMMA ForeignHookKeepsInv ==
  ASSUME HookFilesInv, HooksTypeInv', AddForeignHook
  PROVE  HookFilesInv'
<1>1. /\ UNCHANGED <<hookProvider, hookConfig, original, step, installPlan, quiet, answer>>
      /\ hooks \notin {NoFile, Broken} /\ hooks' = Append(hooks, "foreign") /\ hookEdits' = hookEdits + 1
  BY DEF AddForeignHook
<1>2. hooks \in Seq(Handlers) /\ hookEdits \in Nat /\ "foreign" \in Handlers /\ "foreign" # "stale"
  <2>1. MaxHookEdits \in Nat
    BY Zenon, HookAssumption
  <2>2. hooks \in {NoFile, Broken} \cup Seq(Handlers) /\ hookEdits \in 0..MaxHookEdits
    BY DEF HookFilesInv, HooksTypeInv, HooksTypeOK
  <2>3. hookEdits \in Nat
    BY <2>1, <2>2
  <2> QED BY <1>1, <2>2, <2>3 DEF Handlers
<1>3. hookEdits' # 0
  BY <1>1, <1>2
<1>4. HasMine(hooks) => HasMine(hooks')
  <2>1. \A other : Has(hooks', other) <=> Has(hooks, other) \/ other = "foreign"
    BY <1>1, <1>2, AppendedHas
  <2> QED BY <1>2, <2>1 DEF HasMine
<1>5. (ConfigReady' <=> ConfigReady) /\ Patch' = Patch
  BY <1>1 DEF ConfigReady, Patch
<1>6. ASSUME NEW q \in Installers PROVE RunInv(q)'
  <2>1. RunInv(q)
    BY DEF HookFilesInv
  <2> QED BY <1>1, <1>3, <1>4, <1>5, <2>1, OtherRunStays
<1>7. (CannotStart => NothingWritten)'
  <2> SUFFICES ASSUME CannotStart' PROVE NothingWritten'
    OBVIOUS
  <2>1. CannotStart
    BY <1>1, <1>5 DEF CannotStart
  <2>2. NothingWritten
    BY <2>1 DEF HookFilesInv
  <2> QED BY <1>1, <1>3, <2>2 DEF NothingWritten
<1>8. IsFine(original.hookConfig)' /\ ForeignKept(hooks)' /\ ConfigIsKnown'
  BY <1>1, <1>3, <1>5 DEF HookFilesInv, ForeignKept, ConfigIsKnown
<1> QED BY <1>6, <1>7, <1>8 DEF HookFilesInv

LEMMA RestKeepsInv ==
  ASSUME HookFilesInv, HooksTypeInv', UNCHANGED <<hookProvider, hookConfig, hooks, original, hookEdits, step, installPlan, quiet, answer>>
  PROVE  HookFilesInv'
<1>1. (ConfigReady' <=> ConfigReady) /\ Patch' = Patch
  BY DEF ConfigReady, Patch
<1>2. ASSUME NEW q \in Installers PROVE RunInv(q)'
  <2>1. RunInv(q)
    BY DEF HookFilesInv
  <2> QED BY <1>1, <2>1, OtherRunStays
<1>3. (CannotStart => NothingWritten)'
  BY <1>1 DEF HookFilesInv, CannotStart, NothingWritten
<1>4. IsFine(original.hookConfig)' /\ ForeignKept(hooks)' /\ ConfigIsKnown'
  BY <1>1 DEF HookFilesInv, ForeignKept, ConfigIsKnown
<1> QED BY <1>2, <1>3, <1>4 DEF HookFilesInv

LEMMA HookStepInv ==
  ASSUME HookFilesInv, [HooksNext]_hookVars
  PROVE  HookFilesInv'
<1>1. HooksTypeInv'
  BY HooksStepTypes DEF HookFilesInv
<1>2. ASSUME NEW p \in Installers, EnsureStopHook(p) \/ WriteHookConfig(p) \/ WriteHooks(p) \/ Report(p) \/ InstallerDies(p) PROVE HookFilesInv'
  BY <1>1, <1>2, EnsureKeepsInv, WriteConfigKeepsInv, WriteHooksKeepsInv, ReportKeepsInv, DeathKeepsInv, Zenon
<1>3. CASE AddForeignHook
  BY <1>1, <1>3, ForeignHookKeepsInv
<1>4. CASE TrustProject
  <2>1. UNCHANGED <<hookProvider, hookConfig, hooks, original, hookEdits, step, installPlan, quiet, answer>>
    BY <1>4 DEF TrustProject
  <2> QED BY <1>1, <2>1, RestKeepsInv
<1>5. CASE UNCHANGED hookVars
  <2>1. UNCHANGED <<hookProvider, hookConfig, hooks, original, hookEdits, step, installPlan, quiet, answer>>
    BY <1>5 DEF hookVars
  <2> QED BY <1>1, <2>1, RestKeepsInv
<1> QED BY <1>2, <1>3, <1>4, <1>5, Zenon DEF HooksNext

LEMMA HookInvShows ==
  ASSUME HookFilesInv
  PROVE  RewrittenConfigIsRight /\ ErrorWritesNothing /\ OthersAreKept /\ OkIsInstalled /\ LaterRunIsQuiet
<1>1. IsUpdate(original.hookConfig, Patch)
  BY ConfigIsPrepared DEF HookFilesInv, Patch
<1>2. RewrittenConfigIsRight
  BY <1>1 DEF HookFilesInv, ConfigIsKnown, RewrittenConfigIsRight, IsUpdate, IsGood
<1>3. ErrorWritesNothing
  BY DEF HookFilesInv, CannotStart, NothingWritten, ErrorWritesNothing, Patch
<1>4. OthersAreKept
  <2>1. ASSUME original.hookConfig \notin {NoHookConfig, BrokenConfig} PROVE OthersOf(original.hookConfig) \subseteq Features(hookConfig)
    <3>1. CASE hookConfig = original.hookConfig
      BY <3>1 DEF OthersOf
    <3>2. CASE Patch.written /\ hookConfig = Patch.data
      BY <1>1, <2>1, <3>2 DEF IsUpdate
    <3> QED BY <3>1, <3>2 DEF HookFilesInv, ConfigIsKnown
  <2>2. ForeignKept(hooks)
    BY DEF HookFilesInv
  <2> QED BY <2>1, <2>2 DEF OthersAreKept, ForeignKept, OthersOf
<1>5. OkIsInstalled
  BY DEF HookFilesInv, RunInv, OkIsInstalled, ConfigReady, HasMine, IsGood
<1>6. LaterRunIsQuiet
  BY DEF HookFilesInv, RunInv, LaterRunIsQuiet
<1> QED BY <1>2, <1>3, <1>4, <1>5, <1>6

\* Runs that overlap or die, a file that is edited meanwhile and any layout of config.toml: a
\* text that a run has replaced parses and is enabled, an error has written nothing, what
\* others keep in both files stays, "ok" means installed, and a later run changes nothing.
THEOREM InstalledHooksHold ==
  LegacyKeysArePlain /\ HooksSpec
    => [](RewrittenConfigIsRight /\ ErrorWritesNothing /\ OthersAreKept /\ OkIsInstalled /\ LaterRunIsQuiet)
<1>1. LegacyKeysArePlain /\ HooksInit => HookFilesInv
  BY HookInitInv
<1>2. HookFilesInv /\ [HooksNext]_hookVars => HookFilesInv'
  BY HookStepInv
<1>3. HookFilesInv => RewrittenConfigIsRight /\ ErrorWritesNothing /\ OthersAreKept /\ OkIsInstalled /\ LaterRunIsQuiet
  BY HookInvShows
<1> QED BY <1>1, <1>2, <1>3, PTL DEF HooksSpec

PartyAgents == INSTANCE SequenceFolds WITH Op <- PartyAgent
PartyMembers == INSTANCE SequenceFolds WITH Op <- PartyMember
ForgeAgents == INSTANCE SequenceFolds WITH Op <- ForgeAgent
ForgeMembers == INSTANCE SequenceFolds WITH Op <- ForgeMember
KeyedPuts == INSTANCE SequenceFolds WITH Op <- PutMember

\* Min is that element.
LEMMA SmallestFacts ==
  ASSUME NEW S \in SUBSET Nat, S # {}
  PROVE  Min(S) \in S /\ \A j \in S : Min(S) <= j
<1>1. \E i \in S : \A j \in S : i <= j
  BY LeastElement
<1> QED BY <1>1 DEF Min

(***************************************************************************)
(* The sprint file.  A command keeps a ghost, quiet: nobody else has       *)
(* replaced the file since it read it.                                     *)
(***************************************************************************)
ItemIds == STRING \cup {AutoId(e, n) : e \in Nat, n \in Nat}
Items == [id : ItemIds, epic : Nat, text : STRING, status : ActionStatuses]
IsDoc(d) ==
  /\ DOMAIN d = {"state", "dev", "items", "dated"}
  /\ DOMAIN d.dev \subseteq SprintKeys /\ d.items \in Seq(Items)
IsCommand(c) ==
  DOMAIN c = {"step", "docs", "loaded", "original", "new", "fresh", "sets", "request", "quiet", "restored"}
PlannedStories == {k \in SprintKeys : k.kind \in {"story", "other"}}
UsableDoc(d) ==
  /\ d.state = "good" /\ DOMAIN d.dev # {}
  /\ \A k \in DOMAIN d.dev : k \in SprintKeys /\ d.dev[k] \in Legal(PlanKind(k))

\* A command c whose effect on the file is that it is now f.
KeepsTheDoc(c, f) ==
  KeepsItems(c.original, f) /\ (c.fresh \/ KeepsProgress(c.original, f, {p[1] : p \in c.sets}))

\* What both commands keep, for the file f.
Acting == {"write", "verify", "restore"}
CommandInv(c, f) ==
  /\ IsCommand(c) /\ IsDoc(c.original) /\ c.quiet \in BOOLEAN
  /\ c.step \in Acting => IsDoc(c.new) /\ (c.quiet => KeepsTheDoc(c, c.new))
  /\ c.quiet => /\ c.step = "write" => f = c.original
                /\ c.step = "verify" => f = c.new
                /\ c.step = "ok" => KeepsTheDoc(c, f)
                /\ c.step = "failed" /\ c.restored => f = c.original
PlanInv(c, f) ==
  /\ CommandInv(c, f) /\ c.step \in {"idle", "bytes", "ok", "failed"} \cup Acting
  /\ c.step = "bytes" => IsDoc(c.loaded) /\ c.docs \subseteq PlannedStories /\ c.docs # {} /\ (c.quiet => f = c.loaded)
  /\ c.step \in Acting => UsableDoc(c.new) /\ (c.quiet => c.new.dated = c.original.dated)
  /\ c.step = "ok" /\ c.quiet => UsableDoc(f) /\ f.dated = c.original.dated
RetroInv(c, f) ==
  /\ CommandInv(c, f) /\ c.step \in {"idle", "load", "ok", "failed"} \cup Acting
  /\ c.sets = {} /\ c.fresh = FALSE
  /\ c.step = "load" => c.request \in RetroRequests /\ (c.quiet => f = c.original)
SprintInv ==
  /\ IsDoc(sprintFile) /\ epicDocs \in SprintEpics
  /\ PlanInv(plan, sprintFile) /\ RetroInv(retro, sprintFile)

-----------------------------------------------------------------------------
\* Statuses: which there are, and that their ranks are numbers.
LEMMA LegalFacts ==
  /\ Legal("story") = {"backlog", "ready-for-dev", "in-progress", "review", "done"}
  /\ Legal("epic") = {"backlog", "in-progress", "done"}
  /\ Legal("retro") = {"optional", "done"}
  /\ Legal("other") = {}
  /\ \A kind \in {"story", "epic", "retro", "other"} : \A s \in Legal(kind) : Rank(kind, s) \in Nat /\ Normalized(s) = s
<1>1. Ladder.story = <<"backlog", "ready-for-dev", "in-progress", "review", "done">>
  BY DEF Ladder
<1>2. Ladder.epic = <<"backlog", "in-progress", "done">>
  BY DEF Ladder
<1>3. Ladder.retro = <<"optional", "done">> /\ Ladder.other = <<>>
  BY DEF Ladder
<1>4. Legal("story") = {"backlog", "ready-for-dev", "in-progress", "review", "done"}
  BY <1>1 DEF Legal, ToSet
<1>5. Legal("epic") = {"backlog", "in-progress", "done"}
  BY <1>2 DEF Legal, ToSet
<1>6. Legal("retro") = {"optional", "done"} /\ Legal("other") = {}
  BY <1>3 DEF Legal, ToSet
<1>7. \A kind \in {"story", "epic", "retro", "other"} : DOMAIN Ladder[kind] \subseteq Nat
  BY <1>1, <1>2, <1>3
<1>8. ASSUME NEW kind \in {"story", "epic", "retro", "other"}, NEW s \in Legal(kind)
      PROVE  Rank(kind, s) \in Nat /\ Normalized(s) = s
  <2>1. \E i \in DOMAIN Ladder[kind] : Ladder[kind][i] = s
    BY DEF Legal, ToSet
  <2>2. Rank(kind, s) \in DOMAIN Ladder[kind]
    BY <2>1 DEF Rank
  <2>3. s # "drafted" /\ s # "contexted"
    BY <1>4, <1>5, <1>6
  <2> QED BY <2>2, <2>3, <1>7 DEF Normalized
<1> QED BY <1>4, <1>5, <1>6, <1>8

LEMMA PlanKinds ==
  ASSUME NEW k \in SprintKeys
  PROVE  /\ PlanKind(k) \in {"story", "epic", "retro"} /\ (k.kind = "retro" <=> PlanKind(k) = "retro")
         /\ k.kind # "other" => PlanKind(k) = k.kind
BY SprintAssumption DEF PlanKind

\* What is computed for a planned key is legal, and so is what the merge makes of it:
\* never lower than a legal status that the file had.
LEMMA MergeFacts ==
  ASSUME NEW k \in SprintKeys, NEW raw
  PROVE  LET kind == PlanKind(k)
         IN /\ Computed(k) \in Legal(kind) /\ MergeStatus(k, raw) \in Legal(kind)
            /\ Normalized(raw) \in Legal(kind) => Rank(kind, MergeStatus(k, raw)) >= Rank(kind, Normalized(raw))
<1> DEFINE kind == PlanKind(k)
<1>1. kind \in {"story", "epic", "retro"} /\ (k.kind = "retro" <=> kind = "retro")
  BY PlanKinds
<1>2. Computed(k) \in Legal(kind)
  BY <1>1, LegalFacts DEF Computed
<1> HIDE DEF kind
<1>3. MergeStatus(k, raw) \in Legal(kind)
  BY <1>2 DEF MergeStatus, kind
<1>4. ASSUME Normalized(raw) \in Legal(kind) PROVE Rank(kind, MergeStatus(k, raw)) >= Rank(kind, Normalized(raw))
  <2>1. Rank(kind, Normalized(raw)) \in Nat /\ Rank(kind, Computed(k)) \in Nat
    BY <1>1, <1>2, <1>4, LegalFacts
  <2> QED BY <1>4, <2>1 DEF MergeStatus, kind
<1> QED BY <1>2, <1>3, <1>4 DEF kind

LEMMA PlannedKeys ==
  ASSUME NEW parsed, parsed \subseteq PlannedStories, parsed # {}
  PROVE  ParsedEntries(parsed) # {} /\ ParsedEntries(parsed) \subseteq SprintKeys
BY DEF PlannedStories, ParsedEntries

LEMMA DocFacts ==
  ASSUME NEW dev, NEW items, NEW dated
  PROVE  /\ DOMAIN Doc(dev, items, dated) = {"state", "dev", "items", "dated"} /\ Doc(dev, items, dated).state = "good"
         /\ Doc(dev, items, dated).dev = dev /\ Doc(dev, items, dated).items = items /\ Doc(dev, items, dated).dated = dated
BY DEF Doc

\* The document that generate writes.
LEMMA GeneratedFacts ==
  ASSUME NEW parsed, parsed \subseteq PlannedStories, parsed # {}, NEW dev, NEW sets,
         SetsAreLegal(sets, BuildStatus(parsed, dev)), NEW items \in Seq(Items), NEW dated
  PROVE  LET doc == Doc(WithSets(BuildStatus(parsed, dev), sets), items, dated)
         IN /\ IsDoc(doc) /\ UsableDoc(doc)
            /\ \A k \in DOMAIN dev \cap DOMAIN doc.dev :
                 Normalized(dev[k]) \in Legal(PlanKind(k)) /\ k \notin {p[1] : p \in sets}
                   => Rank(PlanKind(k), Normalized(doc.dev[k])) >= Rank(PlanKind(k), Normalized(dev[k]))
<1> DEFINE built == BuildStatus(parsed, dev)
           new == WithSets(built, sets)
<1>1. /\ DOMAIN new = ParsedEntries(parsed) /\ DOMAIN built = ParsedEntries(parsed)
      /\ ParsedEntries(parsed) \subseteq SprintKeys /\ ParsedEntries(parsed) # {}
  BY PlannedKeys DEF WithSets, BuildStatus
<1>2. \A k \in DOMAIN built : built[k] \in Legal(PlanKind(k))
  BY <1>1, MergeFacts DEF BuildStatus
<1>3. ASSUME NEW k \in DOMAIN new PROVE new[k] \in Legal(PlanKind(k))
  <2>1. CASE \E p \in sets : p[1] = k
    <3> DEFINE p == CHOOSE p \in sets : p[1] = k
    <3>1. p \in sets /\ p[1] = k
      BY <2>1
    <3>2. new[k] = p[2]
      BY <1>1, <1>3, <2>1 DEF WithSets
    <3>3. p[2] \in Legal(p[1].kind)
      BY <3>1 DEF SetsAreLegal
    <3> HIDE DEF p
    <3>4. k.kind # "other"
      BY <3>1, <3>3, LegalFacts
    <3>5. PlanKind(k) = k.kind
      BY <1>1, <1>3, <3>4, PlanKinds
    <3> HIDE DEF new
    <3> QED BY <3>1, <3>2, <3>3, <3>5
  <2>2. CASE ~\E p \in sets : p[1] = k
    <3>1. new[k] = built[k]
      BY <1>1, <1>3, <2>2 DEF WithSets
    <3> QED BY <3>1, <1>1, <1>2, <1>3
  <2> QED BY <2>1, <2>2
<1>4. ASSUME NEW k \in DOMAIN dev \cap DOMAIN new, Normalized(dev[k]) \in Legal(PlanKind(k)), k \notin {p[1] : p \in sets}
      PROVE  Rank(PlanKind(k), Normalized(new[k])) >= Rank(PlanKind(k), Normalized(dev[k]))
  <2>1. k \in SprintKeys /\ PlanKind(k) \in {"story", "epic", "retro"}
    BY <1>1, PlanKinds
  <2>2. new[k] = built[k]
    BY <1>1, <1>4 DEF WithSets
  <2>3. built[k] = MergeStatus(k, dev[k])
    BY <1>1, <1>4 DEF BuildStatus
  <2>4. Normalized(new[k]) = new[k]
    BY <2>1, <1>3, LegalFacts
  <2> HIDE DEF built, new
  <2> QED BY <2>1, <2>2, <2>3, <2>4, <1>4, MergeFacts
<1> DEFINE doc == Doc(new, items, dated)
<1>5. doc = [state |-> "good", dev |-> new, items |-> items, dated |-> dated]
  BY DEF Doc
<1> HIDE DEF built, new
<1>6. IsDoc(doc) /\ UsableDoc(doc)
  BY <1>1, <1>3, <1>5 DEF IsDoc, UsableDoc
<1>7. doc.dev = new
  BY <1>5
<1> HIDE DEF doc
<1>8. \A k \in DOMAIN dev \cap DOMAIN doc.dev :
        Normalized(dev[k]) \in Legal(PlanKind(k)) /\ k \notin {p[1] : p \in sets}
          => Rank(PlanKind(k), Normalized(doc.dev[k])) >= Rank(PlanKind(k), Normalized(dev[k]))
  BY <1>4, <1>7
<1> QED BY <1>6, <1>8 DEF doc, new, built

\* Moving action items and adding some loses none and touches no id and no text.
LEMMA TransitionedFacts ==
  ASSUME NEW updates, \A update \in updates : update.status \in ActionStatuses, NEW items \in Seq(Items)
  PROVE  /\ Transitioned(updates, items) \in Seq(Items) /\ Len(Transitioned(updates, items)) = Len(items)
         /\ \A i \in 1..Len(items) : /\ Transitioned(updates, items)[i].id = items[i].id
                                     /\ Transitioned(updates, items)[i].text = items[i].text
<1> DEFINE moved == Transitioned(updates, items)
           by(i) == {s \in updates : i \in Matches(s, items)}
           one(i) == IF by(i) = {} THEN items[i] ELSE [items[i] EXCEPT !.status = (CHOOSE s \in by(i) : TRUE).status]
<1>1. DOMAIN items = 1..Len(items) /\ Len(items) \in Nat
  BY LenProperties
<1>2. moved = [i \in 1..Len(items) |-> one(i)]
  BY <1>1 DEF Transitioned
<1>3. ASSUME NEW i \in 1..Len(items) PROVE one(i) \in Items /\ one(i).id = items[i].id /\ one(i).text = items[i].text
  <2>1. items[i] \in Items
    BY <1>1
  <2>2. CASE by(i) = {}
    BY <2>1, <2>2
  <2>3. CASE by(i) # {}
    <3> DEFINE status == (CHOOSE s \in by(i) : TRUE).status
    <3>1. status \in ActionStatuses
      BY <2>3
    <3>2. one(i) = [items[i] EXCEPT !.status = status]
      BY <2>3
    <3> HIDE DEF status, one
    <3> QED BY <2>1, <3>1, <3>2 DEF Items
  <2> QED BY <2>2, <2>3
<1> HIDE DEF one
<1>4. moved \in [1..Len(items) -> Items]
  BY <1>2, <1>3
<1>5. moved \in Seq(Items) /\ Len(moved) = Len(items)
  BY <1>1, <1>4
<1> QED BY <1>2, <1>3, <1>5

LEMMA ItemIntro ==
  ASSUME NEW id \in ItemIds, NEW epic \in Nat, NEW text \in STRING
  PROVE  [id |-> id, epic |-> epic, text |-> text, status |-> "open"] \in Items
<1>1. "open" \in ActionStatuses
  BY DEF ActionStatuses
<1> QED BY <1>1 DEF Items

LEMMA AppendedFacts ==
  ASSUME NEW epic \in Nat, NEW adds \in Seq([id : STRING, text : STRING]), NEW items \in Seq(Items)
  PROVE  /\ Appended(epic, adds, items) \in Seq(Items) /\ Len(items) <= Len(Appended(epic, adds, items))
         /\ \A i \in 1..Len(items) : Appended(epic, adds, items)[i] = items[i]
<1> DEFINE one(j) == [id |-> IF adds[j].id # "" THEN adds[j].id ELSE AutoId(epic, Len(items) + j),
                      epic |-> epic, text |-> adds[j].text, status |-> "open"]
           added == [j \in DOMAIN adds |-> one(j)]
<1>1. DOMAIN adds = 1..Len(adds) /\ Len(adds) \in Nat /\ Len(items) \in Nat
  BY LenProperties
<1>2. ASSUME NEW j \in 1..Len(adds) PROVE one(j) \in Items
  <2> DEFINE id == IF adds[j].id # "" THEN adds[j].id ELSE AutoId(epic, Len(items) + j)
  <2>1. adds[j] \in [id : STRING, text : STRING]
    BY ElementOfSeq
  <2>2. adds[j].id \in STRING /\ adds[j].text \in STRING
    BY <2>1
  <2>3. AutoId(epic, Len(items) + j) \in ItemIds
    BY <1>1 DEF ItemIds
  <2>4. id \in ItemIds
    <3>1. id = adds[j].id \/ id = AutoId(epic, Len(items) + j)
      OBVIOUS
    <3>2. adds[j].id \in ItemIds
      BY <2>2 DEF ItemIds
    <3> HIDE DEF id
    <3> QED BY <3>1, <3>2, <2>3
  <2>5. one(j) = [id |-> id, epic |-> epic, text |-> adds[j].text, status |-> "open"]
    OBVIOUS
  <2> HIDE DEF id, one
  <2> QED BY <2>2, <2>4, <2>5, ItemIntro
<1>3. Appended(epic, adds, items) = items \o added
  BY DEF Appended
<1> HIDE DEF one
<1>4. added \in Seq(Items) /\ Len(added) = Len(adds)
  BY <1>1, <1>2
<1> HIDE DEF added
<1> QED BY <1>1, <1>3, <1>4, ConcatProperties

\* The document that update writes.
LEMMA UpdatedFacts ==
  ASSUME NEW r \in RetroRequests, NEW doc, IsDoc(doc), NEW keys, \A k \in keys : k.kind = "retro"
  PROVE  LET dev == [k \in DOMAIN doc.dev |-> IF r.retroDone /\ k \in keys THEN "done" ELSE doc.dev[k]]
             new == Doc(dev, Appended(r.epic, r.adds, Transitioned(r.updates, doc.items)), doc.dated)
         IN IsDoc(new) /\ KeepsItems(doc, new) /\ KeepsProgress(doc, new, {})
<1> DEFINE dev == [k \in DOMAIN doc.dev |-> IF r.retroDone /\ k \in keys THEN "done" ELSE doc.dev[k]]
           moved == Transitioned(r.updates, doc.items)
           items == Appended(r.epic, r.adds, moved)
           new == Doc(dev, items, doc.dated)
<1>1. /\ r.epic \in Nat /\ r.adds \in Seq([id : STRING, text : STRING])
      /\ \A update \in r.updates : update.status \in ActionStatuses
  BY SprintAssumption DEF ActionStatuses
<1>2. doc.items \in Seq(Items) /\ DOMAIN doc.dev \subseteq SprintKeys
  BY DEF IsDoc
<1>3. /\ moved \in Seq(Items) /\ Len(moved) = Len(doc.items)
      /\ \A i \in 1..Len(doc.items) : moved[i].id = doc.items[i].id /\ moved[i].text = doc.items[i].text
  BY <1>1, <1>2, TransitionedFacts
<1> HIDE DEF moved
<1>4. items \in Seq(Items) /\ Len(moved) <= Len(items) /\ \A i \in 1..Len(moved) : items[i] = moved[i]
  BY <1>1, <1>3, AppendedFacts
<1>5. DOMAIN doc.items = 1..Len(doc.items)
  BY <1>2, LenProperties
<1> HIDE DEF items
<1>6. new.dev = dev /\ new.items = items /\ IsDoc(new)
  BY <1>2, <1>4 DEF IsDoc, Doc
<1>7. KeepsItems(doc, new)
  BY <1>3, <1>4, <1>5, <1>6 DEF KeepsItems
<1>8. ASSUME NEW k \in DOMAIN doc.dev, Normalized(doc.dev[k]) \in Legal(PlanKind(k))
      PROVE  Rank(PlanKind(k), Normalized(dev[k])) >= Rank(PlanKind(k), Normalized(doc.dev[k]))
  <2>1. PlanKind(k) \in {"story", "epic", "retro"} /\ (k.kind = "retro" => PlanKind(k) = "retro")
    BY <1>2, PlanKinds
  <2>2. Rank(PlanKind(k), Normalized(doc.dev[k])) \in Nat
    BY <1>8, <2>1, LegalFacts
  <2>3. CASE r.retroDone /\ k \in keys
    <3>1. dev[k] = "done" /\ PlanKind(k) = "retro"
      BY <2>1, <2>3
    <3>2. Normalized("done") = "done"
      BY DEF Normalized
    <3>3. Rank("retro", "done") = 2 /\ Rank("retro", "optional") = 1
      BY DEF Rank, Ladder
    <3> QED BY <1>8, <2>2, <3>1, <3>2, <3>3, LegalFacts
  <2>4. CASE ~(r.retroDone /\ k \in keys)
    <3>1. dev[k] = doc.dev[k]
      BY <2>4
    <3> QED BY <2>2, <3>1
  <2> QED BY <2>3, <2>4
<1>9. KeepsProgress(doc, new, {})
  BY <1>6, <1>8 DEF KeepsProgress
<1> QED BY <1>6, <1>7, <1>9 DEF moved, items

-----------------------------------------------------------------------------
\* A command whose file another writer replaces, and one that ends or is killed.
LEMMA DisturbedFacts ==
  ASSUME NEW c, IsCommand(c), c.quiet \in BOOLEAN
  PROVE  LET d == Disturbed(c) IN
         /\ IsCommand(d) /\ d.quiet = (c.step = "idle")
         /\ d.step = c.step /\ d.docs = c.docs /\ d.loaded = c.loaded /\ d.original = c.original /\ d.new = c.new
         /\ d.fresh = c.fresh /\ d.sets = c.sets /\ d.request = c.request /\ d.restored = c.restored
BY DEF Disturbed, IsCommand

LEMMA EndedFacts ==
  ASSUME NEW c, IsCommand(c), NEW outcome, NEW restored
  PROVE  LET d == Ended(c, outcome, restored) IN
         /\ IsCommand(d) /\ d.step = outcome /\ d.restored = restored
         /\ d.original = c.original /\ d.quiet = c.quiet /\ d.fresh = c.fresh /\ d.sets = c.sets
BY DEF Ended, IsCommand

LEMMA NoDocFacts == IsDoc(NoDoc) /\ IsDoc([NoDoc EXCEPT !.state = "broken"])
BY EmptySeq DEF NoDoc, IsDoc

LEMMA IdleFacts ==
  /\ IsCommand(Idle) /\ Idle.step = "idle" /\ Idle.original = NoDoc /\ Idle.quiet = TRUE /\ Idle.sets = {}
  /\ Idle.fresh = FALSE
BY DEF Idle, IsCommand

LEMMA IdleInv == ASSUME NEW f PROVE PlanInv(Idle, f) /\ RetroInv(Idle, f)
BY IdleFacts, NoDocFacts DEF PlanInv, RetroInv, CommandInv, Acting

LEMMA DisturbedInv ==
  ASSUME NEW c, NEW f, NEW g
  PROVE  /\ PlanInv(c, f) => PlanInv(Disturbed(c), g)
         /\ RetroInv(c, f) => RetroInv(Disturbed(c), g)
<1> DEFINE d == Disturbed(c)
<1>1. ASSUME CommandInv(c, f)
      PROVE  /\ CommandInv(d, g) /\ d.step = c.step /\ d.docs = c.docs /\ d.loaded = c.loaded /\ d.new = c.new
             /\ d.fresh = c.fresh /\ d.sets = c.sets /\ d.request = c.request /\ (d.quiet => c.step = "idle")
  <2>1. /\ IsCommand(d) /\ d.quiet = (c.step = "idle")
        /\ d.step = c.step /\ d.docs = c.docs /\ d.loaded = c.loaded /\ d.original = c.original /\ d.new = c.new
        /\ d.fresh = c.fresh /\ d.sets = c.sets /\ d.request = c.request /\ d.restored = c.restored
    BY <1>1, DisturbedFacts DEF CommandInv
  <2> HIDE DEF d
  <2> QED BY <1>1, <2>1 DEF CommandInv, Acting
<1> HIDE DEF d
<1>2. PlanInv(c, f) => PlanInv(d, g)
  BY <1>1 DEF PlanInv, Acting
<1>3. RetroInv(c, f) => RetroInv(d, g)
  BY <1>1 DEF RetroInv
<1> QED BY <1>2, <1>3 DEF d

\* A command that ends keeps its promise when the file is what it says.
LEMMA EndedInv ==
  ASSUME NEW c, NEW f, CommandInv(c, f), NEW outcome \in {"ok", "failed"}, NEW restored, NEW g,
         c.quiet /\ outcome = "ok" => KeepsTheDoc(c, g),
         c.quiet /\ outcome = "failed" /\ restored => g = c.original
  PROVE  /\ CommandInv(Ended(c, outcome, restored), g)
         /\ Ended(c, outcome, restored).step = outcome /\ Ended(c, outcome, restored).quiet = c.quiet
         /\ Ended(c, outcome, restored).sets = c.sets /\ Ended(c, outcome, restored).fresh = c.fresh
         /\ Ended(c, outcome, restored).original = c.original
<1> DEFINE d == Ended(c, outcome, restored)
<1>1. /\ IsCommand(d) /\ d.step = outcome /\ d.restored = restored
      /\ d.original = c.original /\ d.quiet = c.quiet /\ d.fresh = c.fresh /\ d.sets = c.sets
  BY EndedFacts DEF CommandInv
<1> HIDE DEF d
<1>2. CommandInv(d, g)
  BY <1>1 DEF CommandInv, Acting, KeepsTheDoc
<1> QED BY <1>1, <1>2 DEF d

LEMMA SprintInit_Inv == SprintInit => SprintInv
BY IdleInv, NoDocFacts DEF SprintInit, SprintInv

\* Each action keeps the invariant.
LEMMA PlanLoadInv == ASSUME SprintInv, PlanLoad PROVE SprintInv'
<1>1. PICK fresh \in BOOLEAN, sets \in PlanSets :
        plan' = IF sprintFile.state = "broken"
                THEN [Idle EXCEPT !.step = "failed", !.original = sprintFile]
                ELSE [Idle EXCEPT !.step = "bytes", !.docs = epicDocs, !.loaded = sprintFile, !.fresh = fresh, !.sets = sets]
  BY DEF PlanLoad
<1>2. epicDocs # {} /\ epicDocs \subseteq PlannedStories /\ IsDoc(sprintFile)
  BY SprintAssumption DEF PlanLoad, SprintInv, PlannedStories
<1>3. CASE sprintFile.state = "broken"
  <2>1. /\ IsCommand(plan') /\ plan'.step = "failed" /\ plan'.original = sprintFile /\ plan'.quiet = TRUE
    BY <1>1, <1>3, IdleFacts DEF IsCommand
  <2> QED BY <1>2, <2>1 DEF PlanLoad, SprintInv, PlanInv, CommandInv, Acting
<1>4. CASE sprintFile.state # "broken"
  <2>1. /\ IsCommand(plan') /\ plan'.step = "bytes" /\ plan'.original = NoDoc /\ plan'.quiet = TRUE
        /\ plan'.docs = epicDocs /\ plan'.loaded = sprintFile
    BY <1>1, <1>4, IdleFacts DEF IsCommand
  <2> QED BY <1>2, <2>1, NoDocFacts DEF PlanLoad, SprintInv, PlanInv, CommandInv, Acting
<1> QED BY <1>3, <1>4

LEMMA PlanMergeInv == ASSUME SprintInv, PlanMerge PROVE SprintInv'
<1> DEFINE dev == BuildStatus(plan.docs, IF plan.fresh THEN <<>> ELSE plan.loaded.dev)
           new == Doc(WithSets(dev, plan.sets), plan.loaded.items, plan.loaded.dated)
           read == [plan EXCEPT !.docs = {}, !.original = sprintFile, !.new = new]
<1>1. /\ plan.step = "bytes" /\ UNCHANGED <<sprintFile, epicDocs, retro>>
      /\ \/ SetsAreLegal(plan.sets, dev) /\ plan' = [read EXCEPT !.step = "write"]
         \/ plan' = Ended(read, "failed", TRUE)
  BY DEF PlanMerge
<1>2. /\ CommandInv(plan, sprintFile) /\ IsCommand(plan) /\ plan.quiet \in BOOLEAN /\ IsDoc(sprintFile)
      /\ IsDoc(plan.loaded) /\ plan.docs \subseteq PlannedStories /\ plan.docs # {}
      /\ plan.quiet => sprintFile = plan.loaded
  BY <1>1 DEF SprintInv, PlanInv, CommandInv
<1>3. ASSUME SetsAreLegal(plan.sets, dev), plan' = [read EXCEPT !.step = "write"] PROVE SprintInv'
  <2>1. /\ IsCommand(plan') /\ plan'.step = "write" /\ plan'.original = sprintFile /\ plan'.new = new
        /\ plan'.quiet = plan.quiet /\ plan'.fresh = plan.fresh /\ plan'.sets = plan.sets
    BY <1>2, <1>3 DEF IsCommand
  <2>2. new.items = plan.loaded.items /\ new.dated = plan.loaded.dated
    <3> DEFINE next == WithSets(dev, plan.sets)
    <3>1. new = Doc(next, plan.loaded.items, plan.loaded.dated)
      OBVIOUS
    <3> HIDE DEF next, new
    <3> QED BY <3>1, DocFacts
  <2>3. plan.loaded.items \in Seq(Items)
    BY <1>2 DEF IsDoc
  <2>4. IsDoc(new) /\ UsableDoc(new)
    BY <1>2, <1>3, <2>3, GeneratedFacts
  <2>5. ASSUME ~plan.fresh PROVE KeepsProgress(plan.loaded, new, {p[1] : p \in plan.sets})
    <3>1. dev = BuildStatus(plan.docs, plan.loaded.dev)
      BY <2>5
    <3> HIDE DEF dev
    <3>2. \A k \in DOMAIN plan.loaded.dev \cap DOMAIN new.dev :
            Normalized(plan.loaded.dev[k]) \in Legal(PlanKind(k)) /\ k \notin {p[1] : p \in plan.sets}
              => Rank(PlanKind(k), Normalized(new.dev[k])) >= Rank(PlanKind(k), Normalized(plan.loaded.dev[k]))
      BY <1>2, <1>3, <2>3, <3>1, GeneratedFacts
    <3> QED BY <3>2 DEF KeepsProgress
  <2>6. KeepsItems(plan.loaded, new)
    <3>1. new.items = plan.loaded.items
      BY <2>2
    <3>2. Len(plan.loaded.items) \in Nat
      BY <2>3, LenProperties
    <3> HIDE DEF new
    <3> QED BY <3>1, <3>2 DEF KeepsItems
  <2>7. new.dated = plan.loaded.dated
    BY <2>2
  <2> HIDE DEF new
  <2>8. plan'.quiet => KeepsTheDoc(plan', plan'.new) /\ plan'.new.dated = plan'.original.dated
    BY <1>2, <2>1, <2>5, <2>6, <2>7 DEF KeepsTheDoc
  <2>9. PlanInv(plan', sprintFile)
    BY <1>2, <2>1, <2>4, <2>8 DEF PlanInv, CommandInv, Acting
  <2> QED BY <1>1, <2>9 DEF SprintInv
<1>4. ASSUME plan' = Ended(read, "failed", TRUE) PROVE SprintInv'
  <2>1. IsCommand(read) /\ read.original = sprintFile /\ read.quiet = plan.quiet
    BY <1>2 DEF IsCommand
  <2> HIDE DEF read
  <2>2. IsCommand(plan') /\ plan'.step = "failed" /\ plan'.original = sprintFile /\ plan'.quiet = plan.quiet
    BY <1>4, <2>1 DEF Ended, IsCommand
  <2>3. PlanInv(plan', sprintFile)
    BY <1>2, <2>2 DEF PlanInv, CommandInv, Acting
  <2> QED BY <1>1, <2>3 DEF SprintInv
<1> QED BY <1>1, <1>3, <1>4

\* generate ends, with the file as it is or with its original put back.
LEMMA PlanEndsInv ==
  ASSUME SprintInv, NEW outcome \in {"ok", "failed"}, NEW restored, PlanEnds(outcome, restored),
         IsDoc(sprintFile'), UNCHANGED epicDocs, UNCHANGED <<sprintFile, retro>> \/ retro' = Disturbed(retro),
         plan.quiet /\ outcome = "ok" =>
           KeepsTheDoc(plan, sprintFile') /\ UsableDoc(sprintFile') /\ sprintFile'.dated = plan.original.dated,
         plan.quiet /\ outcome = "failed" /\ restored => sprintFile' = plan.original
  PROVE  SprintInv'
<1>1. CommandInv(plan, sprintFile) /\ plan' = Ended(plan, outcome, restored)
  BY DEF SprintInv, PlanInv, PlanEnds
<1>2. CommandInv(plan', sprintFile') /\ plan'.step = outcome /\ plan'.quiet = plan.quiet /\ plan'.original = plan.original
  BY <1>1, EndedInv
<1>3. PlanInv(plan', sprintFile')
  BY <1>2 DEF PlanInv, Acting
<1>4. RetroInv(retro', sprintFile')
  BY DisturbedInv DEF SprintInv
<1> QED BY <1>3, <1>4 DEF SprintInv

LEMMA PlanWriteInv == ASSUME SprintInv, PlanWrite PROVE SprintInv'
<1>1. /\ plan.step = "write" /\ UNCHANGED epicDocs /\ CommandInv(plan, sprintFile) /\ IsCommand(plan)
      /\ IsDoc(plan.new) /\ UsableDoc(plan.new) /\ (plan.quiet => plan.new.dated = plan.original.dated)
  BY DEF PlanWrite, SprintInv, PlanInv, CommandInv, Acting
<1>2. ASSUME NEW to \in {"verify", "restore"}, plan' = [plan EXCEPT !.step = to], to = "verify" => sprintFile' = plan.new
      PROVE  PlanInv(plan', sprintFile')
  <2>1. /\ IsCommand(plan') /\ plan'.step = to /\ plan'.original = plan.original /\ plan'.new = plan.new
        /\ plan'.quiet = plan.quiet /\ plan'.fresh = plan.fresh /\ plan'.sets = plan.sets
    BY <1>1, <1>2 DEF IsCommand
  <2> QED BY <1>1, <1>2, <2>1 DEF PlanInv, CommandInv, Acting, KeepsTheDoc
<1>3. CASE ReplaceByPlan(plan.new) /\ plan' = [plan EXCEPT !.step = "verify"]
  <2>1. PlanInv(plan', sprintFile') /\ sprintFile' = plan.new /\ retro' = Disturbed(retro)
    BY <1>2, <1>3 DEF ReplaceByPlan
  <2>2. RetroInv(retro', sprintFile')
    BY <2>1, DisturbedInv DEF SprintInv
  <2> QED BY <1>1, <2>1, <2>2 DEF SprintInv
<1>4. CASE UNCHANGED <<sprintFile, retro>> /\ plan' = [plan EXCEPT !.step = "restore"]
  <2>1. PlanInv(plan', sprintFile')
    BY <1>2, <1>4
  <2> QED BY <1>1, <1>4, <2>1 DEF SprintInv
<1> QED BY <1>3, <1>4 DEF PlanWrite

LEMMA PlanVerifyInv == ASSUME SprintInv, PlanVerify PROVE SprintInv'
<1>1. /\ plan.step = "verify" /\ UNCHANGED <<sprintFile, epicDocs, retro>> /\ CommandInv(plan, sprintFile)
      /\ IsCommand(plan) /\ UsableDoc(plan.new) /\ IsDoc(sprintFile)
      /\ plan.quiet => KeepsTheDoc(plan, plan.new) /\ sprintFile = plan.new /\ plan.new.dated = plan.original.dated
  BY DEF PlanVerify, SprintInv, PlanInv, CommandInv, Acting
<1>2. CASE PlanEnds("ok", FALSE)
  BY <1>1, <1>2, PlanEndsInv
<1>3. CASE plan' = [plan EXCEPT !.step = "restore"]
  <2>1. /\ IsCommand(plan') /\ plan'.step = "restore" /\ plan'.original = plan.original /\ plan'.new = plan.new
        /\ plan'.quiet = plan.quiet /\ plan'.fresh = plan.fresh /\ plan'.sets = plan.sets
    BY <1>1, <1>3 DEF IsCommand
  <2>2. PlanInv(plan', sprintFile)
    BY <1>1, <2>1 DEF PlanInv, CommandInv, Acting, KeepsTheDoc
  <2> QED BY <1>1, <2>2 DEF SprintInv
<1> QED BY <1>2, <1>3 DEF PlanVerify

LEMMA PlanRestoreInv == ASSUME SprintInv, PlanRestore PROVE SprintInv'
<1>1. UNCHANGED epicDocs /\ IsDoc(plan.original) /\ IsDoc(sprintFile)
  BY DEF PlanRestore, SprintInv, PlanInv, CommandInv
<1>2. CASE ReplaceByPlan(plan.original) /\ PlanEnds("failed", TRUE)
  <2>1. sprintFile' = plan.original /\ retro' = Disturbed(retro)
    BY <1>2 DEF ReplaceByPlan
  <2> QED BY <1>1, <1>2, <2>1, PlanEndsInv
<1>3. CASE UNCHANGED <<sprintFile, retro>> /\ PlanEnds("failed", FALSE)
  BY <1>1, <1>3, PlanEndsInv
<1> QED BY <1>2, <1>3 DEF PlanRestore

LEMMA RetroBytesInv == ASSUME SprintInv, RetroBytes PROVE SprintInv'
<1>1. PICK r \in RetroRequests :
        retro' = [Idle EXCEPT !.request = r, !.original = sprintFile,
                              !.step = IF sprintFile.state = "none" THEN "failed" ELSE "load"]
  BY DEF RetroBytes
<1>2. /\ IsCommand(retro') /\ retro'.step \in {"failed", "load"} /\ retro'.original = sprintFile
      /\ retro'.quiet = TRUE /\ retro'.sets = {} /\ retro'.fresh = FALSE /\ retro'.request = r
  BY <1>1, IdleFacts DEF IsCommand
<1> QED BY <1>2 DEF RetroBytes, SprintInv, RetroInv, CommandInv, Acting

\* update ends, with the file as it is or with its original put back.
LEMMA RetroEndsInv ==
  ASSUME SprintInv, NEW outcome \in {"ok", "failed"}, NEW restored, RetroEnds(outcome, restored),
         IsDoc(sprintFile'), UNCHANGED epicDocs, UNCHANGED <<sprintFile, plan>> \/ plan' = Disturbed(plan),
         retro.quiet /\ outcome = "ok" => KeepsTheDoc(retro, sprintFile'),
         retro.quiet /\ outcome = "failed" /\ restored => sprintFile' = retro.original
  PROVE  SprintInv'
<1>1. /\ CommandInv(retro, sprintFile) /\ retro' = Ended(retro, outcome, restored)
      /\ retro.sets = {} /\ retro.fresh = FALSE
  BY DEF SprintInv, RetroInv, RetroEnds
<1>2. CommandInv(retro', sprintFile') /\ retro'.step = outcome /\ retro'.sets = {} /\ retro'.fresh = FALSE
  BY <1>1, EndedInv
<1>3. RetroInv(retro', sprintFile')
  BY <1>2 DEF RetroInv
<1>4. PlanInv(plan', sprintFile')
  BY DisturbedInv DEF SprintInv
<1> QED BY <1>3, <1>4 DEF SprintInv

LEMMA RetroLoadInv == ASSUME SprintInv, RetroLoad PROVE SprintInv'
<1> DEFINE r == retro.request
           keys == RetroKey(r.epic) \cap DOMAIN sprintFile.dev
           dev == [k \in DOMAIN sprintFile.dev |-> IF r.retroDone /\ k \in keys THEN "done" ELSE sprintFile.dev[k]]
           items == Appended(r.epic, r.adds, Transitioned(r.updates, sprintFile.items))
           new == Doc(dev, items, sprintFile.dated)
<1>1. /\ retro.step = "load" /\ UNCHANGED <<sprintFile, epicDocs, plan>>
      /\ \/ retro' = [retro EXCEPT !.step = "write", !.loaded = sprintFile, !.new = new]
         \/ RetroEnds("failed", TRUE)
  BY DEF RetroLoad, RetroEnds
<1>2. /\ IsDoc(sprintFile) /\ r \in RetroRequests /\ CommandInv(retro, sprintFile) /\ IsCommand(retro)
      /\ retro.sets = {} /\ retro.fresh = FALSE /\ (retro.quiet => sprintFile = retro.original)
  BY <1>1 DEF SprintInv, RetroInv, CommandInv
<1>3. CASE RetroEnds("failed", TRUE)
  BY <1>1, <1>2, <1>3, RetroEndsInv
<1>4. CASE retro' = [retro EXCEPT !.step = "write", !.loaded = sprintFile, !.new = new]
  <2>1. IsDoc(new) /\ KeepsItems(sprintFile, new) /\ KeepsProgress(sprintFile, new, {})
    <3>1. \A k \in keys : k.kind = "retro"
      BY DEF RetroKey
    <3> QED BY <1>2, <3>1, UpdatedFacts
  <2> HIDE DEF new
  <2>2. /\ IsCommand(retro') /\ retro'.step = "write" /\ retro'.original = retro.original /\ retro'.new = new
        /\ retro'.quiet = retro.quiet /\ retro'.fresh = retro.fresh /\ retro'.sets = retro.sets
    BY <1>2, <1>4 DEF IsCommand
  <2>3. {p[1] : p \in {}} = {}
    OBVIOUS
  <2>4. retro'.quiet => KeepsTheDoc(retro', retro'.new)
    BY <1>2, <2>1, <2>2, <2>3 DEF KeepsTheDoc
  <2>5. RetroInv(retro', sprintFile)
    BY <1>2, <2>1, <2>2, <2>4 DEF RetroInv, CommandInv, Acting
  <2> QED BY <1>1, <2>5 DEF SprintInv
<1> QED BY <1>1, <1>3, <1>4

LEMMA RetroMoves ==
  ASSUME SprintInv, NEW from \in Acting, NEW to \in {"verify", "restore"}, retro.step = from,
         retro' = [retro EXCEPT !.step = to], to = "verify" => sprintFile' = retro.new
  PROVE  RetroInv(retro', sprintFile')
<1>1. CommandInv(retro, sprintFile) /\ IsCommand(retro) /\ retro.sets = {} /\ retro.fresh = FALSE
  BY DEF SprintInv, RetroInv, CommandInv
<1>2. /\ IsCommand(retro') /\ retro'.step = to /\ retro'.original = retro.original /\ retro'.new = retro.new
      /\ retro'.quiet = retro.quiet /\ retro'.fresh = retro.fresh /\ retro'.sets = retro.sets
  BY <1>1 DEF IsCommand
<1> QED BY <1>1, <1>2 DEF RetroInv, CommandInv, Acting, KeepsTheDoc

LEMMA RetroWriteInv == ASSUME SprintInv, RetroWrite PROVE SprintInv'
<1>1. /\ retro.step = "write" /\ UNCHANGED epicDocs /\ IsDoc(retro.new) /\ IsDoc(sprintFile)
      /\ retro.quiet => sprintFile = retro.original
  BY DEF RetroWrite, SprintInv, RetroInv, CommandInv, Acting
<1>2. CASE ReplaceByRetro(retro.new) /\ retro' = [retro EXCEPT !.step = "verify"]
  <2>1. sprintFile' = retro.new /\ plan' = Disturbed(plan)
    BY <1>2 DEF ReplaceByRetro
  <2>2. RetroInv(retro', sprintFile') /\ PlanInv(plan', sprintFile')
    BY <1>1, <1>2, <2>1, RetroMoves, DisturbedInv DEF SprintInv, Acting
  <2> QED BY <1>1, <2>1, <2>2 DEF SprintInv
<1>3. CASE UNCHANGED <<sprintFile, plan>> /\ RetroEnds("failed", TRUE)
  BY <1>1, <1>3, RetroEndsInv
<1> QED BY <1>2, <1>3 DEF RetroWrite

LEMMA RetroVerifyInv == ASSUME SprintInv, RetroVerify PROVE SprintInv'
<1>1. /\ retro.step = "verify" /\ UNCHANGED <<sprintFile, epicDocs, plan>> /\ IsDoc(sprintFile)
      /\ retro.quiet => KeepsTheDoc(retro, retro.new) /\ sprintFile = retro.new
  BY DEF RetroVerify, SprintInv, RetroInv, CommandInv, Acting
<1>2. CASE RetroEnds("ok", FALSE)
  BY <1>1, <1>2, RetroEndsInv
<1>3. CASE retro' = [retro EXCEPT !.step = "restore"]
  <2>1. RetroInv(retro', sprintFile')
    BY <1>1, <1>3, RetroMoves DEF Acting
  <2> QED BY <1>1, <2>1 DEF SprintInv
<1> QED BY <1>2, <1>3 DEF RetroVerify

LEMMA RetroRestoreInv == ASSUME SprintInv, RetroRestore PROVE SprintInv'
<1>1. UNCHANGED epicDocs /\ IsDoc(retro.original) /\ IsDoc(sprintFile)
  BY DEF RetroRestore, SprintInv, RetroInv, CommandInv
<1>2. CASE ReplaceByRetro(retro.original) /\ RetroEnds("failed", TRUE)
  <2>1. sprintFile' = retro.original /\ plan' = Disturbed(plan)
    BY <1>2 DEF ReplaceByRetro
  <2> QED BY <1>1, <1>2, <2>1, RetroEndsInv
<1>3. CASE UNCHANGED <<sprintFile, plan>> /\ RetroEnds("failed", FALSE)
  BY <1>1, <1>3, RetroEndsInv
<1> QED BY <1>2, <1>3 DEF RetroRestore

LEMMA SprintKilledInv == ASSUME SprintInv, PlanKilled \/ RetroKilled PROVE SprintInv'
BY IdleInv DEF SprintInv, PlanKilled, RetroKilled

LEMMA HandEditInv == ASSUME SprintInv, HandEdit PROVE SprintInv'
<1>1. CASE UNCHANGED <<sprintFile, plan, retro>>
  <2>1. epicDocs' \in SprintEpics
    BY DEF HandEdit, SprintInv
  <2> QED BY <1>1, <2>1 DEF SprintInv
<1>2. ASSUME plan' = Disturbed(plan), retro' = Disturbed(retro), UNCHANGED epicDocs, IsDoc(sprintFile')
      PROVE  SprintInv'
  BY <1>2, DisturbedInv DEF SprintInv
<1>3. ASSUME NEW k \in SprintKeys, NEW s,
             sprintFile' = [sprintFile EXCEPT !.dev =
                  [x \in DOMAIN sprintFile.dev \cup {k} |-> IF x = k THEN s ELSE sprintFile.dev[x]]]
      PROVE  IsDoc(sprintFile')
  <2> DEFINE dev == [x \in DOMAIN sprintFile.dev \cup {k} |-> IF x = k THEN s ELSE sprintFile.dev[x]]
  <2>1. IsDoc(sprintFile) /\ DOMAIN dev = DOMAIN sprintFile.dev \cup {k}
    BY DEF SprintInv
  <2>2. sprintFile' = [sprintFile EXCEPT !.dev = dev]
    BY <1>3
  <2> HIDE DEF dev
  <2> QED BY <2>1, <2>2 DEF IsDoc
<1>4. ASSUME sprintFile' = [sprintFile EXCEPT !.dated = FALSE] PROVE IsDoc(sprintFile')
  <2>1. IsDoc(sprintFile)
    BY DEF SprintInv
  <2> QED BY <1>4, <2>1 DEF IsDoc
<1> QED BY <1>1, <1>2, <1>3, <1>4, NoDocFacts DEF HandEdit

LEMMA SprintStepInv == ASSUME SprintInv, [SprintNext]_sprintVars PROVE SprintInv'
<1>1. CASE UNCHANGED sprintVars
  BY <1>1 DEF sprintVars, SprintInv
<1>2. CASE SprintNext
  BY <1>2, PlanLoadInv, PlanMergeInv, PlanWriteInv, PlanVerifyInv, PlanRestoreInv, RetroBytesInv, RetroLoadInv,
     RetroWriteInv, RetroVerifyInv, RetroRestoreInv, SprintKilledInv, HandEditInv DEF SprintNext
<1> QED BY <1>1, <1>2

\* A file with legal statuses: what the readers recognize of it is legal, they accept it when
\* they recognize all of it, and when it leaves nothing open its stories are done.
LEMMA UsableFacts ==
  ASSUME NEW f, IsDoc(f), UsableDoc(f)
  PROVE  /\ \A k \in Recognized(f.dev) : IsLegal(f.dev, k)
         /\ Recognized(f.dev) = DOMAIN f.dev /\ f.dated => Valid([f EXCEPT !.items = <<>>])
         /\ AllDone(f.dev) => \A e \in {k.epic : k \in SprintKeys} : Pending(f.dev, e) = {}
<1>1. \A k \in Recognized(f.dev) : /\ k \in DOMAIN f.dev /\ f.dev[k] \in Legal(k.kind)
                                    /\ IsLegal(f.dev, k) /\ Normalized(f.dev[k]) = f.dev[k]
  <2> TAKE k \in Recognized(f.dev)
  <2>1. k \in DOMAIN f.dev /\ k \in SprintKeys /\ k.kind # "other" /\ f.dev[k] \in Legal(PlanKind(k))
    BY DEF UsableDoc, Recognized
  <2>2. PlanKind(k) = k.kind /\ k.kind \in {"story", "epic", "retro"}
    BY <2>1, PlanKinds
  <2> QED BY <2>1, <2>2, LegalFacts DEF IsLegal
<1>2. ASSUME Recognized(f.dev) = DOMAIN f.dev, f.dated PROVE Valid([f EXCEPT !.items = <<>>])
  <2> DEFINE g == [f EXCEPT !.items = <<>>]
  <2>1. g.state = "good" /\ g.dev = f.dev /\ g.items = <<>>
    BY DEF IsDoc, UsableDoc
  <2>2. g.dated
    <3>1. g.dated = f.dated
      BY Zenon DEF IsDoc
    <3> QED BY <1>2, <3>1
  <2> HIDE DEF g
  <2>3. Recognized(g.dev) = DOMAIN g.dev
    BY <1>2, <2>1
  <2>4. \A k \in DOMAIN g.dev : IsLegal(g.dev, k)
    BY <1>1, <1>2, <2>1
  <2> QED BY <2>1, <2>2, <2>3, <2>4 DEF Valid, UsableDoc, g
<1>3. ASSUME AllDone(f.dev) PROVE \A e : Pending(f.dev, e) = {}
  <2> DEFINE open == {i \in DOMAIN Wanted : Stories(f.dev, Wanted[i]) # {}}
             first == CHOOSE i \in open : \A j \in open : i <= j
  <2>1. open = {}
    <3> SUFFICES ASSUME open # {} PROVE FALSE
      OBVIOUS
    <3>1. open \subseteq 1..4
      BY DEF Wanted
    <3> HIDE DEF open
    <3>2. \E i \in open : \A j \in open : i <= j
      <4>1. CASE 1 \in open
        BY <3>1, <4>1
      <4>2. CASE 1 \notin open /\ 2 \in open
        BY <3>1, <4>2
      <4>3. CASE 1 \notin open /\ 2 \notin open /\ 3 \in open
        BY <3>1, <4>3
      <4>4. CASE 1 \notin open /\ 2 \notin open /\ 3 \notin open
        <5>1. \A i \in open : i = 4
          BY <3>1, <4>4
        <5> QED BY <5>1
      <4> QED BY <4>1, <4>2, <4>3, <4>4
    <3>3. first \in open
      BY <3>2
    <3> HIDE DEF first
    <3>4. Stories(f.dev, Wanted[first]) # {}
      BY <3>3 DEF open
    <3> QED BY <1>3, <3>4 DEF AllDone, Recommended, open, first
  <2>2. /\ Stories(f.dev, "in-progress") = {} /\ Stories(f.dev, "review") = {}
        /\ Stories(f.dev, "ready-for-dev") = {} /\ Stories(f.dev, "backlog") = {}
    BY <2>1 DEF Wanted
  <2>3. ASSUME NEW k \in DOMAIN f.dev, k.kind = "story" PROVE f.dev[k] = "done"
    <3>1. k \in Recognized(f.dev)
      BY <2>3 DEF Recognized
    <3> QED BY <1>1, <2>2, <2>3, <3>1, LegalFacts DEF Stories
  <2> QED BY <2>3 DEF Pending
<1> QED BY <1>1, <1>2, <1>3

LEMMA SprintInvImplies == SprintInv => CommandIsAllOrNothing /\ GeneratedIsUsable
<1> SUFFICES ASSUME SprintInv PROVE CommandIsAllOrNothing /\ GeneratedIsUsable
  OBVIOUS
<1>1. Undisturbed(plan, {p[1] : p \in plan.sets})
  BY DEF SprintInv, PlanInv, CommandInv, KeepsTheDoc, Undisturbed
<1>2. Undisturbed(retro, {})
  <2>1. {p[1] : p \in {}} = {}
    OBVIOUS
  <2>2. CommandInv(retro, sprintFile) /\ retro.sets = {}
    BY DEF SprintInv, RetroInv
  <2> QED BY <2>1, <2>2 DEF CommandInv, KeepsTheDoc, Undisturbed
<1>3. GeneratedIsUsable
  BY UsableFacts DEF GeneratedIsUsable, SprintInv, PlanInv
<1> QED BY <1>1, <1>2, <1>3 DEF CommandIsAllOrNothing
-----------------------------------------------------------------------------
(***************************************************************************)
(* Setting up a module.                                                    *)
(***************************************************************************)
SetupSteps == {"config", "user", "own", "core"}

\* The answers of the running setup hold a value for what the old files of its module
\* and of the core still say.
AnswersCover(answers, m) ==
  /\ DOMAIN legacy[m].values \cap CoreKeys \subseteq DOMAIN answers.core
  /\ DOMAIN legacy["core"].values \cap CoreKeys \subseteq DOMAIN answers.core
  /\ DOMAIN legacy[m].values \cap ModuleVars \subseteq DOMAIN answers.module

SetupFields == {"step", "module", "answers", "new"}
InstallInv ==
  /\ DOMAIN legacy = Directories
  /\ DOMAIN merger = SetupFields /\ DOMAIN helper = SetupFields /\ DOMAIN cleaner = SetupFields
  /\ helper.module = merger.module /\ cleaner.module = merger.module
  /\ merger.step \in SetupSteps => merger.module \in Modules /\ AnswersCover(merger.answers, merger.module)
  /\ merger.step = "config" => merger.new = MergeConfig(config, merger.module, merger.answers)
  /\ merger.step \in SetupSteps \ {"config"} =>
       /\ DOMAIN merger.answers.core \cap SharedKeys \subseteq DOMAIN config.core
       /\ merger.module \in DOMAIN config.sections
       /\ DOMAIN merger.answers.module \subseteq DOMAIN config.sections[merger.module]
  /\ merger.step \in {"own", "core"} => DOMAIN merger.answers.core \cap CoreUserKeys \subseteq DOMAIN userConfig
  /\ merger.step \in {"core", "done"} => ~legacy[merger.module].there
  /\ merger.step = "done" => merger.module \in Modules /\ ~legacy["core"].there
  /\ cleaner.step = "remove" => merger.step = "done"

LEMMA InstallInit_Inv == InstallInit => InstallInv
<1> SUFFICES ASSUME InstallInit PROVE InstallInv
  OBVIOUS
<1>1. DOMAIN Rest = SetupFields /\ Rest.step = "idle"
  BY DEF Rest, SetupFields
<1>2. DOMAIN legacy = Directories
  BY InstallAssumption DEF InstallInit, Directories
<1>3. merger = Rest /\ helper = Rest /\ cleaner = Rest
  BY DEF InstallInit
<1> QED BY <1>1, <1>2, <1>3 DEF InstallInv, SetupSteps

\* What a new config.yaml holds.
LEMMA MergeConfigFacts ==
  ASSUME NEW old, NEW m, NEW answers
  PROVE  LET new == MergeConfig(old, m, answers) IN
         /\ DOMAIN answers.core \cap SharedKeys \subseteq DOMAIN new.core
         /\ m \in DOMAIN new.sections /\ new.sections[m] = answers.module
         /\ \A x \in DOMAIN old.sections : x # m => x \in DOMAIN new.sections /\ new.sections[x] = old.sections[x]
BY DEF MergeConfig, Over, Only

LEMMA WithLegacyAnswers ==
  ASSUME NEW q, NEW m
  PROVE  AnswersCover(WithLegacy(q, m), m)
BY DEF AnswersCover, WithLegacy, LegacyCore, LegacyModule, Over, Only

LEMMA GoneFacts == DOMAIN Gone.values = {} /\ ~Gone.there
BY DEF Gone

LEMMA StartSetupInv == ASSUME InstallInv, StartSetup PROVE InstallInv'
<1>1. PICK m \in Modules, q \in Questions :
        /\ merger' = [step |-> "config", module |-> m, answers |-> WithLegacy(q, m),
                      new |-> MergeConfig(config, m, WithLegacy(q, m))]
        /\ helper' = [Rest EXCEPT !.step = "rows", !.module = m]
        /\ cleaner' = [Rest EXCEPT !.module = m]
  BY DEF StartSetup
<1>2. /\ DOMAIN merger' = SetupFields /\ merger'.step = "config" /\ merger'.module = m /\ merger'.answers = WithLegacy(q, m)
      /\ merger'.new = MergeConfig(config, m, WithLegacy(q, m))
  BY <1>1 DEF SetupFields
<1>3. /\ DOMAIN helper' = SetupFields /\ helper'.module = m
      /\ DOMAIN cleaner' = SetupFields /\ cleaner'.module = m /\ cleaner'.step = "idle"
  BY <1>1 DEF SetupFields, Rest
<1>4. UNCHANGED <<config, userConfig, legacy>>
  BY DEF StartSetup
<1>5. AnswersCover(merger.answers, merger.module)'
  BY <1>2, <1>4, WithLegacyAnswers DEF AnswersCover
<1> QED BY <1>2, <1>3, <1>4, <1>5 DEF InstallInv, SetupSteps

\* A step of merge-config: only its step, its files and the old ones move.
LEMMA MergerMoves ==
  ASSUME InstallInv, NEW from, NEW to, MergerAt(from, to)
  PROVE  /\ DOMAIN merger' = SetupFields /\ merger.step = from /\ merger'.step = to /\ merger'.module = merger.module
         /\ merger'.answers = merger.answers /\ merger'.new = merger.new
BY DEF InstallInv, MergerAt, SetupFields

LEMMA WriteConfigInv == ASSUME InstallInv, WriteConfig PROVE InstallInv'
<1>1. /\ UNCHANGED <<userConfig, legacy, helper, cleaner>> /\ config' = merger.new /\ merger.step = "config"
      /\ MergerAt("config", "user")
  BY DEF WriteConfig, KeepHelp, KeepClean, MergerAt
<1>2. config' = MergeConfig(config, merger.module, merger.answers) /\ AnswersCover(merger.answers, merger.module)
  BY <1>1 DEF InstallInv, SetupSteps
<1>3. /\ DOMAIN merger.answers.core \cap SharedKeys \subseteq DOMAIN config'.core
      /\ merger.module \in DOMAIN config'.sections /\ config'.sections[merger.module] = merger.answers.module
  BY <1>2, MergeConfigFacts
<1>4. /\ DOMAIN merger' = SetupFields /\ merger'.step = "user" /\ merger'.module = merger.module
      /\ merger'.answers = merger.answers
  BY <1>1, MergerMoves
<1>5. AnswersCover(merger.answers, merger.module)'
  BY <1>1, <1>2, <1>4 DEF AnswersCover
<1> QED BY <1>1, <1>3, <1>4, <1>5 DEF InstallInv, SetupSteps

LEMMA WriteUserConfigInv == ASSUME InstallInv, WriteUserConfig PROVE InstallInv'
<1>1. /\ UNCHANGED <<config, legacy, helper, cleaner>> /\ userConfig' = Over(userConfig, UserSettings(merger.answers))
      /\ merger.step = "user" /\ MergerAt("user", "own")
  BY DEF WriteUserConfig, KeepHelp, KeepClean, MergerAt
<1>2. DOMAIN merger.answers.core \cap CoreUserKeys \subseteq DOMAIN userConfig'
  BY <1>1 DEF Over, UserSettings, Only
<1>3. /\ DOMAIN merger' = SetupFields /\ merger'.step = "own" /\ merger'.module = merger.module
      /\ merger'.answers = merger.answers
  BY <1>1, MergerMoves
<1>4. AnswersCover(merger.answers, merger.module)'
  BY <1>1, <1>3 DEF AnswersCover, InstallInv, SetupSteps
<1> QED BY <1>1, <1>2, <1>3, <1>4 DEF InstallInv, SetupSteps

LEMMA DropLegacyInv == ASSUME InstallInv, DropOwnLegacy \/ DropCoreLegacy PROVE InstallInv'
<1> DEFINE d == IF merger.step = "own" THEN merger.module ELSE "core"
           to == IF merger.step = "own" THEN "core" ELSE "done"
<1>1. /\ UNCHANGED <<config, userConfig, helper, cleaner>> /\ merger.step \in {"own", "core"}
      /\ legacy' = [legacy EXCEPT ![d] = Gone] /\ MergerAt(merger.step, to)
  BY DEF DropOwnLegacy, DropCoreLegacy, KeepHelp, KeepClean, MergerAt
<1>2. merger.module \in Modules /\ d \in Directories /\ merger.module \in Directories /\ "core" \in Directories
  BY <1>1 DEF InstallInv, SetupSteps, Directories
<1>3. /\ DOMAIN merger' = SetupFields /\ merger'.step = to /\ merger'.module = merger.module
      /\ merger'.answers = merger.answers
  BY <1>1, MergerMoves
<1>4. AnswersCover(merger.answers, merger.module) /\ DOMAIN legacy = Directories
  BY <1>1 DEF InstallInv, SetupSteps
<1>5. AnswersCover(merger.answers, merger.module)'
  <2>1. DOMAIN legacy'[merger.module].values \subseteq DOMAIN legacy[merger.module].values
    BY <1>1, <1>2, <1>4, GoneFacts
  <2>2. DOMAIN legacy'["core"].values \subseteq DOMAIN legacy["core"].values
    BY <1>1, <1>2, <1>4, GoneFacts
  <2> QED BY <1>3, <1>4, <2>1, <2>2 DEF AnswersCover
<1>6. /\ DOMAIN legacy' = Directories
      /\ to = "core" => ~legacy'[merger.module].there
      /\ to = "done" => ~legacy'["core"].there /\ ~legacy'[merger.module].there
  BY <1>1, <1>2, <1>4, GoneFacts DEF InstallInv
<1> QED BY <1>1, <1>3, <1>5, <1>6 DEF InstallInv, SetupSteps

LEMMA MergerDiesInv == ASSUME InstallInv, TornConfig \/ TornUserConfig \/ MergerDies PROVE InstallInv'
<1>1. /\ UNCHANGED <<legacy, helper, cleaner>> /\ merger.step \in SetupSteps /\ MergerAt(merger.step, "dead")
  BY DEF TornConfig, TornUserConfig, MergerDies, KeepHelp, KeepClean, MergerAt, SetupSteps
<1>2. DOMAIN merger' = SetupFields /\ merger'.step = "dead" /\ merger'.module = merger.module
  BY <1>1, MergerMoves
<1> QED BY <1>1, <1>2 DEF InstallInv, SetupSteps

LEMMA HelpInv == ASSUME InstallInv, MergeHelp \/ TornHelp \/ DropOldHelp PROVE InstallInv'
<1>1. UNCHANGED <<config, userConfig, legacy, merger, cleaner>>
  BY DEF MergeHelp, TornHelp, DropOldHelp, KeepMerge, KeepClean
<1>2. PICK to : helper' = [helper EXCEPT !.step = to]
  BY DEF MergeHelp, TornHelp, DropOldHelp, HelperAt
<1>3. DOMAIN helper' = SetupFields /\ helper'.module = helper.module
  BY <1>2 DEF InstallInv, SetupFields
<1> QED BY <1>1, <1>3 DEF InstallInv, AnswersCover

LEMMA StartCleanupInv == ASSUME InstallInv, StartCleanup PROVE InstallInv'
<1>1. UNCHANGED <<config, userConfig, legacy, merger, helper>> /\ merger.step = "done"
  BY DEF StartCleanup, KeepMerge, KeepHelp
<1>2. PICK to : cleaner' = [cleaner EXCEPT !.step = to]
  BY DEF StartCleanup
<1>3. DOMAIN cleaner' = SetupFields /\ cleaner'.module = cleaner.module
  BY <1>2 DEF InstallInv, SetupFields
<1> QED BY <1>1, <1>3 DEF InstallInv, SetupSteps

\* What cleanup-legacy removes had gone before it ran, but for the directory itself.
LEMMA RemovedWasGone ==
  ASSUME InstallInv, RemoveDir
  PROVE  /\ UNCHANGED <<config, userConfig, merger, helper>> /\ merger.step = "done"
         /\ \/ UNCHANGED <<legacy, oldDirs>>
            \/ \E d \in {merger.module, "core"} \cap oldDirs :
                 legacy' = [legacy EXCEPT ![d] = Gone] /\ oldDirs' = oldDirs \ {d} /\ ~legacy[d].there
BY DEF RemoveDir, Removed, InstallInv

LEMMA RemoveDirInv == ASSUME InstallInv, RemoveDir PROVE InstallInv'
<1>1. UNCHANGED <<config, userConfig, merger, helper>> /\ merger.step = "done" /\ ~legacy["core"].there
      /\ ~legacy[merger.module].there /\ DOMAIN legacy = Directories
  BY RemovedWasGone DEF InstallInv
<1>2. DOMAIN legacy' = Directories /\ ~legacy'["core"].there /\ ~legacy'[merger.module].there
  <2>1. CASE UNCHANGED legacy
    BY <1>1, <2>1
  <2>2. CASE \E d \in {merger.module, "core"} \cap oldDirs : legacy' = [legacy EXCEPT ![d] = Gone]
    <3>1. PICK d : legacy' = [legacy EXCEPT ![d] = Gone]
      BY <2>2
    <3>2. DOMAIN legacy' = Directories
      BY <1>1, <3>1
    <3>3. ASSUME NEW e \in {"core", merger.module}, legacy'[e].there PROVE FALSE
      <4>1. e \in Directories => legacy'[e] = IF e = d THEN Gone ELSE legacy[e]
        BY <1>1, <3>1
      <4>2. e \in Directories
        BY <1>1 DEF InstallInv, Directories
      <4> QED BY <1>1, <3>3, <4>1, <4>2, GoneFacts
    <3> QED BY <3>2, <3>3
  <2> QED BY <2>1, <2>2, RemovedWasGone
<1>3. cleaner' = cleaner \/ \E to \in {"done", "dead"} : cleaner' = [cleaner EXCEPT !.step = to]
  BY DEF RemoveDir
<1>4. DOMAIN cleaner' = SetupFields /\ cleaner'.module = cleaner.module
  BY <1>3 DEF InstallInv, SetupFields
<1> QED BY <1>1, <1>2, <1>4 DEF InstallInv, SetupSteps

LEMMA InstallStepInv == ASSUME InstallInv, [InstallNext]_installVars PROVE InstallInv'
<1>1. CASE UNCHANGED installVars
  BY <1>1 DEF installVars, InstallInv, AnswersCover
<1>2. CASE InstallNext
  BY <1>2, StartSetupInv, WriteConfigInv, WriteUserConfigInv, DropLegacyInv, MergerDiesInv, HelpInv, StartCleanupInv,
     RemoveDirInv DEF InstallNext
<1> QED BY <1>1, <1>2

LEMMA LegacyGoesByDrop ==
  ASSUME InstallInv, InstallNext
  PROVE  \/ UNCHANGED legacy
         \/ DropOwnLegacy \/ DropCoreLegacy \/ RemoveDir
BY DEF InstallNext, StartSetup, WriteConfig, TornConfig, WriteUserConfig, TornUserConfig, MergerDies, MergeHelp, TornHelp, DropOldHelp,
   StartCleanup, KeepMerge

Migrated ==
  \A d \in Directories : legacy[d].there /\ ~legacy'[d].there =>
     /\ DOMAIN Only(legacy[d].values, SharedKeys) \subseteq DOMAIN config.core
     /\ DOMAIN Only(legacy[d].values, CoreUserKeys) \subseteq DOMAIN userConfig
     /\ d \in Modules => /\ d \in DOMAIN config.sections
                         /\ DOMAIN Only(legacy[d].values, ModuleVars) \subseteq DOMAIN config.sections[d]

LEMMA MigratedStep == ASSUME InstallInv, [InstallNext]_installVars PROVE Migrated
<1>1. CASE UNCHANGED legacy
  BY <1>1 DEF Migrated
<1>2. CASE DropOwnLegacy \/ DropCoreLegacy
  <2> DEFINE gone == IF merger.step = "own" THEN merger.module ELSE "core"
  <2>1. merger.step \in {"own", "core"} /\ legacy' = [legacy EXCEPT ![gone] = Gone]
    BY <1>2 DEF DropOwnLegacy, DropCoreLegacy, MergerAt
  <2>2. /\ AnswersCover(merger.answers, merger.module) /\ DOMAIN legacy = Directories
        /\ DOMAIN merger.answers.core \cap SharedKeys \subseteq DOMAIN config.core
        /\ merger.module \in DOMAIN config.sections
        /\ DOMAIN merger.answers.module \subseteq DOMAIN config.sections[merger.module]
        /\ DOMAIN merger.answers.core \cap CoreUserKeys \subseteq DOMAIN userConfig
    BY <2>1 DEF InstallInv, SetupSteps
  <2>3. \A d \in Directories : d # gone => legacy'[d] = legacy[d]
    BY <2>1, <2>2
  <2>4. DOMAIN legacy[gone].values \cap CoreKeys \subseteq DOMAIN merger.answers.core
    BY <2>2 DEF AnswersCover
  <2>5. gone \in Modules => gone = merger.module
    BY InstallAssumption
  <2> HIDE DEF gone
  <2>6. /\ DOMAIN legacy[gone].values \cap SharedKeys \subseteq DOMAIN config.core
        /\ DOMAIN legacy[gone].values \cap CoreUserKeys \subseteq DOMAIN userConfig
    BY <2>2, <2>4 DEF CoreKeys
  <2>7. gone \in Modules => /\ gone \in DOMAIN config.sections
                           /\ DOMAIN legacy[gone].values \cap ModuleVars \subseteq DOMAIN config.sections[gone]
    BY <2>2, <2>5 DEF AnswersCover
  <2>8. \A f, S : DOMAIN Only(f, S) = DOMAIN f \cap S
    BY DEF Only
  <2> SUFFICES ASSUME NEW d \in Directories, legacy[d].there, ~legacy'[d].there
               PROVE  /\ DOMAIN Only(legacy[d].values, SharedKeys) \subseteq DOMAIN config.core
                      /\ DOMAIN Only(legacy[d].values, CoreUserKeys) \subseteq DOMAIN userConfig
                      /\ d \in Modules => /\ d \in DOMAIN config.sections
                                          /\ DOMAIN Only(legacy[d].values, ModuleVars) \subseteq DOMAIN config.sections[d]
    BY DEF Migrated
  <2>9. d = gone
    BY <2>3
  <2> QED BY <2>6, <2>7, <2>8, <2>9
<1>3. CASE RemoveDir
  BY <1>3, RemovedWasGone DEF Migrated, InstallInv
<1>4. CASE UNCHANGED installVars
  BY <1>1, <1>4 DEF installVars
<1> QED BY <1>1, <1>2, <1>3, <1>4, LegacyGoesByDrop

OthersStay ==
  \A m \in Modules \ {merger.module} :
    /\ legacy'[m] = legacy[m] /\ (m \in oldDirs => m \in oldDirs')
    /\ ~(merger'.step = "dead" /\ merger.step # "dead") /\ m \in DOMAIN config.sections =>
         m \in DOMAIN config'.sections /\ config'.sections[m] = config.sections[m]
    /\ ~(helper'.step = "dead") => {r \in helpRows : r[1] = m} \subseteq helpRows'

LEMMA OthersStayStep == ASSUME InstallInv, [InstallNext]_installVars PROVE OthersStay
<1> SUFFICES ASSUME NEW m \in Modules \ {merger.module}
             PROVE  /\ legacy'[m] = legacy[m] /\ (m \in oldDirs => m \in oldDirs')
                    /\ ~(merger'.step = "dead" /\ merger.step # "dead") /\ m \in DOMAIN config.sections =>
                         m \in DOMAIN config'.sections /\ config'.sections[m] = config.sections[m]
                    /\ ~(helper'.step = "dead") => {r \in helpRows : r[1] = m} \subseteq helpRows'
  BY DEF OthersStay
<1>1. m # "core" /\ DOMAIN legacy = Directories /\ m \in Directories
  BY InstallAssumption DEF InstallInv, Directories
<1>2. CASE UNCHANGED <<legacy, oldDirs, config, helpRows>>
  BY <1>2
<1>3. CASE WriteConfig
  <2>1. config' = MergeConfig(config, merger.module, merger.answers) /\ UNCHANGED <<legacy, oldDirs, helpRows>>
    BY <1>3 DEF WriteConfig, MergerAt, InstallInv, KeepHelp, KeepClean
  <2> QED BY <2>1, MergeConfigFacts
<1>4. CASE TornConfig
  <2>1. merger'.step = "dead" /\ merger.step # "dead" /\ UNCHANGED <<legacy, oldDirs, helpRows>>
    BY <1>4, MergerMoves DEF TornConfig, MergerAt, KeepHelp, KeepClean
  <2> QED BY <2>1
<1>5. CASE DropOwnLegacy \/ DropCoreLegacy
  <2>1. legacy'[m] = legacy[m] /\ UNCHANGED <<oldDirs, config, helpRows>>
    BY <1>1, <1>5 DEF DropOwnLegacy, DropCoreLegacy, KeepHelp, KeepClean
  <2> QED BY <2>1
<1>6. CASE MergeHelp
  <2>1. /\ UNCHANGED <<legacy, oldDirs, config>>
        /\ helpRows' = {r \in helpRows : r[1] # merger.module} \cup {<<merger.module, setups>>}
    BY <1>6 DEF MergeHelp, KeepMerge, KeepClean, InstallInv
  <2> QED BY <2>1
<1>7. CASE TornHelp
  <2>1. helper'.step = "dead" /\ UNCHANGED <<legacy, oldDirs, config>>
    BY <1>7 DEF TornHelp, HelperAt, KeepMerge, KeepClean, InstallInv, SetupFields
  <2> QED BY <2>1
<1>8. CASE RemoveDir
  <2>1. UNCHANGED <<config, helpRows>>
    BY <1>8 DEF RemoveDir
  <2>2. legacy'[m] = legacy[m] /\ (m \in oldDirs => m \in oldDirs')
    BY <1>1, <1>8, RemovedWasGone
  <2> QED BY <2>1, <2>2
<1>9. CASE StartSetup \/ WriteUserConfig \/ TornUserConfig \/ MergerDies \/ DropOldHelp \/ StartCleanup \/ UNCHANGED installVars
  <2>1. UNCHANGED <<legacy, oldDirs, config, helpRows>>
    BY <1>9 DEF StartSetup, WriteUserConfig, TornUserConfig, MergerDies, DropOldHelp, StartCleanup, installVars, KeepMerge, KeepHelp, KeepClean
  <2> QED BY <1>2, <2>1
<1> QED BY <1>3, <1>4, <1>5, <1>6, <1>7, <1>8, <1>9 DEF InstallNext
-----------------------------------------------------------------------------
(***************************************************************************)
(* Policy snapshots.                                                       *)
(***************************************************************************)
Policies == [budget : Int, template : Nat, contract : Nat]
StateDocs == [exists : BOOLEAN, file : Nat, hash : Seq(Policies), version : BOOLEAN, legacy : {"", "true", "false"}, cut : BOOLEAN]
\* Where a command looks for the run it belongs to.
RunIsNamed == envState \in Docs \cup {Nowhere} /\ marker \in Docs \cup {Nowhere, "invalid"}
PolicyShape ==
  /\ bundled \in Budgets /\ files \in [DataFiles -> Nat] /\ policySnapshots \in Seq(Seq(Policies))
  /\ docs \in [Docs -> StateDocs] /\ pinned \in [Docs -> Policies]
  /\ RunIsNamed

\* A policy that names its data files: nothing in it is unset.
IsPinned(policy) == policy.template # UnsetPolicy /\ policy.contract # UnsetPolicy

\* A document that is there was written for the pinned policy: it may have lost its
\* fields one way or another, never to look like a document from before the snapshots.
DocInv(path) ==
  docs[path].exists =>
    /\ IsPinned(pinned[path])
    /\ docs[path].hash \in {<<>>, <<pinned[path]>>}
    /\ docs[path].file = 0 /\ docs[path].hash = <<>> => docs[path].legacy = "false" \/ docs[path].version
BuildInv ==
  building # Nowhere =>
    /\ building \in Docs /\ ~docs[building].exists /\ Len(policySnapshots) # 0
    /\ \E policy \in Policies : IsPinned(policy) /\ policySnapshots[Len(policySnapshots)] = <<policy>>
LoadedInv == LoadedIsPinned /\ (loaded.ok /\ loaded.doc # Nowhere => loaded.doc \in Docs /\ docs[loaded.doc].exists)
PolicyInv == PolicyShape /\ (\A path \in Docs : DocInv(path)) /\ BuildInv /\ LoadedInv

LEMMA NoDocumentFacts == NoDocument \in StateDocs /\ ~NoDocument.exists
BY EmptySeq DEF NoDocument, StateDocs

LEMMA NotLoadedFacts == ~NotLoaded.ok /\ \A error : ~Failed(error).ok
BY DEF NotLoaded, Failed

LEMMA PolicyInit_Inv == PolicyInit => PolicyInv
<1> SUFFICES ASSUME PolicyInit PROVE PolicyInv
  OBVIOUS
<1>1. NoPin \in Policies
  BY DEF NoPin, Policies
<1>2. PolicyShape
  BY <1>1, NoDocumentFacts, EmptySeq DEF PolicyInit, PolicyShape, RunIsNamed, Nowhere
<1>3. \A path \in Docs : DocInv(path)
  BY NoDocumentFacts DEF PolicyInit, DocInv
<1>4. LoadedInv
  BY NotLoadedFacts DEF PolicyInit, LoadedInv, LoadedIsPinned
<1> QED BY <1>2, <1>3, <1>4 DEF PolicyInit, PolicyInv, BuildInv

\* What a load with recorded versions gives: those versions, or nothing.
LEMMA ResolvedFacts ==
  ASSUME NEW policy, NEW full, NEW src, NEW doc
  PROVE  LET got == ResolvedPolicy(policy, full, src, doc) IN
         got.ok => /\ got.source = src /\ got.doc = doc /\ got.budget = policy.budget
                   /\ got.contract = ContractNow /\ got.contract # Missing
                   /\ policy.contract # UnsetPolicy => got.contract = policy.contract
                   /\ ~full => got.template = UnsetPolicy
                   /\ full => got.template = TemplateNow /\ got.template # Missing
                              /\ (policy.template # UnsetPolicy => got.template = policy.template)
BY DEF ResolvedPolicy, Failed

LEMMA LoadForStateFacts ==
  ASSUME PolicyInv, NEW path \in Docs, NEW full \in BOOLEAN, LoadPolicyForState(path, full).ok
  PROVE  LET got == LoadPolicyForState(path, full) IN
         /\ got.doc = path /\ docs[path].exists
         /\ docs[path].cut => got.source = "bundled" /\ got.budget = bundled
         /\ ~docs[path].cut => /\ got.source = "snapshot" /\ got.budget = pinned[path].budget
                              /\ got.template \in {UnsetPolicy, pinned[path].template}
                              /\ got.contract = pinned[path].contract
<1> DEFINE got == LoadPolicyForState(path, full)
<1>1. docs[path].exists
  BY NotLoadedFacts DEF LoadPolicyForState
<1>2. DocInv(path)
  BY <1>1 DEF PolicyInv
<1>7. CASE docs[path].cut
  <2>1. Fields(docs[path]) = NoDocument
    BY <1>7 DEF Fields
  <2>2. NoDocument.file = 0 /\ NoDocument.hash = <<>> /\ NoDocument.legacy = "" /\ NoDocument.version = FALSE
    BY DEF NoDocument
  <2> DEFINE plain == Unhashed(bundled)
  <2>3. got = ResolvedPolicy(plain, full, "bundled", path)
    BY <1>1, <2>1, <2>2 DEF LoadPolicyForState, LoadBundledPolicy
  <2>4. plain.budget = bundled
    BY DEF Unhashed
  <2>5. got.ok
    OBVIOUS
  <2> HIDE DEF got, plain
  <2>6. got.doc = path /\ got.source = "bundled" /\ got.budget = bundled
    BY <2>3, <2>4, <2>5, ResolvedFacts
  <2> QED BY <1>1, <1>7, <2>6 DEF got
<1>8. CASE ~docs[path].cut
  <2>2. Fields(docs[path]) = docs[path]
    BY <1>8 DEF Fields
  <2>3. docs[path].hash = <<pinned[path]>> /\ IsPinned(pinned[path])
        /\ got = LoadPolicySnapshot(docs[path].file, docs[path].hash, full, path)
    BY <1>1, <1>2, <2>2, NotLoadedFacts DEF LoadPolicyForState, DocInv
  <2>4. got = ResolvedPolicy(pinned[path], full, "snapshot", path)
    <3>1. docs[path].hash[1] = pinned[path]
      BY <2>3
    <3> QED BY <2>3, <3>1, NotLoadedFacts DEF LoadPolicySnapshot
  <2>5. got.ok
    OBVIOUS
  <2> HIDE DEF got
  <2>6. /\ got.source = "snapshot" /\ got.doc = path /\ got.budget = pinned[path].budget
        /\ got.contract = pinned[path].contract
        /\ ~full => got.template = UnsetPolicy
        /\ full => got.template = pinned[path].template
    BY <2>3, <2>4, <2>5, ResolvedFacts DEF IsPinned
  <2> QED BY <1>1, <1>8, <2>6 DEF got
<1> QED BY <1>7, <1>8

\* A command that finds a document follows it; only one that finds none takes the layers.
LEMMA LoadChoices ==
  ASSUME RunIsNamed, NEW explicit \in Docs \cup {Nowhere}, NEW full \in BOOLEAN
  PROVE  LET got == LoadRuntimePolicy(explicit, full) IN
         \/ ~got.ok /\ got.source = ""
         \/ \E path \in Docs : got = LoadPolicyForState(path, full)
         \/ explicit = Nowhere /\ envState = Nowhere /\ marker = Nowhere /\ got = LoadEffectivePolicy(full)
BY DEF LoadRuntimePolicy, RunIsNamed, Failed

LEMMA LoadInv ==
  ASSUME PolicyInv, NEW explicit \in Docs \cup {Nowhere}, NEW full \in BOOLEAN, Load(explicit, full)
  PROVE  PolicyInv'
<1>1. /\ loaded' = LoadRuntimePolicy(explicit, full)
      /\ UNCHANGED <<bundled, override, legacyEnv, files, policySnapshots, docs, building, marker, envState, policyChanges, pinned>>
  BY DEF Load
<1>2. PolicyShape' /\ (\A path \in Docs : DocInv(path)') /\ BuildInv'
  BY <1>1 DEF PolicyInv, PolicyShape, RunIsNamed, DocInv, BuildInv
<1>3. CASE ~loaded'.ok
  BY <1>2, <1>3 DEF PolicyInv, LoadedInv, LoadedIsPinned
<1>4. ASSUME NEW path \in Docs, loaded' = LoadPolicyForState(path, full), loaded'.ok PROVE PolicyInv'
  BY <1>1, <1>2, <1>4, LoadForStateFacts DEF PolicyInv, LoadedInv, LoadedIsPinned
<1>5. CASE loaded' = LoadEffectivePolicy(full) /\ loaded'.ok
  <2> DEFINE got == ResolvedPolicy(Unhashed(EffectiveBudget), full, "effective", Nowhere)
  <2>1. loaded' = got /\ got.ok
    BY <1>5, NotLoadedFacts DEF LoadEffectivePolicy
  <2>2. got.doc = Nowhere
    BY <2>1, ResolvedFacts
  <2> HIDE DEF got
  <2>3. loaded'.doc = Nowhere
    BY <2>1, <2>2
  <2> QED BY <1>2, <2>3 DEF PolicyInv, LoadedInv, LoadedIsPinned
<1>6. RunIsNamed
  BY DEF PolicyInv, PolicyShape
<1> QED BY <1>1, <1>3, <1>4, <1>5, <1>6, LoadChoices

\* build-state-doc: what it writes to the snapshot file is pinned.
LEMMA EffectiveFacts ==
  ASSUME PolicyShape, LoadEffectivePolicy(TRUE).ok
  PROVE  LET got == LoadEffectivePolicy(TRUE)
             policy == [budget |-> got.budget, template |-> got.template, contract |-> got.contract]
         IN policy \in Policies /\ IsPinned(policy)
<1> DEFINE got == LoadEffectivePolicy(TRUE)
       unhashed == Unhashed(EffectiveBudget)
       fromLayers == ResolvedPolicy(unhashed, TRUE, "effective", Nowhere)
<1>1. got = fromLayers /\ fromLayers.ok
  BY NotLoadedFacts DEF LoadEffectivePolicy
<1>6. unhashed.budget = EffectiveBudget
  BY DEF Unhashed
<1> HIDE DEF unhashed
<1>5. fromLayers.budget = unhashed.budget /\ fromLayers.contract = ContractNow /\ fromLayers.template = TemplateNow
      /\ fromLayers.contract # Missing /\ fromLayers.template # Missing
  <2>1. ResolvedPolicy(unhashed, TRUE, "effective", Nowhere).ok
    BY <1>1
  <2>2. LET r == ResolvedPolicy(unhashed, TRUE, "effective", Nowhere)
        IN r.budget = unhashed.budget /\ r.contract = ContractNow /\ r.contract # Missing
           /\ r.template = TemplateNow /\ r.template # Missing
    BY <2>1 DEF ResolvedPolicy, Failed
  <2> QED BY <2>2
<1> HIDE DEF got, fromLayers
<1>2. got.budget = EffectiveBudget /\ got.contract = ContractNow /\ got.template = TemplateNow
      /\ got.contract # Missing /\ got.template # Missing
  BY <1>1, <1>5, <1>6
<1>3. EffectiveBudget \in Int
  BY PolicyAssumption DEF EffectiveBudget, PolicyShape, Invalid
<1>4. ContractNow \in Nat /\ TemplateNow \in Nat
  BY DEF ContractNow, TemplateNow, PolicyShape, DataFiles
<1> QED BY <1>2, <1>3, <1>4 DEF Policies, IsPinned, Missing, UnsetPolicy, got

LEMMA WriteSnapshotInv ==
  ASSUME PolicyInv, NEW path \in Docs, WriteSnapshot(path)
  PROVE  PolicyInv'
<1> DEFINE got == LoadEffectivePolicy(TRUE)
           policy == [budget |-> got.budget, template |-> got.template, contract |-> got.contract]
<1>1. /\ got.ok /\ policySnapshots' = Append(policySnapshots, <<policy>>) /\ building' = path /\ ~docs[path].exists
      /\ UNCHANGED <<bundled, override, legacyEnv, files, docs, marker, envState, policyChanges, pinned, loaded>>
  BY DEF WriteSnapshot
<1>2. policy \in Policies /\ IsPinned(policy)
  BY <1>1, EffectiveFacts DEF PolicyInv
<1> HIDE DEF policy, got
<1>3. /\ policySnapshots' \in Seq(Seq(Policies)) /\ Len(policySnapshots') # 0
      /\ policySnapshots'[Len(policySnapshots')] = <<policy>>
  <2>1. policySnapshots \in Seq(Seq(Policies)) /\ <<policy>> \in Seq(Policies)
    BY <1>2 DEF PolicyInv, PolicyShape, RunIsNamed
  <2> DEFINE e == <<policy>>
  <2> HIDE DEF e
  <2>2. e \in Seq(Policies) /\ policySnapshots' = Append(policySnapshots, e)
    BY <1>1, <2>1 DEF e
  <2>3. Len(policySnapshots') = Len(policySnapshots) + 1 /\ Len(policySnapshots) \in Nat
        /\ policySnapshots' \in Seq(Seq(Policies)) /\ policySnapshots'[Len(policySnapshots) + 1] = e
    BY <2>1, <2>2
  <2> QED BY <2>3 DEF e
<1>4. PolicyShape' /\ (\A p \in Docs : DocInv(p)') /\ LoadedInv'
  BY <1>1, <1>3 DEF PolicyInv, PolicyShape, RunIsNamed, DocInv, LoadedInv, LoadedIsPinned
<1> QED BY <1>1, <1>2, <1>3, <1>4 DEF PolicyInv, BuildInv

LEMMA WriteStateDocInv == ASSUME PolicyInv, WriteStateDoc PROVE PolicyInv'
<1> DEFINE last == policySnapshots[Len(policySnapshots)]
           doc(cut) == [exists |-> TRUE, file |-> Len(policySnapshots), hash |-> last,
                        version |-> TRUE, legacy |-> "false", cut |-> cut]
<1>1. /\ building \in Docs /\ ~docs[building].exists /\ Len(policySnapshots) # 0
      /\ pinned' = [pinned EXCEPT ![building] = last[1]] /\ building' = Nowhere
      /\ UNCHANGED <<bundled, override, legacyEnv, files, policySnapshots, marker, envState, policyChanges, loaded>>
  BY DEF WriteStateDoc, PolicyInv, BuildInv
<1>0. PICK cut \in BOOLEAN : docs' = [docs EXCEPT ![building] = doc(cut)]
  BY PolicyAssumption DEF WriteStateDoc
<1>2. PICK policy \in Policies : IsPinned(policy) /\ last = <<policy>>
  BY DEF WriteStateDoc, PolicyInv, BuildInv
<1>3. last \in Seq(Policies) /\ last[1] = policy
  BY <1>2
<1> HIDE DEF last
<1>4. doc(cut) \in StateDocs /\ doc(cut).exists /\ doc(cut).hash = <<policy>> /\ doc(cut).legacy = "false"
  <2>1. Len(policySnapshots) \in Nat
    BY LenProperties DEF PolicyInv, PolicyShape, RunIsNamed
  <2> QED BY <1>2, <1>3, <2>1 DEF StateDocs
<1> HIDE DEF doc
<1>5. PolicyShape'
  BY <1>0, <1>1, <1>2, <1>3, <1>4 DEF PolicyInv, PolicyShape, RunIsNamed
<1>6. docs \in [Docs -> StateDocs] /\ pinned \in [Docs -> Policies]
  BY DEF PolicyInv, PolicyShape, RunIsNamed
<1>7. docs'[building] = doc(cut) /\ pinned'[building] = policy
      /\ \A p \in Docs : p # building => docs'[p] = docs[p] /\ pinned'[p] = pinned[p]
  BY <1>0, <1>1, <1>3, <1>6
<1>8. \A p \in Docs : DocInv(p)'
  BY <1>2, <1>4, <1>7 DEF PolicyInv, DocInv
<1>9. LoadedInv'
  BY <1>1, <1>7 DEF PolicyInv, LoadedInv, LoadedIsPinned
<1> QED BY <1>1, <1>5, <1>8, <1>9 DEF PolicyInv, BuildInv

\* Whoever edits forgets what was loaded before, and nobody builds meanwhile.
LEMMA EditKeeps ==
  ASSUME PolicyInv, Edit, PolicyShape', \A path \in Docs : DocInv(path)'
  PROVE  PolicyInv'
BY NotLoadedFacts DEF Edit, PolicyInv, BuildInv, LoadedInv, LoadedIsPinned

LEMMA EditSnapshotInv ==
  ASSUME PolicyInv, NEW i \in DOMAIN policySnapshots, EditSnapshot(i)
  PROVE  PolicyInv'
<1>1. Edit /\ pinned' = pinned /\ UNCHANGED <<bundled, override, legacyEnv, files, docs, marker>> /\ envState' = envState
  BY DEF EditSnapshot, Edit
<1>2. policySnapshots \in Seq(Seq(Policies)) /\ policySnapshots[i] \in Seq(Policies) /\ i \in 1..Len(policySnapshots)
  BY ElementOfSeq, LenProperties DEF PolicyInv, PolicyShape, RunIsNamed
<1>3. policySnapshots' \in Seq(Seq(Policies))
  <2>1. CASE policySnapshots' = [policySnapshots EXCEPT ![i] = <<>>]
    BY <1>2, <2>1, EmptySeq, ExceptSeq
  <2>2. ASSUME NEW b \in Budgets, policySnapshots[i] # <<>>, policySnapshots' = [policySnapshots EXCEPT ![i][1].budget = b]
        PROVE  policySnapshots' \in Seq(Seq(Policies))
    <3> DEFINE new == [policySnapshots[i] EXCEPT ![1].budget = b]
    <3>1. policySnapshots' = [policySnapshots EXCEPT ![i] = new]
      BY <2>2
    <3>2. new \in Seq(Policies)
      <4> DEFINE s == policySnapshots[i] one == [s[1] EXCEPT !.budget = b]
      <4>1. s \in Seq(Policies) /\ 1 \in 1..Len(s) /\ s[1] \in Policies
        BY <1>2, <2>2, EmptySeq, ElementOfSeq, LenProperties
      <4>2. one \in Policies
        <5> DEFINE first == s[1]
        <5>1. b \in Int /\ first \in Policies
          BY <4>1, PolicyAssumption
        <5> HIDE DEF first, s
        <5>2. [first EXCEPT !.budget = b] \in Policies
          BY <5>1 DEF Policies
        <5> QED BY <5>2 DEF first
      <4>3. new = [s EXCEPT ![1] = one]
        OBVIOUS
      <4> HIDE DEF s, one, new
      <4> QED BY <4>1, <4>2, <4>3, ExceptSeq
    <3> HIDE DEF new
    <3> QED BY <1>2, <3>1, <3>2, ExceptSeq
  <2> QED BY <2>1, <2>2 DEF EditSnapshot
<1>4. PolicyShape' /\ \A path \in Docs : DocInv(path)'
  BY <1>1, <1>3 DEF PolicyInv, PolicyShape, RunIsNamed, DocInv
<1> QED BY <1>1, <1>4, EditKeeps

LEMMA EditDocInv ==
  ASSUME PolicyInv, NEW path \in Docs, EditDoc(path)
  PROVE  PolicyInv'
<1> DEFINE old == docs[path]
<1>1. /\ Edit /\ pinned' = pinned /\ envState' = envState /\ UNCHANGED <<bundled, override, legacyEnv, files, policySnapshots, marker>>
      /\ old.hash # <<>> /\ old.file # 0 /\ old.legacy = "false"
  BY DEF EditDoc, Edit
<1>2. docs \in [Docs -> StateDocs] /\ old \in StateDocs /\ DocInv(path)
  BY DEF PolicyInv, PolicyShape, RunIsNamed
<1>3. PICK new : docs' = [docs EXCEPT ![path] = new] /\ new \in StateDocs
        /\ (new.exists => /\ old.exists /\ new.cut = old.cut /\ new.hash \in {<<>>, old.hash}
                          /\ new.file = 0 /\ new.hash = <<>> => new.legacy = "false" \/ new.version)
  <2>1. CASE docs' = [docs EXCEPT ![path] = [old EXCEPT !.file = 0]]
    <3> DEFINE new == [old EXCEPT !.file = 0]
    <3>1. new \in StateDocs /\ new.exists = old.exists /\ new.cut = old.cut /\ new.hash = old.hash
      BY <1>2 DEF StateDocs
    <3> QED BY <1>1, <2>1, <3>1
  <2>2. CASE docs' = [docs EXCEPT ![path] = [old EXCEPT !.hash = <<>>]]
    <3> DEFINE new == [old EXCEPT !.hash = <<>>]
    <3>1. new \in StateDocs /\ new.exists = old.exists /\ new.cut = old.cut /\ new.hash = <<>> /\ new.legacy = old.legacy
      BY <1>2, EmptySeq DEF StateDocs
    <3> QED BY <1>1, <2>2, <3>1
  <2>3. CASE docs' = [docs EXCEPT ![path] = [old EXCEPT !.file = 0, !.hash = <<>>]]
    <3> DEFINE new == [old EXCEPT !.file = 0, !.hash = <<>>]
    <3>1. new \in StateDocs /\ new.exists = old.exists /\ new.cut = old.cut /\ new.hash = <<>> /\ new.legacy = old.legacy
      BY <1>2, EmptySeq DEF StateDocs
    <3> QED BY <1>1, <2>3, <3>1
  <2>4. CASE docs' = [docs EXCEPT ![path] = [old EXCEPT !.legacy = "true"]]
    <3> DEFINE new == [old EXCEPT !.legacy = "true"]
    <3>1. new \in StateDocs /\ new.exists = old.exists /\ new.cut = old.cut /\ new.hash = old.hash
      BY <1>2 DEF StateDocs
    <3> QED BY <1>1, <2>4, <3>1
  <2>5. CASE docs' = [docs EXCEPT ![path] = [old EXCEPT !.legacy = "", !.version = FALSE]]
    <3> DEFINE new == [old EXCEPT !.legacy = "", !.version = FALSE]
    <3>1. new \in StateDocs /\ new.exists = old.exists /\ new.cut = old.cut /\ new.hash = old.hash
      BY <1>2 DEF StateDocs
    <3> QED BY <1>1, <2>5, <3>1
  <2>6. CASE docs' = [docs EXCEPT ![path] = NoDocument]
    BY <2>6, NoDocumentFacts
  <2> QED BY <2>1, <2>2, <2>3, <2>4, <2>5, <2>6 DEF EditDoc
<1>4. docs'[path] = new /\ \A p \in Docs : p # path => docs'[p] = docs[p]
  BY <1>2, <1>3
<1>5. PolicyShape'
  BY <1>1, <1>3 DEF PolicyInv, PolicyShape, RunIsNamed
<1>6. \A p \in Docs : DocInv(p)'
  BY <1>1, <1>2, <1>3, <1>4 DEF PolicyInv, DocInv
<1> QED BY <1>1, <1>5, <1>6, EditKeeps

LEMMA PolicyStepInv == ASSUME PolicyInv, [PolicyNext]_policyVars PROVE PolicyInv'
<1>1. CASE UNCHANGED policyVars
  BY <1>1 DEF policyVars, PolicyInv, PolicyShape, RunIsNamed, DocInv, BuildInv, LoadedInv, LoadedIsPinned
<1>2. ASSUME NEW path \in Docs, MarkerCreate(path) PROVE PolicyInv'
  BY <1>2 DEF MarkerCreate, PolicyInv, PolicyShape, RunIsNamed, DocInv, BuildInv, LoadedInv, LoadedIsPinned
<1>3. CASE BuildDies \/ MarkerRemove
  BY <1>3 DEF BuildDies, MarkerRemove, PolicyInv, PolicyShape, RunIsNamed, DocInv, BuildInv, LoadedInv, LoadedIsPinned
<1>4. CASE BreakMarker
  <2>1. Edit /\ PolicyShape' /\ \A path \in Docs : DocInv(path)'
    BY <1>4 DEF BreakMarker, Edit, PolicyInv, PolicyShape, RunIsNamed, DocInv
  <2> QED BY <2>1, EditKeeps
<1>5. CASE EditLayers
  <2>1. Edit /\ PolicyShape' /\ \A path \in Docs : DocInv(path)'
    BY <1>5 DEF EditLayers, Edit, PolicyInv, PolicyShape, RunIsNamed, DocInv
  <2> QED BY <2>1, EditKeeps
<1>6. ASSUME NEW name \in DataFiles, EditFile(name) PROVE PolicyInv'
  <2>1. Edit /\ PolicyShape' /\ \A path \in Docs : DocInv(path)'
    BY <1>6 DEF EditFile, Edit, PolicyInv, PolicyShape, RunIsNamed, DocInv, Missing
  <2> QED BY <2>1, EditKeeps
<1>7. CASE PolicyNext
  BY <1>2, <1>3, <1>4, <1>5, <1>6, <1>7, WriteSnapshotInv, WriteStateDocInv, LoadInv, EditSnapshotInv, EditDocInv DEF PolicyNext
<1> QED BY <1>1, <1>7

\* While a run is active, no command that names no document takes the layers of the day.
LEMMA FollowsStep ==
  ASSUME RunIsNamed, NEW full \in BOOLEAN, Load(Nowhere, full), envState # Nowhere \/ marker # Nowhere
  PROVE  loaded'.source # "effective"
<1>1. loaded' = LoadRuntimePolicy(Nowhere, full)
  BY DEF Load
<1>2. \A path \in Docs : LoadPolicyForState(path, full).source # "effective"
  BY DEF LoadPolicyForState, LoadPolicySnapshot, LoadBundledPolicy, ResolvedPolicy, Failed
<1> QED BY <1>1, <1>2, LoadChoices

LEMMA RunIsNamedInit == PolicyInit => RunIsNamed
BY DEF PolicyInit, RunIsNamed, Nowhere

LEMMA RunStaysNamed == RunIsNamed /\ [PolicyNext]_policyVars => RunIsNamed'
BY DEF RunIsNamed, Nowhere, PolicyNext, policyVars, WriteSnapshot, WriteStateDoc, BuildDies, MarkerCreate, MarkerRemove, Load, Edit,
   EditLayers, EditFile, EditSnapshot, EditDoc, BreakMarker
-----------------------------------------------------------------------------
(***************************************************************************)
(* The orchestrator's commands.                                            *)
(***************************************************************************)
MonitorStates == [step : {"idle", "poll", "verify", "done"}, workflow : Workflows \cup {""}, key : BOOLEAN, polls : Nat,
                  seen : {"", "in_progress", "not_found"} \cup SessionEnds,
                  answer : {"", "timeout", "incomplete", "in_progress", "not_found"} \cup SessionEnds, verified : BOOLEAN]
Markers == [there : BOOLEAN, remaining : Nat, stale : BOOLEAN]
Repositories == [changed : Nat, staged : Nat, committed : Nat]
Commits == [step : {"idle", "add", "commit", "done"}, asked : Nat,
            answer : {"", "ok", "no_changes", "git_add_failed", "commit_failed"}]
CommandsShape ==
  /\ session \in SessionEnds \cup {"in_progress", "not_found"} /\ artifact \in BOOLEAN /\ orchestrating \in BOOLEAN
  /\ monitor \in MonitorStates /\ activeMarker \in Markers /\ beating \in Markers
  /\ repository \in Repositories /\ commit \in Commits

\* monitor-session: what it has seen and verified so far.
MonitorInv ==
  /\ monitor.step # "done" => monitor.answer = ""
  /\ monitor.step = "verify" => monitor.seen = "completed"
  /\ CompletedIsVerified
\* commit-story: what was there when it was asked for is staged, then committed.
CommittedInv ==
  /\ repository.staged <= repository.changed /\ commit.asked <= repository.changed
  /\ commit.step = "commit" => commit.asked <= repository.staged
  /\ commit.step # "done" => commit.answer = ""
  /\ CommitHoldsTheWork
\* A heartbeat runs only inside an orchestrator, which it would otherwise outlive.
MarkerInv ==
  /\ beating.there => orchestrating
  /\ activeMarker.there => orchestrating \/ activeMarker.stale
CommandsInv == CommandsShape /\ MonitorInv /\ CommittedInv /\ MarkerInv

LEMMA CommandsInit_Inv == OrchestrationInit => CommandsInv
<1> SUFFICES ASSUME OrchestrationInit PROVE CommandsInv
  OBVIOUS
<1>1. monitor = NoMonitor /\ NoMonitor \in MonitorStates /\ NoMonitor.answer = "" /\ NoMonitor.step = "idle"
  BY DEF OrchestrationInit, NoMonitor, MonitorStates
<1>2. activeMarker = NoMarker /\ beating = NoMarker /\ NoMarker \in Markers /\ ~NoMarker.there
  BY DEF OrchestrationInit, NoMarker, Markers
<1>3. commit = NoCommit /\ NoCommit \in Commits /\ NoCommit.asked = 0 /\ NoCommit.answer = "" /\ NoCommit.step = "idle"
  BY DEF OrchestrationInit, NoCommit, Commits
<1>4. /\ repository \in Repositories
      /\ repository.changed \in Nat /\ repository.staged = 0 /\ repository.committed = 0
  BY DEF OrchestrationInit, Repositories
<1>5. CommandsShape
  BY <1>1, <1>2, <1>3, <1>4 DEF OrchestrationInit, CommandsShape
<1>6. MonitorInv
  BY <1>1 DEF MonitorInv, CompletedIsVerified
<1>7. CommittedInv
  <2>1. commit.asked = 0
    BY <1>3
  <2>2. commit.answer = "" /\ commit.step = "idle"
    BY <1>3
  <2>3. repository.staged <= repository.changed /\ commit.asked <= repository.changed
    BY <1>4, <2>1
  <2> QED BY <2>2, <2>3 DEF CommittedInv, CommitHoldsTheWork
<1>8. MarkerInv
  BY <1>2 DEF MarkerInv
<1> QED BY <1>5, <1>6, <1>7, <1>8 DEF CommandsInv

\* Each group of conjuncts speaks of its own variables.
LEMMA MonitorRests ==
  ASSUME CommandsInv, UNCHANGED monitor, artifact' \in {artifact, TRUE}
  PROVE  MonitorInv'
BY DEF CommandsInv, CommandsShape, MonitorInv, CompletedIsVerified

LEMMA CommitRests == ASSUME CommandsInv, UNCHANGED <<repository, commit>> PROVE CommittedInv'
BY DEF CommandsInv, CommittedInv, CommitHoldsTheWork

LEMMA MarkerRests == ASSUME CommandsInv, UNCHANGED <<activeMarker, orchestrating, beating>> PROVE MarkerInv'
BY DEF CommandsInv, MarkerInv

LEMMA SessionMovesInv == ASSUME CommandsInv, SessionWorks \/ SessionStops \/ SessionIsKilled PROVE CommandsInv'
<1>1. MarkerInv' /\ MonitorInv'
  BY MarkerRests, MonitorRests DEF SessionWorks, SessionStops, SessionIsKilled, CommandsInv, CommandsShape
<1>2. CASE SessionWorks
  <2>1. repository \in Repositories /\ repository' = [repository EXCEPT !.changed = @ + 1] /\ UNCHANGED commit
    BY <1>2 DEF SessionWorks, CommandsInv, CommandsShape
  <2>2. /\ repository' \in Repositories /\ repository'.changed = repository.changed + 1
        /\ repository'.staged = repository.staged /\ repository'.committed = repository.committed
    BY <2>1 DEF Repositories
  <2>3. commit \in Commits
    BY DEF CommandsInv, CommandsShape
  <2>4. CommittedInv'
    <3>1. repository.changed \in Nat /\ repository.staged \in Nat /\ repository.committed \in Nat /\ commit.asked \in Nat
      BY <2>1, <2>3 DEF Repositories, Commits
    <3>2. CommittedInv /\ UNCHANGED commit
      BY <2>1 DEF CommandsInv
    <3>3. repository.staged <= repository.changed /\ commit.asked <= repository.changed
      BY <3>2 DEF CommittedInv
    <3>4. repository.staged <= repository.changed + 1 /\ commit.asked <= repository.changed + 1
      BY <3>1, <3>3
    <3>5. repository'.staged <= repository'.changed /\ commit'.asked <= repository'.changed
      BY <2>2, <3>2, <3>4
    <3> QED BY <2>2, <3>2, <3>5 DEF CommittedInv, CommitHoldsTheWork
  <2>5. CommandsShape'
    BY <1>2, <2>2 DEF SessionWorks, CommandsInv, CommandsShape
  <2> QED BY <1>1, <2>4, <2>5 DEF CommandsInv
<1>3. CASE SessionStops \/ SessionIsKilled
  <2>1. CommittedInv' /\ CommandsShape'
    BY <1>3, CommitRests DEF SessionStops, SessionIsKilled, CommandsInv, CommandsShape
  <2> QED BY <1>1, <2>1 DEF CommandsInv
<1> QED BY <1>2, <1>3

LEMMA AnsweredFacts ==
  ASSUME monitor \in MonitorStates, NEW told \in {"timeout", "incomplete", "in_progress", "not_found"} \cup SessionEnds,
         NEW verified \in BOOLEAN
  PROVE  LET m == Answered(told, verified) IN
         /\ m \in MonitorStates /\ m.step = "done" /\ m.answer = told /\ m.verified = verified
         /\ m.seen = monitor.seen /\ m.workflow = monitor.workflow
BY DEF MonitorStates, Answered

LEMMA MonitoringInv == ASSUME CommandsInv, Monitoring PROVE CommandsInv'
<1>1. UNCHANGED <<activeMarker, orchestrating, beating, repository, commit>>
  BY DEF Monitoring, MonitorStart, MonitorTimesOut, MonitorPoll, MonitorVerify, MonitorReturns
<1>2. MarkerInv' /\ CommittedInv'
  BY <1>1, MarkerRests, CommitRests
<1>3. monitor \in MonitorStates /\ session \in SessionEnds \cup {"in_progress", "not_found"} /\ artifact \in BOOLEAN
  BY DEF CommandsInv, CommandsShape
<1>4. NoMonitor \in MonitorStates /\ NoMonitor.answer = "" /\ NoMonitor.step = "idle"
  BY DEF NoMonitor, MonitorStates
<1>5. ASSUME monitor' \in MonitorStates, MonitorInv', session' \in SessionEnds \cup {"in_progress", "not_found"}, artifact' \in BOOLEAN
      PROVE  CommandsInv'
  BY <1>1, <1>2, <1>5 DEF CommandsInv, CommandsShape
<1>6. CASE MonitorStart
  <2>1. PICK workflow \in Workflows, key \in BOOLEAN :
          monitor' = [NoMonitor EXCEPT !.step = "poll", !.workflow = workflow, !.key = key]
    BY <1>6 DEF MonitorStart
  <2>2. monitor' \in MonitorStates /\ monitor'.step = "poll" /\ monitor'.answer = ""
    BY <1>4, <2>1 DEF MonitorStates
  <2> QED BY <1>3, <1>5, <1>6, <2>2 DEF MonitorStart, MonitorInv, CompletedIsVerified
<1>7. CASE MonitorTimesOut
  <2>1. monitor' \in MonitorStates /\ monitor'.step = "done" /\ monitor'.answer = "timeout"
    BY <1>3, <1>7, AnsweredFacts DEF MonitorTimesOut
  <2> QED BY <1>3, <1>5, <1>7, <2>1 DEF MonitorTimesOut, MonitorInv, CompletedIsVerified
<1>8. CASE MonitorPoll
  <2>1. UNCHANGED <<session, artifact>> /\ monitor.step = "poll" /\ monitor.answer = ""
    BY <1>8 DEF MonitorPoll, CommandsInv, MonitorInv
  <2>2. CASE monitor' = Answered("timeout", FALSE)
    <3>1. monitor' \in MonitorStates /\ monitor'.step = "done" /\ monitor'.answer = "timeout"
      BY <1>3, <2>2, AnsweredFacts
    <3> QED BY <1>3, <1>5, <2>1, <3>1 DEF MonitorInv, CompletedIsVerified
  <2>3. ASSUME NEW to \in {"poll", "verify"}, session \in {"in_progress", "completed"}, to = "verify" => session = "completed",
               monitor' = [monitor EXCEPT !.step = to, !.seen = session, !.polls = @ + 1]
        PROVE  CommandsInv'
    <3>1. monitor' \in MonitorStates /\ monitor'.step = to /\ monitor'.seen = session /\ monitor'.answer = monitor.answer
      <4>1. session \in {"", "in_progress", "not_found"} \cup SessionEnds /\ to \in {"idle", "poll", "verify", "done"}
        BY <1>3, <2>3
      <4>2. monitor.polls + 1 \in Nat
        <5>1. monitor.polls \in Nat
          BY <1>3 DEF MonitorStates
        <5> QED BY <5>1
      <4> QED BY <1>3, <2>3, <4>1, <4>2 DEF MonitorStates
    <3> QED BY <1>3, <1>5, <2>1, <2>3, <3>1 DEF MonitorInv, CompletedIsVerified
  <2>4. CASE session \notin {"completed", "in_progress"} /\ monitor' = [Answered(session, FALSE) EXCEPT !.seen = session]
    <3> DEFINE m == Answered(session, FALSE)
    <3>1. m \in MonitorStates /\ m.step = "done" /\ m.answer = session
      BY <1>3, AnsweredFacts
    <3> HIDE DEF m
    <3>2. monitor' \in MonitorStates /\ monitor'.step = "done" /\ monitor'.answer = session
      BY <1>3, <2>4, <3>1 DEF MonitorStates, m
    <3> QED BY <1>3, <1>5, <2>1, <2>4, <3>2 DEF MonitorInv, CompletedIsVerified
  <2>5. \/ monitor' = Answered("timeout", FALSE)
        \/ session = "completed" /\ monitor' = [monitor EXCEPT !.step = "verify", !.seen = session, !.polls = @ + 1]
        \/ session = "in_progress" /\ monitor' = [monitor EXCEPT !.seen = session, !.polls = @ + 1]
        \/ session \notin {"completed", "in_progress"} /\ monitor' = [Answered(session, FALSE) EXCEPT !.seen = session]
    BY <1>8 DEF MonitorPoll
  <2>6. [monitor EXCEPT !.seen = session, !.polls = @ + 1] = [monitor EXCEPT !.step = "poll", !.seen = session, !.polls = @ + 1]
    BY <1>3, <2>1 DEF MonitorStates
  <2> QED BY <2>2, <2>3, <2>4, <2>5, <2>6
<1>9. CASE MonitorVerify
  <2> DEFINE verified == Verification(monitor.workflow, monitor.key)
             told == IF verified THEN "completed" ELSE "incomplete"
  <2>1. monitor' = Answered(told, verified) /\ UNCHANGED <<session, artifact>> /\ monitor.seen = "completed"
    BY <1>9 DEF MonitorVerify, CommandsInv, MonitorInv
  <2>2. verified \in BOOLEAN /\ (verified => (monitor.workflow = "artifact" => artifact))
    BY <1>3 DEF Verification, MonitorStates
  <2>3. told \in {"timeout", "incomplete", "in_progress", "not_found"} \cup SessionEnds
    BY DEF SessionEnds
  <2> HIDE DEF verified
  <2>4. /\ monitor' \in MonitorStates /\ monitor'.step = "done" /\ monitor'.answer = told /\ monitor'.verified = verified
        /\ monitor'.seen = "completed" /\ monitor'.workflow = monitor.workflow
    BY <1>3, <2>1, <2>2, <2>3, AnsweredFacts
  <2> QED BY <1>3, <1>5, <2>1, <2>2, <2>4 DEF MonitorInv, CompletedIsVerified
<1>10. CASE MonitorReturns
  BY <1>4, <1>5, <1>10 DEF MonitorReturns, MonitorInv, CompletedIsVerified
<1> QED BY <1>6, <1>7, <1>8, <1>9, <1>10 DEF Monitoring

LEMMA MarkingInv == ASSUME CommandsInv, Marking PROVE CommandsInv'
<1>1. UNCHANGED <<session, artifact, monitor, repository, commit>>
  BY DEF Marking, CreateMarker, RemoveMarker, HeartbeatReads, HeartbeatWrites, OrchestratorCrashes
<1>2. MonitorInv' /\ CommittedInv'
  BY <1>1, MonitorRests, CommitRests
<1>3. activeMarker \in Markers /\ beating \in Markers /\ orchestrating \in BOOLEAN /\ MarkerInv
  BY DEF CommandsInv, CommandsShape
<1>4. NoMarker \in Markers /\ ~NoMarker.there
  BY DEF NoMarker, Markers
<1>5. activeMarker' \in Markers /\ beating' \in Markers /\ orchestrating' \in BOOLEAN /\ MarkerInv'
  <2>1. CASE CreateMarker
    BY <1>3, <2>1 DEF CreateMarker, MarkerInv, Markers, Free
  <2>2. CASE RemoveMarker
    BY <1>3, <1>4, <2>2 DEF RemoveMarker, MarkerInv, Free
  <2>3. CASE HeartbeatReads
    BY <1>3, <2>3 DEF HeartbeatReads, MarkerInv
  <2>4. CASE HeartbeatWrites
    <3>1. activeMarker' \in Markers
      BY <1>3, <2>4 DEF HeartbeatWrites, Markers
    <3> QED BY <1>3, <1>4, <2>4, <3>1 DEF HeartbeatWrites, MarkerInv
  <2>5. CASE OrchestratorCrashes
    <3>1. activeMarker' \in Markers /\ activeMarker'.stale = activeMarker.there /\ activeMarker'.there = activeMarker.there
      BY <1>3, <2>5 DEF OrchestratorCrashes, Markers
    <3> QED BY <1>3, <2>5, <3>1 DEF OrchestratorCrashes, MarkerInv
  <2> QED BY <2>1, <2>2, <2>3, <2>4, <2>5 DEF Marking
<1> QED BY <1>1, <1>2, <1>5 DEF CommandsInv, CommandsShape

LEMMA CommitStoryInv == ASSUME CommandsInv, CommitStory PROVE CommandsInv'
<1>1. UNCHANGED <<session, artifact, monitor, activeMarker, orchestrating, beating>>
  BY DEF CommitStory, CommitStatus, CommitAdd, CommitCommit, CommitReturns
<1>2. MonitorInv' /\ MarkerInv'
  BY <1>1, MonitorRests, MarkerRests
<1>3. commit \in Commits /\ repository \in Repositories /\ CommittedInv
  BY DEF CommandsInv, CommandsShape
<1>4. NoCommit \in Commits /\ NoCommit.asked = 0 /\ NoCommit.answer = "" /\ NoCommit.step = "idle"
  BY DEF NoCommit, Commits
<1>5. commit' \in Commits /\ repository' \in Repositories /\ CommittedInv'
  <2>1. ASSUME UNCHANGED repository,
               \/ commit' = [NoCommit EXCEPT !.step = "done", !.answer = "no_changes"]
               \/ commit' = [NoCommit EXCEPT !.step = "add", !.asked = repository.changed]
               \/ commit' = NoCommit
        PROVE  commit' \in Commits /\ repository' \in Repositories /\ CommittedInv'
    <3>1. /\ commit' \in Commits /\ commit'.step \in {"idle", "add", "done"} /\ commit'.asked \in {0, repository.changed}
          /\ commit'.answer \in {"", "no_changes"} /\ (commit'.step # "done" => commit'.answer = "")
      <4>1. repository.changed \in Nat
        BY <1>3 DEF Repositories
      <4> DEFINE nothing == [NoCommit EXCEPT !.step = "done", !.answer = "no_changes"]
                 asking == [NoCommit EXCEPT !.step = "add", !.asked = repository.changed]
      <4>2. nothing \in Commits /\ nothing.step = "done" /\ nothing.asked = 0 /\ nothing.answer = "no_changes"
        BY DEF NoCommit, Commits
      <4>3. asking \in Commits /\ asking.step = "add" /\ asking.asked = repository.changed /\ asking.answer = ""
        BY <4>1 DEF NoCommit, Commits
      <4> HIDE DEF nothing, asking
      <4>4. commit' \in {nothing, asking, NoCommit}
        BY <2>1 DEF nothing, asking
      <4> QED BY <1>4, <4>2, <4>3, <4>4
    <3>2. 0 <= repository.changed /\ repository.changed <= repository.changed
      BY <1>3 DEF Repositories
    <3> QED BY <1>3, <2>1, <3>1, <3>2 DEF CommittedInv, CommitHoldsTheWork
  <2>2. ASSUME UNCHANGED repository, NEW told \in {"git_add_failed", "commit_failed"},
               commit' = [commit EXCEPT !.step = "done", !.answer = told]
        PROVE  commit' \in Commits /\ repository' \in Repositories /\ CommittedInv'
    <3>1. commit' \in Commits /\ commit'.step = "done" /\ commit'.asked = commit.asked /\ commit'.answer = told
      BY <1>3, <2>2 DEF Commits
    <3> QED BY <1>3, <2>2, <3>1 DEF CommittedInv, CommitHoldsTheWork
  <2>3. CASE /\ commit.step = "add" /\ repository' = [repository EXCEPT !.staged = repository.changed]
             /\ commit' = [commit EXCEPT !.step = "commit"]
    <3>1. /\ repository' \in Repositories /\ repository'.changed = repository.changed
          /\ repository'.staged = repository.changed
          /\ commit' \in Commits /\ commit'.step = "commit" /\ commit'.asked = commit.asked /\ commit'.answer = commit.answer
      BY <1>3, <2>3 DEF Commits, Repositories
    <3>2. repository.changed \in Nat /\ commit.asked \in Nat
      BY <1>3 DEF Repositories, Commits
    <3>3. commit.asked <= repository.changed /\ commit.answer = ""
      BY <1>3, <2>3 DEF CommittedInv
    <3>4. repository.changed <= repository.changed
      BY <3>2
    <3>5. repository'.staged <= repository'.changed /\ commit'.asked <= repository'.changed /\ commit'.asked <= repository'.staged
      BY <3>1, <3>3, <3>4
    <3> QED BY <3>1, <3>3, <3>5 DEF CommittedInv, CommitHoldsTheWork
  <2>4. CASE /\ commit.step = "commit" /\ repository' = [repository EXCEPT !.committed = repository.staged]
             /\ commit' = [commit EXCEPT !.step = "done", !.answer = "ok"]
    <3>1. /\ repository' \in Repositories /\ repository'.changed = repository.changed
          /\ repository'.staged = repository.staged /\ repository'.committed = repository.staged
          /\ commit' \in Commits /\ commit'.step = "done" /\ commit'.asked = commit.asked
      BY <1>3, <2>4 DEF Commits, Repositories
    <3>2. repository.changed \in Nat /\ repository.staged \in Nat /\ commit.asked \in Nat
      BY <1>3 DEF Commits, Repositories
    <3> QED BY <1>3, <2>4, <3>1, <3>2 DEF CommittedInv, CommitHoldsTheWork
  <2> QED BY <2>1, <2>2, <2>3, <2>4 DEF CommitStory, CommitStatus, CommitAdd, CommitCommit, CommitReturns
<1> QED BY <1>1, <1>2, <1>5 DEF CommandsInv, CommandsShape

LEMMA CommandsStepInv == ASSUME CommandsInv, [OrchestrationNext]_orchestrationVars PROVE CommandsInv'
<1>1. ASSUME UNCHANGED <<session, artifact, monitor, activeMarker, orchestrating, beating, repository, commit>>
      PROVE  CommandsInv'
  BY <1>1, MonitorRests, CommitRests, MarkerRests DEF CommandsInv, CommandsShape
<1>2. CASE UNCHANGED orchestrationVars
  BY <1>1, <1>2 DEF orchestrationVars
<1>3. ASSUME NEW d \in Documents, StateCreate(d) \/ \E status \in States : StateUpdate(d, status) PROVE CommandsInv'
  BY <1>1, <1>3 DEF StateCreate, StateUpdate
<1>4. CASE Resume
  BY <1>1, <1>4 DEF Resume
<1>5. CASE OrchestrationNext
  BY <1>3, <1>4, <1>5, SessionMovesInv, MonitoringInv, MarkingInv, CommitStoryInv DEF OrchestrationNext
<1> QED BY <1>2, <1>5

LEMMA CommandsInvImplies == CommandsInv => CompletedIsVerified /\ CommitHoldsTheWork /\ HeldStopHasARun
BY DEF CommandsInv, MonitorInv, CommittedInv, MarkerInv, HeldStopHasARun, StopIsBlocked
-----------------------------------------------------------------------------
(***************************************************************************)
(* The runtime layout.                                                     *)
(***************************************************************************)
\* Whatever is installed where, what a search finds depends on nothing but the roots.
LEMMA MarkersAgree == MarkerIsShared
<1> SUFFICES ASSUME NEW e \in Environments, NEW f \in Environments,
                    e.explicit = f.explicit, e.current = f.current, e.marker = f.marker,
                    ResolveSkillsRoot(e, FALSE) \in {"agents", "claude", "codex"}, SkillPresent(ResolveSkillsRoot(e, FALSE), FALSE)
             PROVE  ActiveMarkerPath(e) = ActiveMarkerPath(f)
  BY DEF MarkerIsShared
<1>1. CandidateSkillsRoots(e) = CandidateSkillsRoots(f)
  BY DEF CandidateSkillsRoots
<1>2. ResolveSkillsRoot(e, FALSE) = ResolveSkillsRoot(f, FALSE)
  BY <1>1 DEF ResolveSkillsRoot
<1> QED BY <1>2 DEF ActiveMarkerPath

\* The skill a process starts from is the first candidate.
LEMMA OwnRootIsFirst ==
  ASSUME NEW e, e.explicit = NotSet, e.current # NotSet
  PROVE  LET roots == CandidateSkillsRoots(e) IN 1 \in DOMAIN roots /\ roots[1] = e.current /\ DOMAIN roots \subseteq Nat \ {0}
<1> DEFINE own == <<e.current>>
           S == {e.current} \cup {"agents", "claude", "codex", "homeCodex", "homeClaude"}
<1>1. Standard \in Seq(S) /\ own \in Seq(S) /\ Len(own) = 1 /\ own[1] = e.current
  BY DEF Standard
<1>2. CandidateSkillsRoots(e) = (<<>> \o own) \o Standard
  BY DEF CandidateSkillsRoots, Known
<1>3. <<>> \o own = own
  BY <1>1, ConcatEmptySeq
<1> HIDE DEF own, S
<1>4. own \o Standard \in Seq(S) /\ Len(own \o Standard) = 1 + Len(Standard) /\ (own \o Standard)[1] = own[1]
  BY <1>1, ConcatProperties
<1>5. Len(Standard) \in Nat /\ DOMAIN (own \o Standard) = 1..Len(own \o Standard)
  BY <1>1, <1>4, LenProperties
<1> QED BY <1>1, <1>2, <1>3, <1>4, <1>5

LEMMA FirstIsTaken ==
  ASSUME NEW ends \in SUBSET (Nat \ {0}), 1 \in ends
  PROVE  (CHOOSE i \in ends : \A j \in ends : i <= j) = 1
<1>1. \A i \in ends : 1 <= i
  OBVIOUS
<1>2. \A i \in ends : i <= 1 => i = 1
  OBVIOUS
<1> QED BY <1>1, <1>2

LEMMA InstallIsOwn == OwnInstallIsUsed
<1> SUFFICES ASSUME NEW e \in Environments, e.explicit = NotSet, e.current # NotSet
             PROVE  /\ SkillPresent(e.current, FALSE) => ResolveSkillsRoot(e, FALSE) = e.current /\ AnySkillsRoot(e) = e.current
                    /\ SkillPresent(e.current, TRUE) => BundledStorySkillRoot(e) = e.current
  BY DEF OwnInstallIsUsed
<1> DEFINE roots == CandidateSkillsRoots(e)
<1>1. 1 \in DOMAIN roots /\ roots[1] = e.current /\ DOMAIN roots \subseteq Nat \ {0}
  BY OwnRootIsFirst
<1> HIDE DEF roots
<1>2. ASSUME NEW policy \in BOOLEAN, SkillPresent(e.current, policy) PROVE ResolveSkillsRoot(e, policy) = e.current
  <2> DEFINE ends == {i \in DOMAIN roots : SkillPresent(roots[i], policy) \/ roots[i] = e.explicit}
  <2>1. ends \in SUBSET (Nat \ {0}) /\ 1 \in ends
    BY <1>1, <1>2
  <2>2. ResolveSkillsRoot(e, policy) = roots[CHOOSE i \in ends : \A j \in ends : i <= j]
    BY <2>1 DEF ResolveSkillsRoot, roots
  <2> HIDE DEF ends
  <2> QED BY <1>1, <2>1, <2>2, FirstIsTaken
<1>3. ASSUME SkillPresent(e.current, FALSE) PROVE AnySkillsRoot(e) = e.current
  <2> DEFINE ends == {i \in DOMAIN roots : installed[roots[i]] # "none" \/ roots[i] = e.explicit}
  <2>1. ends \in SUBSET (Nat \ {0}) /\ 1 \in ends
    BY <1>1, <1>3 DEF SkillPresent
  <2>2. AnySkillsRoot(e) = roots[CHOOSE i \in ends : \A j \in ends : i <= j]
    BY <2>1 DEF AnySkillsRoot, roots
  <2> HIDE DEF ends
  <2> QED BY <1>1, <2>1, <2>2, FirstIsTaken
<1>4. ASSUME SkillPresent(e.current, TRUE) PROVE BundledStorySkillRoot(e) = e.current
  BY <1>2, <1>4 DEF BundledStorySkillRoot
<1> QED BY <1>2, <1>3, <1>4

LEMMA PathsAgree == PortablePathsAgree
BY DEF PortablePathsAgree, ResolvePortablePath
-----------------------------------------------------------------------------
(***************************************************************************)
(* Project roots.                                                          *)
(***************************************************************************)
\* A walk finds the nearest directory of a set: the least index whose element is one.
LEMMA FirstInFacts ==
  ASSUME NEW start \in Dirs, NEW dirs, NEW d \in dirs, d \in Range(UpFrom(start))
  PROVE  /\ FirstIn(dirs, start) \in dirs \cap Range(UpFrom(start)) /\ FirstIn(dirs, start) \in Dirs
         /\ Len(UpFrom(FirstIn(dirs, start))) >= Len(UpFrom(d))
<1> DEFINE up == UpFrom(start)
           found == {i \in 1..Len(up) : up[i] \in dirs}
<1>1. up \in Seq(Dirs) /\ Len(up) \in Nat /\ DOMAIN up = 1..Len(up)
  BY ProjectRootAssumption, LenProperties
<1>2. PICK j \in 1..Len(up) : up[j] = d
  BY <1>1 DEF Range
<1>3. found \in SUBSET Nat /\ j \in found
  BY <1>1, <1>2
<1>4. Min(found) \in found /\ Min(found) <= j
  BY <1>3, SmallestFacts
<1> DEFINE at == Min(found)
<1>5. FirstIn(dirs, start) = up[at]
  BY <1>3, <1>4 DEF FirstIn, SelectInSeq
<1>6. \A i \in 1..Len(up) : Len(UpFrom(up[i])) = Len(up) - i + 1 /\ up[i] \in Dirs
  <2> TAKE i \in 1..Len(up)
  <2>1. UpFrom(up[i]) = SubSeq(up, i, Len(up))
    BY <1>1, ProjectRootAssumption
  <2>2. Len(SubSeq(up, i, Len(up))) = Len(up) - i + 1
    BY <1>1, SubSeqProperties
  <2>3. up[i] \in Dirs
    BY <1>1, ElementOfSeq
  <2> QED BY <2>1, <2>2, <2>3
<1>7. at \in 1..Len(up) /\ up[at] \in dirs
  BY <1>4
<1> HIDE DEF at, found
<1>8. up[at] \in Range(up)
  BY <1>1, <1>7 DEF Range
<1>9. Len(UpFrom(up[at])) >= Len(UpFrom(d))
  <2>1. at <= j
    BY <1>4 DEF at
  <2>2. Len(UpFrom(up[at])) = Len(up) - at + 1 /\ Len(UpFrom(d)) = Len(up) - j + 1
    BY <1>2, <1>6, <1>7
  <2> HIDE DEF up
  <2> QED BY <1>1, <1>2, <1>7, <2>1, <2>2
<1> QED BY <1>5, <1>6, <1>7, <1>8, <1>9

LEMMA ChosenFacts ==
  ASSUME NEW a, NEW b, NEW c, a # NoRoot
  PROVE  ChosenRoot(<<a, b, c>>) = a
<1> DEFINE roots == <<a, b, c>> there == {i \in 1..Len(roots) : roots[i] # NoRoot}
<1>1. there \in SUBSET Nat /\ 1 \in there /\ \A i \in there : 1 <= i
  OBVIOUS
<1>2. Min(there) \in there /\ Min(there) <= 1
  BY <1>1, SmallestFacts
<1>3. Min(there) = 1
  <2> DEFINE least == Min(there)
  <2>1. least \in Nat /\ 1 <= least /\ least <= 1
    BY <1>1, <1>2
  <2> HIDE DEF least
  <2>2. least = 1
    BY <2>1
  <2> QED BY <2>2 DEF least
<1>4. there # {}
  BY <1>1
<1> QED BY <1>3, <1>4 DEF ChosenRoot, SelectInSeq

LEMMA RootInit_Inv == RootInit => WorkingProjectWins
BY DEF RootInit, WorkingProjectWins, NotResolved

LEMMA RootStepInv == ASSUME WorkingProjectWins, [RootNext]_rootVars PROVE WorkingProjectWins'
<1>1. ASSUME NEW cwd \in WorkDirs, NEW script \in ScriptDirs, NEW skill \in SkillDirs, ResolveRoot(cwd, script, skill)
      PROVE  WorkingProjectWins'
  <2> DEFINE Ours == bmads \cap Range(UpFrom(cwd))
  <2>1. /\ bmads' = bmads /\ resolved'.cwd = cwd
        /\ resolved'.root = ChosenRoot(<<FindProjectRoot(cwd), ScriptProjectRoot(script), FindProjectRoot(skill)>>)
    BY <1>1 DEF ResolveRoot, CandidateProjectRoots
  <2>2. ASSUME NEW d \in Ours PROVE resolved'.root \in Ours /\ Len(UpFrom(resolved'.root)) >= Len(UpFrom(d))
    <3>1. cwd \in Dirs
      BY ProjectRootAssumption
    <3>2. /\ FirstIn(bmads, cwd) \in Ours /\ FirstIn(bmads, cwd) \in Dirs
          /\ Len(UpFrom(FirstIn(bmads, cwd))) >= Len(UpFrom(d))
      BY <3>1, FirstInFacts
    <3>3. FirstIn(bmads, cwd) # NoRoot
      BY <3>2, ProjectRootAssumption
    <3>4. FindProjectRoot(cwd) = FirstIn(bmads, cwd)
      BY <3>3 DEF FindProjectRoot
    <3>5. resolved'.root = FirstIn(bmads, cwd)
      BY <2>1, <3>3, <3>4, ChosenFacts
    <3> QED BY <3>2, <3>5
  <2> QED BY <2>1, <2>2 DEF WorkingProjectWins
<1>2. ASSUME Making PROVE WorkingProjectWins'
  <2>1. resolved' = [resolved EXCEPT !.current = FALSE]
    BY <1>2 DEF Making
  <2> QED BY <2>1 DEF WorkingProjectWins
<1>3. CASE UNCHANGED rootVars
  BY <1>3 DEF rootVars, WorkingProjectWins
<1>4. ASSUME NEW d \in Dirs, InstallBmad(d) \/ InitGit(d) \/ WriteOverride(d) PROVE Making
  BY <1>4 DEF InstallBmad, InitGit, WriteOverride
<1>5. CASE RootNext
  BY <1>1, <1>2, <1>4, <1>5 DEF RootNext
<1> QED BY <1>3, <1>5
-----------------------------------------------------------------------------
\* Where the scripts find things: the roots that are there, and the tree of the projects.
LEMMA LayoutInit_Types == LayoutInit => LayoutTypeOK
BY LayoutAssumption DEF LayoutInit, LayoutTypeOK

LEMMA LayoutStepTypes == ASSUME LayoutTypeOK, [LayoutNext]_layoutVars PROVE LayoutTypeOK'
<1>1. ASSUME NEW root \in SkillsRoots, NEW what, InstallSkill(root, what) PROVE LayoutTypeOK'
  BY <1>1, LayoutAssumption DEF InstallSkill, Change, LayoutTypeOK
<1>2. ASSUME NEW place \in Places, WriteArtifactAt(place) PROVE LayoutTypeOK'
  <2>1. artifacts' \subseteq Places
    BY <1>2 DEF WriteArtifactAt, LayoutTypeOK, Places
  <2> QED BY <1>2, <2>1, LayoutAssumption DEF WriteArtifactAt, Change, LayoutTypeOK
<1>3. CASE UNCHANGED layoutVars
  BY <1>3 DEF layoutVars, LayoutTypeOK
<1> QED BY <1>1, <1>2, <1>3 DEF LayoutNext

LEMMA FirstInType ==
  ASSUME NEW start \in Dirs, NEW dirs
  PROVE  FirstIn(dirs, start) \in Dirs \cup {NoRoot}
<1> DEFINE up == UpFrom(start)
           found == {i \in 1..Len(up) : up[i] \in dirs}
<1>1. up \in Seq(Dirs) /\ Len(up) \in Nat /\ DOMAIN up = 1..Len(up)
  BY ProjectRootAssumption, LenProperties
<1>2. CASE found = {}
  BY <1>2 DEF FirstIn, SelectInSeq
<1>3. ASSUME NEW j \in found PROVE FirstIn(dirs, start) \in Dirs \cup {NoRoot}
  <2>1. found \in SUBSET Nat
    BY <1>1
  <2>2. Min(found) \in found
    BY <2>1, SmallestFacts
  <2> DEFINE at == Min(found)
  <2>3. FirstIn(dirs, start) = up[at]
    BY <1>3, <2>2 DEF FirstIn, SelectInSeq
  <2>4. at \in 1..Len(up)
    BY <2>2
  <2> HIDE DEF at, found
  <2>5. up[at] \in Dirs
    BY <1>1, <2>4, ElementOfSeq
  <2> QED BY <2>3, <2>5
<1> QED BY <1>2, <1>3

LEMMA ChosenType ==
  ASSUME NEW S, NEW a \in S, NEW b \in S, NEW c \in S
  PROVE  ChosenRoot(<<a, b, c>>) \in S \cup {NoRoot}
<1> DEFINE roots == <<a, b, c>> there == {i \in 1..Len(roots) : roots[i] # NoRoot}
<1>1. CASE there = {}
  BY <1>1 DEF ChosenRoot, SelectInSeq
<1>2. ASSUME NEW j \in there PROVE ChosenRoot(<<a, b, c>>) \in S
  <2>1. there \in SUBSET Nat
    OBVIOUS
  <2>2. Min(there) \in there
    BY <2>1, SmallestFacts
  <2>3. ChosenRoot(<<a, b, c>>) = roots[Min(there)]
    BY <1>2, <2>2 DEF ChosenRoot, SelectInSeq
  <2>4. \A i \in 1..3 : roots[i] \in S
    OBVIOUS
  <2>5. there \subseteq 1..3
    OBVIOUS
  <2> DEFINE at == Min(there)
  <2>6. at \in 1..3
    BY <2>2, <2>5
  <2> HIDE DEF there, roots, at
  <2>7. ChosenRoot(<<a, b, c>>) = roots[at]
    BY <2>3 DEF at
  <2> QED BY <2>4, <2>6, <2>7
<1> QED BY <1>1, <1>2

RootTypeInv == RootTypeOK /\ "root" \in DOMAIN resolved
LEMMA RootInit_Types == RootInit => RootTypeInv
BY ProjectRootAssumption DEF RootInit, RootTypeInv, RootTypeOK, NotResolved

LEMMA RootStepTypes == ASSUME RootTypeInv, [RootNext]_rootVars PROVE RootTypeInv'
<1>1. ASSUME NEW cwd \in WorkDirs, NEW script \in ScriptDirs, NEW skill \in SkillDirs, ResolveRoot(cwd, script, skill)
      PROVE  RootTypeInv'
  <2> DEFINE S == Dirs \cup {NoRoot}
  <2>1. /\ UNCHANGED <<bmads, gits, overrides, makes>> /\ "root" \in DOMAIN resolved'
        /\ resolved'.root = ChosenRoot(<<FindProjectRoot(cwd), ScriptProjectRoot(script), FindProjectRoot(skill)>>)
    BY <1>1 DEF ResolveRoot, CandidateProjectRoots
  <2>2. cwd \in Dirs /\ skill \in Dirs /\ script \in Dirs
    BY ProjectRootAssumption
  <2>3. FindProjectRoot(cwd) \in S /\ FindProjectRoot(skill) \in S /\ ScriptProjectRoot(script) \in S
    BY <2>2, FirstInType DEF FindProjectRoot, ScriptProjectRoot
  <2> HIDE DEF S
  <2>4. ChosenRoot(<<FindProjectRoot(cwd), ScriptProjectRoot(script), FindProjectRoot(skill)>>) \in S \cup {NoRoot}
    BY <2>3, ChosenType
  <2> QED BY <2>1, <2>4 DEF RootTypeInv, RootTypeOK, S
<1>2. ASSUME Making PROVE makes' \in 0..MaxMakes /\ resolved'.root = resolved.root /\ "root" \in DOMAIN resolved'
  BY <1>2, ProjectRootAssumption DEF Making, RootTypeInv, RootTypeOK
<1>3. CASE UNCHANGED rootVars
  BY <1>3 DEF rootVars, RootTypeInv, RootTypeOK
<1>4. ASSUME NEW d \in Dirs, InstallBmad(d) \/ InitGit(d) \/ WriteOverride(d) PROVE RootTypeInv'
  BY <1>2, <1>4 DEF InstallBmad, InitGit, WriteOverride, RootTypeInv, RootTypeOK
<1> QED BY <1>1, <1>3, <1>4 DEF RootNext

\* The pinned policies: a document names a snapshot that is there.
DocFields == {"exists", "file", "hash", "version", "legacy", "cut"}
SnapshotsIn(S) == policySnapshots \in Seq(S)
PolicyTypeInv ==
  /\ PolicyTypeOK /\ DOMAIN docs = Docs /\ (\A path \in Docs : DOMAIN docs[path] = DocFields)
  /\ building \in Docs \cup {Nowhere} /\ \E S : SnapshotsIn(S)

LEMMA DocFieldsStay ==
  /\ DOMAIN NoDocument = DocFields /\ NoDocument.file = 0
  /\ \A old : DOMAIN old = DocFields =>
       /\ DOMAIN [old EXCEPT !.file = 0] = DocFields /\ [old EXCEPT !.file = 0].file = 0
       /\ DOMAIN [old EXCEPT !.hash = <<>>] = DocFields /\ [old EXCEPT !.hash = <<>>].file = old.file
       /\ DOMAIN [old EXCEPT !.file = 0, !.hash = <<>>] = DocFields /\ [old EXCEPT !.file = 0, !.hash = <<>>].file = 0
       /\ DOMAIN [old EXCEPT !.legacy = "true"] = DocFields /\ [old EXCEPT !.legacy = "true"].file = old.file
       /\ DOMAIN [old EXCEPT !.legacy = "", !.version = FALSE] = DocFields
       /\ [old EXCEPT !.legacy = "", !.version = FALSE].file = old.file
BY DEF DocFields, NoDocument

LEMMA PolicyInit_Types == PolicyInit => PolicyTypeInv
<1> SUFFICES ASSUME PolicyInit PROVE PolicyTypeInv
  OBVIOUS
<1>1. Len(policySnapshots) = 0 /\ SnapshotsIn({})
  BY DEF PolicyInit, SnapshotsIn
<1>2. \A path \in Docs : docs[path] = NoDocument
  BY DEF PolicyInit
<1>3. \A path \in Docs : DOMAIN docs[path] = DocFields /\ docs[path].file = 0
  BY <1>2, DocFieldsStay
<1>4. DOMAIN docs = Docs /\ policyChanges = 0 /\ building = Nowhere /\ RunIsNamed
  BY RunIsNamedInit DEF PolicyInit
<1> QED BY <1>1, <1>3, <1>4, PolicyAssumption DEF PolicyTypeInv, PolicyTypeOK, RunIsNamed

LEMMA PolicyStepTypes == ASSUME PolicyTypeInv, [PolicyNext]_policyVars PROVE PolicyTypeInv'
<1>1. RunIsNamed'
  BY RunStaysNamed DEF PolicyTypeInv, PolicyTypeOK, RunIsNamed
<1>2. PICK S : SnapshotsIn(S)
  BY DEF PolicyTypeInv
<1>3. policySnapshots \in Seq(S) /\ Len(policySnapshots) \in Nat /\ DOMAIN policySnapshots = 1..Len(policySnapshots)
  BY <1>2, LenProperties DEF SnapshotsIn
<1> DEFINE Held == policyChanges' \in 0..MaxPolicyChanges
           Grown == (\E T : SnapshotsIn(T)') /\ Len(policySnapshots') <= MaxSnapshots /\ Len(policySnapshots') >= Len(policySnapshots) /\ Len(policySnapshots') \in Nat
           Shaped == DOMAIN docs' = Docs /\ \A path \in Docs : DOMAIN docs'[path] = DocFields /\ docs'[path].file \in 0..Len(policySnapshots)
           Built == building' \in Docs \cup {Nowhere}
<1>4. ASSUME Held, Grown, Shaped, Built PROVE PolicyTypeInv'
  <2>1. \A path \in Docs : docs'[path].file \in 0..Len(policySnapshots')
    BY <1>4, <1>3
  <2> QED BY <1>1, <1>4, <2>1 DEF PolicyTypeInv, PolicyTypeOK, RunIsNamed
<1>5. ASSUME policyChanges' = policyChanges PROVE Held
  BY <1>5 DEF PolicyTypeInv, PolicyTypeOK
<1>6. ASSUME policySnapshots' = policySnapshots PROVE Grown
  BY <1>6, <1>2, <1>3 DEF PolicyTypeInv, PolicyTypeOK, SnapshotsIn
<1>7. ASSUME docs' = docs PROVE Shaped
  BY <1>7 DEF PolicyTypeInv, PolicyTypeOK
<1>8. ASSUME building' = building PROVE Built
  BY <1>8 DEF PolicyTypeInv
<1>9. ASSUME Edit PROVE Held /\ Built
  BY <1>9, PolicyAssumption DEF Edit, PolicyTypeInv, PolicyTypeOK
<1>10. ASSUME NEW path \in Docs, WriteSnapshot(path) PROVE PolicyTypeInv'
  <2> DEFINE policy == LoadEffectivePolicy(TRUE)
             new == <<[budget |-> policy.budget, template |-> policy.template, contract |-> policy.contract]>>
  <2>1. policySnapshots' = Append(policySnapshots, new) /\ Len(policySnapshots) < MaxSnapshots
        /\ UNCHANGED <<docs, policyChanges>> /\ building' = path
    BY <1>10 DEF WriteSnapshot
  <2> HIDE DEF new
  <2>2. policySnapshots \in Seq(S \cup {new})
    BY <1>3, SeqMonotonic
  <2>3. policySnapshots' \in Seq(S \cup {new}) /\ Len(policySnapshots') = Len(policySnapshots) + 1
    BY <2>1, <2>2
  <2>4. Grown
    BY <1>3, <2>1, <2>3, PolicyAssumption DEF SnapshotsIn
  <2> QED BY <1>4, <1>5, <1>7, <2>1, <2>4
<1>11. ASSUME WriteStateDoc PROVE PolicyTypeInv'
  <2>1. building \in Docs /\ building' = Nowhere /\ UNCHANGED <<policySnapshots, policyChanges>>
    BY <1>11 DEF WriteStateDoc, PolicyTypeInv
  <2> DEFINE Written(cut) == [exists |-> TRUE, file |-> Len(policySnapshots), hash |-> policySnapshots[Len(policySnapshots)],
                              version |-> TRUE, legacy |-> "false", cut |-> cut]
  <2>2. PICK cut : docs' = [docs EXCEPT ![building] = Written(cut)]
    BY <1>11 DEF WriteStateDoc
  <2>3. DOMAIN Written(cut) = DocFields /\ Written(cut).file = Len(policySnapshots)
    BY DEF DocFields
  <2> HIDE DEF Written
  <2>4. Shaped
    BY <2>1, <2>2, <2>3, <1>3 DEF PolicyTypeInv, PolicyTypeOK
  <2> QED BY <1>4, <1>5, <1>6, <2>1, <2>4
<1>12. ASSUME NEW path \in Docs, EditDoc(path) PROVE PolicyTypeInv'
  <2>1. Edit /\ policySnapshots' = policySnapshots
    BY <1>12 DEF EditDoc
  <2> DEFINE old == docs[path]
  <2>2. DOMAIN old = DocFields /\ old.file \in 0..Len(policySnapshots)
    BY DEF PolicyTypeInv, PolicyTypeOK
  <2>3. PICK new : docs' = [docs EXCEPT ![path] = new] /\ DOMAIN new = DocFields /\ new.file \in {0, old.file}
    <3>1. CASE docs' = [docs EXCEPT ![path] = [old EXCEPT !.file = 0]]
      <4> DEFINE new == [old EXCEPT !.file = 0]
      <4>1. DOMAIN new = DocFields /\ new.file \in {0, old.file}
        BY <2>2, DocFieldsStay
      <4>2. docs' = [docs EXCEPT ![path] = new]
        BY <3>1
      <4> HIDE DEF new, old
      <4> QED BY <4>1, <4>2
    <3>2. CASE docs' = [docs EXCEPT ![path] = [old EXCEPT !.hash = <<>>]]
      <4> DEFINE new == [old EXCEPT !.hash = <<>>]
      <4>1. DOMAIN new = DocFields /\ new.file \in {0, old.file}
        BY <2>2, DocFieldsStay
      <4>2. docs' = [docs EXCEPT ![path] = new]
        BY <3>2
      <4> HIDE DEF new, old
      <4> QED BY <4>1, <4>2
    <3>3. CASE docs' = [docs EXCEPT ![path] = [old EXCEPT !.file = 0, !.hash = <<>>]]
      <4> DEFINE new == [old EXCEPT !.file = 0, !.hash = <<>>]
      <4>1. DOMAIN new = DocFields /\ new.file \in {0, old.file}
        BY <2>2, DocFieldsStay
      <4>2. docs' = [docs EXCEPT ![path] = new]
        BY <3>3
      <4> HIDE DEF new, old
      <4> QED BY <4>1, <4>2
    <3>4. CASE docs' = [docs EXCEPT ![path] = [old EXCEPT !.legacy = "true"]]
      <4> DEFINE new == [old EXCEPT !.legacy = "true"]
      <4>1. DOMAIN new = DocFields /\ new.file \in {0, old.file}
        BY <2>2, DocFieldsStay
      <4>2. docs' = [docs EXCEPT ![path] = new]
        BY <3>4
      <4> HIDE DEF new, old
      <4> QED BY <4>1, <4>2
    <3>5. CASE docs' = [docs EXCEPT ![path] = [old EXCEPT !.legacy = "", !.version = FALSE]]
      <4> DEFINE new == [old EXCEPT !.legacy = "", !.version = FALSE]
      <4>1. DOMAIN new = DocFields /\ new.file \in {0, old.file}
        BY <2>2, DocFieldsStay
      <4>2. docs' = [docs EXCEPT ![path] = new]
        BY <3>5
      <4> HIDE DEF new, old
      <4> QED BY <4>1, <4>2
    <3>6. CASE docs' = [docs EXCEPT ![path] = NoDocument]
      BY <3>6, DocFieldsStay
    <3> QED BY <1>12, <3>1, <3>2, <3>3, <3>4, <3>5, <3>6 DEF EditDoc
  <2> HIDE DEF old
  <2>4. Shaped
    BY <2>2, <2>3, <1>3 DEF PolicyTypeInv, PolicyTypeOK
  <2> QED BY <1>4, <1>6, <1>9, <2>1, <2>4
<1>13. ASSUME NEW i \in DOMAIN policySnapshots, EditSnapshot(i) PROVE PolicyTypeInv'
  <2>1. Edit /\ docs' = docs
    BY <1>13 DEF EditSnapshot
  <2>2. PICK new : policySnapshots' = [policySnapshots EXCEPT ![i] = new]
    <3>1. CASE policySnapshots' = [policySnapshots EXCEPT ![i] = <<>>]
      BY <3>1
    <3>2. ASSUME NEW b, policySnapshots' = [policySnapshots EXCEPT ![i][1].budget = b]
          PROVE  \E new : policySnapshots' = [policySnapshots EXCEPT ![i] = new]
      <4>1. policySnapshots' = [policySnapshots EXCEPT ![i] = [policySnapshots[i] EXCEPT ![1].budget = b]]
        BY <3>2, Zenon
      <4> QED BY <4>1
    <3> QED BY <1>13, <3>1, <3>2 DEF EditSnapshot
  <2>3. policySnapshots \in Seq(S \cup {new})
    BY <1>3, SeqMonotonic
  <2>4. policySnapshots' \in Seq(S \cup {new}) /\ Len(policySnapshots') = Len(policySnapshots)
    BY <1>3, <2>2, <2>3, ExceptSeq
  <2>5. Grown
    BY <1>3, <2>4 DEF SnapshotsIn, PolicyTypeInv, PolicyTypeOK
  <2> QED BY <1>4, <1>7, <1>9, <2>1, <2>5
<1>14. CASE UNCHANGED <<docs, policySnapshots>>
  <2>1. CASE BuildDies \/ MarkerRemove \/ UNCHANGED policyVars
    BY <1>4, <1>5, <1>6, <1>7, <1>8, <1>14, <2>1 DEF BuildDies, MarkerRemove, policyVars
  <2>2. ASSUME NEW path, MarkerCreate(path) PROVE PolicyTypeInv'
    BY <1>4, <1>5, <1>6, <1>7, <1>8, <1>14, <2>2 DEF MarkerCreate
  <2>3. ASSUME NEW explicit, NEW full, Load(explicit, full) PROVE PolicyTypeInv'
    BY <1>4, <1>5, <1>6, <1>7, <1>8, <1>14, <2>3 DEF Load
  <2>4. CASE Edit
    BY <1>4, <1>6, <1>7, <1>9, <1>14, <2>4
  <2>5. ASSUME NEW name, EditFile(name) PROVE Edit
    BY <2>5 DEF EditFile
  <2>6. CASE EditLayers \/ BreakMarker
    BY <2>4, <2>6 DEF EditLayers, BreakMarker
  <2> QED BY <1>10, <1>11, <1>12, <1>13, <2>1, <2>2, <2>3, <2>4, <2>5, <2>6 DEF PolicyNext
<1>15. ASSUME NEW path, MarkerCreate(path) PROVE UNCHANGED <<docs, policySnapshots>>
  BY <1>15 DEF MarkerCreate
<1>16. ASSUME NEW explicit, NEW full, Load(explicit, full) PROVE UNCHANGED <<docs, policySnapshots>>
  BY <1>16 DEF Load
<1>17. ASSUME NEW name, EditFile(name) PROVE UNCHANGED <<docs, policySnapshots>>
  BY <1>17 DEF EditFile
<1>18. ASSUME BuildDies \/ MarkerRemove \/ BreakMarker \/ EditLayers \/ UNCHANGED policyVars PROVE UNCHANGED <<docs, policySnapshots>>
  BY <1>18 DEF BuildDies, MarkerRemove, BreakMarker, EditLayers, policyVars
<1> QED BY <1>10, <1>11, <1>12, <1>13, <1>14, <1>15, <1>16, <1>17, <1>18 DEF PolicyNext
-----------------------------------------------------------------------------
\* The sprint file: each document that a command holds is one of those there are.
DocStates == {"none", "broken", "good"}
Stated(c) == c.original.state \in DocStates /\ c.new.state \in DocStates
SprintTypeInv ==
  /\ SprintInv /\ sprintFile.state \in DocStates /\ Stated(plan) /\ Stated(retro)
  /\ storyFiles \subseteq SprintKeys /\ turns \in 0..MaxTurns

LEMMA StatedFacts == Stated(Idle) /\ NoDoc.state \in DocStates /\ [NoDoc EXCEPT !.state = "broken"].state \in DocStates
BY DEF Stated, Idle, NoDoc, DocStates

LEMMA StatedEnded ==
  ASSUME NEW c, IsCommand(c), Stated(c), NEW outcome, NEW restored
  PROVE  Stated(Ended(c, outcome, restored))
BY DEF Stated, NoDoc, DocStates, IsCommand, Ended

LEMMA StatedDisturbed ==
  ASSUME NEW c, IsCommand(c), Stated(c)
  PROVE  Stated(Disturbed(c))
BY DEF Stated, IsCommand, Disturbed

LEMMA SprintTypesImply == SprintTypeInv => SprintTypeOK
<1> SUFFICES ASSUME SprintTypeInv PROVE SprintTypeOK
  OBVIOUS
<1>1. /\ DOMAIN sprintFile.dev \subseteq SprintKeys
      /\ plan.step \in {"idle", "bytes", "ok", "failed"} \cup Acting /\ retro.step \in {"idle", "load", "ok", "failed"} \cup Acting
  BY DEF SprintTypeInv, SprintInv, IsDoc, PlanInv, RetroInv
<1>2. epicDocs \subseteq SprintKeys
  BY SprintAssumption DEF SprintTypeInv, SprintInv
<1> QED BY <1>1, <1>2 DEF SprintTypeInv, SprintTypeOK, DocStates, Acting

LEMMA SprintInit_Types == SprintInit => SprintTypeInv
BY SprintInit_Inv, StatedFacts, SprintAssumption DEF SprintInit, SprintTypeInv

LEMMA SprintStepTypes == ASSUME SprintTypeInv, [SprintNext]_sprintVars PROVE SprintTypeInv'
<1>1. SprintInv'
  BY SprintStepInv DEF SprintTypeInv
<1>2. IsCommand(plan) /\ IsCommand(retro) /\ Stated(plan) /\ Stated(retro) /\ sprintFile.state \in DocStates
  BY DEF SprintTypeInv, SprintInv, PlanInv, RetroInv, CommandInv
<1>3. storyFiles' \subseteq SprintKeys
  <2>1. epicDocs \subseteq SprintKeys
    BY SprintAssumption DEF SprintTypeInv, SprintInv
  <2>2. storyFiles' = storyFiles \/ \E k \in epicDocs : storyFiles' = storyFiles \cup {k}
    BY DEF SprintNext, PlanLoad, PlanMerge, PlanWrite, PlanVerify, PlanRestore, PlanKilled, RetroBytes, RetroLoad,
       RetroWrite, RetroVerify, RetroRestore, RetroKilled, HandEdit, sprintVars
  <2> QED BY <2>1, <2>2 DEF SprintTypeInv
<1>4. turns' \in 0..MaxTurns
  <2>1. turns' = turns \/ (turns < MaxTurns /\ turns' = turns + 1)
    BY DEF SprintNext, PlanLoad, PlanMerge, PlanWrite, PlanVerify, PlanRestore, PlanKilled, RetroBytes, RetroLoad,
       RetroWrite, RetroVerify, RetroRestore, RetroKilled, HandEdit, sprintVars
  <2> QED BY <2>1, SprintAssumption DEF SprintTypeInv
<1> DEFINE New == sprintFile'.state \in DocStates /\ Stated(plan') /\ Stated(retro')
<1>5. ASSUME PlanLoad PROVE New
  <2>1. PICK fresh, sets :
          plan' = IF sprintFile.state = "broken"
                  THEN [Idle EXCEPT !.step = "failed", !.original = sprintFile]
                  ELSE [Idle EXCEPT !.step = "bytes", !.docs = epicDocs, !.loaded = sprintFile, !.fresh = fresh, !.sets = sets]
    BY <1>5 DEF PlanLoad
  <2>2. plan'.original \in {sprintFile, Idle.original} /\ plan'.new = Idle.new
    BY <2>1 DEF Idle
  <2> QED BY <1>2, <1>5, <2>2, StatedFacts DEF PlanLoad, Stated
<1>6. ASSUME PlanMerge PROVE New
  <2> DEFINE dev == BuildStatus(plan.docs, IF plan.fresh THEN <<>> ELSE plan.loaded.dev)
             doc == Doc(WithSets(dev, plan.sets), plan.loaded.items, plan.loaded.dated)
             read == [plan EXCEPT !.docs = {}, !.original = sprintFile, !.new = doc]
  <2>1. plan' = [read EXCEPT !.step = "write"] \/ plan' = Ended(read, "failed", TRUE)
    BY <1>6 DEF PlanMerge
  <2>2. doc.state \in DocStates
    BY DEF Doc, DocStates
  <2> HIDE DEF doc
  <2>3. IsCommand(read) /\ read.original = sprintFile /\ read.new = doc
    BY <1>2 DEF IsCommand
  <2> HIDE DEF read
  <2>4. Stated(read)
    BY <1>2, <2>2, <2>3 DEF Stated
  <2>5. Stated(plan')
    <3>1. CASE plan' = Ended(read, "failed", TRUE)
      BY <2>3, <2>4, <3>1, StatedEnded
    <3>2. CASE plan' = [read EXCEPT !.step = "write"]
      BY <2>3, <2>4, <3>2 DEF Stated, IsCommand
    <3> QED BY <2>1, <3>1, <3>2
  <2> QED BY <1>2, <1>6, <2>5 DEF PlanMerge, Stated
<1>7. ASSUME PlanWrite \/ PlanVerify \/ PlanRestore PROVE New
  <2>1. plan' = Ended(plan, "ok", FALSE) \/ plan' = Ended(plan, "failed", TRUE) \/ plan' = Ended(plan, "failed", FALSE)
          \/ plan' = [plan EXCEPT !.step = "verify"] \/ plan' = [plan EXCEPT !.step = "restore"]
    BY <1>7 DEF PlanWrite, PlanVerify, PlanRestore, PlanEnds
  <2>2. sprintFile' \in {sprintFile, plan.new, plan.original} /\ (retro' = retro \/ retro' = Disturbed(retro))
    BY <1>7 DEF PlanWrite, PlanVerify, PlanRestore, PlanEnds, ReplaceByPlan
  <2>3. Stated(plan') /\ Stated(retro')
    <3>1. ASSUME NEW to, plan' = [plan EXCEPT !.step = to] PROVE Stated(plan')
      BY <1>2, <3>1 DEF Stated, IsCommand
    <3>4. ASSUME NEW outcome, NEW restored, plan' = Ended(plan, outcome, restored) PROVE Stated(plan')
      BY <1>2, <3>4, StatedEnded
    <3>2. Stated(plan')
      <4>1. CASE \E to : plan' = [plan EXCEPT !.step = to]
        BY <3>1, <4>1
      <4>2. CASE \E outcome, restored : plan' = Ended(plan, outcome, restored)
        BY <3>4, <4>2
      <4> QED BY <2>1, <4>1, <4>2, Zenon
    <3>3. Stated(retro')
      BY <1>2, <2>2, StatedDisturbed
    <3> QED BY <3>2, <3>3
  <2>4. sprintFile'.state \in DocStates
    BY <1>2, <2>2 DEF Stated
  <2> QED BY <2>3, <2>4 DEF Stated
<1>8. ASSUME RetroBytes PROVE New
  <2>1. PICK r, to : retro' = [Idle EXCEPT !.request = r, !.original = sprintFile, !.step = to]
    BY <1>8 DEF RetroBytes
  <2>2. retro'.original = sprintFile /\ retro'.new = Idle.new
    BY <2>1 DEF Idle
  <2> QED BY <1>2, <1>8, <2>2, StatedFacts DEF RetroBytes, Stated
<1>9. ASSUME RetroLoad PROVE New
  <2>1. CASE retro' = Ended(retro, "failed", TRUE)
    <3>1. Stated(retro')
      BY <1>2, <2>1, StatedEnded, StatedDisturbed
    <3> QED BY <1>2, <1>9, <3>1 DEF RetroLoad, Stated
  <2>2. ASSUME NEW dev, NEW items, NEW dated,
               retro' = [retro EXCEPT !.step = "write", !.loaded = sprintFile, !.new = Doc(dev, items, dated)]
        PROVE  New
    <3>1. retro'.original = retro.original /\ retro'.new = Doc(dev, items, dated)
      BY <1>2, <2>2 DEF IsCommand
    <3>2. Doc(dev, items, dated).state \in DocStates
      BY DEF Doc, DocStates
    <3> QED BY <1>2, <1>9, <3>1, <3>2 DEF RetroLoad, Stated
  <2> QED BY <1>9, <2>1, <2>2 DEF RetroLoad
<1>10. ASSUME RetroWrite \/ RetroVerify \/ RetroRestore PROVE New
  <2>1. retro' = Ended(retro, "ok", FALSE) \/ retro' = Ended(retro, "failed", TRUE) \/ retro' = Ended(retro, "failed", FALSE)
          \/ retro' = [retro EXCEPT !.step = "verify"] \/ retro' = [retro EXCEPT !.step = "restore"]
    BY <1>10 DEF RetroWrite, RetroVerify, RetroRestore, RetroEnds
  <2>2. sprintFile' \in {sprintFile, retro.new, retro.original} /\ (plan' = plan \/ plan' = Disturbed(plan))
    BY <1>10 DEF RetroWrite, RetroVerify, RetroRestore, RetroEnds, ReplaceByRetro
  <2>3. Stated(plan') /\ Stated(retro')
    <3>1. ASSUME NEW to, retro' = [retro EXCEPT !.step = to] PROVE Stated(retro')
      BY <1>2, <3>1 DEF Stated, IsCommand
    <3>4. ASSUME NEW outcome, NEW restored, retro' = Ended(retro, outcome, restored) PROVE Stated(retro')
      BY <1>2, <3>4, StatedEnded
    <3>2. Stated(retro')
      <4>1. CASE \E to : retro' = [retro EXCEPT !.step = to]
        BY <3>1, <4>1
      <4>2. CASE \E outcome, restored : retro' = Ended(retro, outcome, restored)
        BY <3>4, <4>2
      <4> QED BY <2>1, <4>1, <4>2, Zenon
    <3>3. Stated(plan')
      BY <1>2, <2>2, StatedDisturbed
    <3> QED BY <3>2, <3>3
  <2>4. sprintFile'.state \in DocStates
    BY <1>2, <2>2 DEF Stated
  <2> QED BY <2>3, <2>4 DEF Stated
<1>11. ASSUME PlanKilled \/ RetroKilled PROVE New
  BY <1>2, <1>11, StatedFacts DEF PlanKilled, RetroKilled, Stated
<1>12. ASSUME HandEdit PROVE New
  <2>1. (plan' = plan \/ plan' = Disturbed(plan)) /\ (retro' = retro \/ retro' = Disturbed(retro))
    BY <1>12 DEF HandEdit
  <2>2. Stated(plan') /\ Stated(retro')
    BY <1>2, <2>1, StatedEnded, StatedDisturbed
  <2>3. sprintFile'.state \in DocStates
    <3>1. ASSUME NEW dev, sprintFile' = [sprintFile EXCEPT !.dev = dev] PROVE sprintFile'.state = sprintFile.state
      BY <3>1 DEF SprintTypeInv, SprintInv, IsDoc
    <3>2. sprintFile' = sprintFile \/ sprintFile' = [NoDoc EXCEPT !.state = "broken"]
            \/ (\E dev : sprintFile' = [sprintFile EXCEPT !.dev = dev]) \/ sprintFile' = [sprintFile EXCEPT !.dated = FALSE]
      BY <1>12 DEF HandEdit
    <3>3. ASSUME sprintFile' = [sprintFile EXCEPT !.dated = FALSE] PROVE sprintFile'.state = sprintFile.state
      BY <3>3 DEF SprintTypeInv, SprintInv, IsDoc
    <3> QED BY <1>2, <3>1, <3>2, <3>3, StatedFacts
  <2> QED BY <2>2, <2>3 DEF Stated
<1>13. ASSUME UNCHANGED sprintVars PROVE New
  BY <1>2, <1>13 DEF sprintVars, Stated
<1> HIDE DEF New
<1>14. New
  BY <1>5, <1>6, <1>7, <1>8, <1>9, <1>10, <1>11, <1>12, <1>13 DEF SprintNext
<1> QED BY <1>1, <1>3, <1>4, <1>14 DEF SprintTypeInv, New, Stated

\* The orchestrator's commands.
CommandsTypeInv == CommandsInv /\ OrchestrationTypeOK
LEMMA CommandsInit_Types == OrchestrationInit => CommandsTypeInv
<1> SUFFICES ASSUME OrchestrationInit PROVE CommandsTypeInv
  OBVIOUS
<1>1. CommandsInv
  BY CommandsInit_Inv
<1>2. monitor.polls = 0 /\ repository.committed = 0 /\ repository.staged = 0 /\ repository.changed = 0 /\ DOMAIN documents = {}
  BY DEF OrchestrationInit, NoMonitor
<1> QED BY <1>1, <1>2, OrchestrationAssumption DEF CommandsTypeInv, OrchestrationTypeOK, CommandsInv, CommandsShape

LEMMA CommandsStepTypes == ASSUME CommandsTypeInv, [OrchestrationNext]_orchestrationVars PROVE CommandsTypeInv'
<1>1. CommandsInv' /\ CommandsInv
  BY CommandsStepInv DEF CommandsTypeInv
<1>2. session' \in SessionEnds \cup {"in_progress", "not_found"} /\ repository'.staged <= repository'.changed
  BY <1>1 DEF CommandsInv, CommandsShape, CommittedInv
<1>3. monitor \in MonitorStates /\ repository \in Repositories /\ monitor.polls \in 0..MaxPolls
  BY DEF CommandsTypeInv, CommandsInv, CommandsShape, OrchestrationTypeOK
<1>4. monitor'.polls \in 0..MaxPolls
  <2>1. CASE monitor' = NoMonitor
    <3>1. monitor'.polls = 0
      BY <2>1 DEF NoMonitor
    <3> QED BY <3>1, OrchestrationAssumption
  <2>2. ASSUME NEW workflow, NEW key, monitor' = [NoMonitor EXCEPT !.step = "poll", !.workflow = workflow, !.key = key]
        PROVE  monitor'.polls \in 0..MaxPolls
    <3>1. monitor'.polls = 0
      BY <2>2 DEF NoMonitor
    <3> QED BY <3>1, OrchestrationAssumption
  <2>3. \A reply, verified : Answered(reply, verified).polls = monitor.polls
    BY <1>3 DEF Answered, MonitorStates
  <2>4. CASE MonitorPoll
    <3>1. CASE monitor.polls # MaxPolls /\ monitor' = [monitor EXCEPT !.step = "verify", !.seen = session, !.polls = @ + 1]
      <4>1. monitor'.polls = monitor.polls + 1
        BY <1>3, <3>1 DEF MonitorStates
      <4> QED BY <1>3, <3>1, <4>1, OrchestrationAssumption
    <3>2. CASE monitor.polls # MaxPolls /\ monitor' = [monitor EXCEPT !.seen = session, !.polls = @ + 1]
      <4>1. monitor'.polls = monitor.polls + 1
        BY <1>3, <3>2 DEF MonitorStates
      <4> QED BY <1>3, <3>2, <4>1, OrchestrationAssumption
    <3>3. CASE monitor' = [Answered(session, FALSE) EXCEPT !.seen = session]
      <4>1. monitor'.polls = Answered(session, FALSE).polls
        BY <1>3, <3>3 DEF Answered, MonitorStates
      <4> QED BY <1>3, <2>3, <4>1
    <3>4. CASE monitor' = Answered("timeout", FALSE)
      BY <1>3, <2>3, <3>4
    <3> QED BY <2>4, <3>1, <3>2, <3>3, <3>4 DEF MonitorPoll
  <2>5. CASE MonitorTimesOut
    BY <1>3, <2>3, <2>5 DEF MonitorTimesOut
  <2>6. CASE MonitorVerify
    <3>1. \E reply, verified : monitor' = Answered(reply, verified)
      BY <2>6 DEF MonitorVerify
    <3> QED BY <1>3, <2>3, <3>1
  <2>7. CASE MonitorStart
    BY <2>2, <2>7 DEF MonitorStart
  <2>8. CASE monitor' = monitor
    BY <1>3, <2>8
  <2>9. ASSUME NEW d, StateCreate(d) \/ \E status \in States : StateUpdate(d, status) PROVE monitor' = monitor
    BY <2>9 DEF StateCreate, StateUpdate
  <2>10. CASE Marking \/ CommitStory
    BY <2>8, <2>10 DEF Marking, CreateMarker, RemoveMarker, HeartbeatReads, HeartbeatWrites, OrchestratorCrashes,
       CommitStory, CommitStatus, CommitAdd, CommitCommit, CommitReturns
  <2>11. CASE SessionWorks \/ SessionStops \/ SessionIsKilled \/ Resume \/ UNCHANGED orchestrationVars
    BY <2>8, <2>11 DEF SessionWorks, SessionStops, SessionIsKilled, Resume, orchestrationVars
  <2>12. CASE Monitoring
    BY <2>1, <2>4, <2>5, <2>6, <2>7, <2>12 DEF Monitoring, MonitorReturns
  <2> QED BY <2>8, <2>9, <2>10, <2>11, <2>12 DEF OrchestrationNext
<1>5. repository'.committed <= repository'.staged
  <2>1. repository.committed <= repository.staged /\ repository.staged <= repository.changed
    BY DEF CommandsTypeInv, OrchestrationTypeOK
  <2>2. CASE repository' = [repository EXCEPT !.changed = @ + 1]
    BY <1>3, <2>1, <2>2 DEF Repositories
  <2>3. CASE repository' = [repository EXCEPT !.staged = repository.changed]
    BY <1>3, <2>1, <2>3 DEF Repositories
  <2>4. CASE repository' = [repository EXCEPT !.committed = repository.staged]
    BY <1>3, <2>1, <2>4 DEF Repositories
  <2>5. ASSUME NEW d, StateCreate(d) \/ \E status \in States : StateUpdate(d, status) PROVE repository' = repository
    BY <2>5 DEF StateCreate, StateUpdate
  <2>6. CASE Marking \/ Monitoring
    BY <2>1, <2>6 DEF Marking, CreateMarker, RemoveMarker, HeartbeatReads, HeartbeatWrites, OrchestratorCrashes,
       Monitoring, MonitorStart, MonitorTimesOut, MonitorPoll, MonitorVerify, MonitorReturns
  <2>7. CASE CommitStory
    BY <2>1, <2>3, <2>4, <2>7 DEF CommitStory, CommitStatus, CommitAdd, CommitCommit, CommitReturns
  <2>8. CASE SessionWorks
    BY <2>2, <2>8 DEF SessionWorks
  <2>9. CASE SessionStops \/ SessionIsKilled \/ Resume \/ UNCHANGED orchestrationVars
    BY <2>1, <2>9 DEF SessionStops, SessionIsKilled, Resume, orchestrationVars
  <2> QED BY <2>1, <2>5, <2>6, <2>7, <2>8, <2>9 DEF OrchestrationNext
<1>6. DOMAIN documents' \subseteq Documents
  <2>1. DOMAIN documents \subseteq Documents
    BY DEF CommandsTypeInv, OrchestrationTypeOK
  <2>2. ASSUME NEW d \in Documents, StateCreate(d) \/ \E status \in States : StateUpdate(d, status)
        PROVE  DOMAIN documents' \subseteq Documents
    BY <2>1, <2>2 DEF StateCreate, StateUpdate
  <2>3. CASE Resume
    BY <2>1, <2>3 DEF Resume
  <2>4. CASE Marking \/ Monitoring
    BY <2>1, <2>4 DEF Marking, CreateMarker, RemoveMarker, HeartbeatReads, HeartbeatWrites, OrchestratorCrashes,
       Monitoring, MonitorStart, MonitorTimesOut, MonitorPoll, MonitorVerify, MonitorReturns
  <2>5. CASE CommitStory
    BY <2>1, <2>5 DEF CommitStory, CommitStatus, CommitAdd, CommitCommit, CommitReturns
  <2>6. CASE SessionWorks \/ SessionStops \/ SessionIsKilled \/ UNCHANGED orchestrationVars
    BY <2>1, <2>6 DEF SessionWorks, SessionStops, SessionIsKilled, orchestrationVars
  <2> QED BY <2>2, <2>3, <2>4, <2>5, <2>6 DEF OrchestrationNext
<1> QED BY <1>1, <1>2, <1>4, <1>5, <1>6 DEF CommandsTypeInv, OrchestrationTypeOK
-----------------------------------------------------------------------------
\* The files of a module setup: partial functions into the values, whatever is merged.
LEMMA PartialIs ==
  ASSUME NEW D, NEW R, NEW f
  PROVE  f \in Partial(D, R) <=> f = [k \in DOMAIN f |-> f[k]] /\ DOMAIN f \subseteq D /\ \A k \in DOMAIN f : f[k] \in R
<1>1. ASSUME f \in Partial(D, R) PROVE f = [k \in DOMAIN f |-> f[k]] /\ DOMAIN f \subseteq D /\ \A k \in DOMAIN f : f[k] \in R
  <2>1. PICK S \in SUBSET D : f \in [S -> R]
    BY <1>1 DEF Partial
  <2> QED BY <2>1
<1>2. ASSUME f = [k \in DOMAIN f |-> f[k]], DOMAIN f \subseteq D, \A k \in DOMAIN f : f[k] \in R PROVE f \in Partial(D, R)
  <2>1. f \in [DOMAIN f -> R]
    BY <1>2
  <2> QED BY <1>2, <2>1 DEF Partial
<1> QED BY <1>1, <1>2

LEMMA PartialOver ==
  ASSUME NEW D, NEW R, NEW f \in Partial(D, R), NEW g \in Partial(D, R)
  PROVE  Over(f, g) \in Partial(D, R)
<1> DEFINE h == Over(f, g)
<1>1. h = [k \in DOMAIN f \cup DOMAIN g |-> IF k \in DOMAIN g THEN g[k] ELSE f[k]]
  BY DEF Over
<1>2. DOMAIN f \subseteq D /\ DOMAIN g \subseteq D /\ (\A k \in DOMAIN f : f[k] \in R) /\ \A k \in DOMAIN g : g[k] \in R
  BY PartialIs
<1>3. h = [k \in DOMAIN h |-> h[k]] /\ DOMAIN h \subseteq D /\ \A k \in DOMAIN h : h[k] \in R
  BY <1>1, <1>2
<1> HIDE DEF h
<1>4. h \in Partial(D, R)
  BY <1>3, PartialIs
<1> QED BY <1>4 DEF h

LEMMA PartialOnly ==
  ASSUME NEW D, NEW R, NEW f, \A k \in DOMAIN f \cap D : f[k] \in R
  PROVE  Only(f, D) \in Partial(D, R)
<1> DEFINE h == Only(f, D)
<1>1. h = [k \in DOMAIN f \cap D |-> f[k]]
  BY DEF Only
<1>2. h = [k \in DOMAIN h |-> h[k]] /\ DOMAIN h \subseteq D /\ \A k \in DOMAIN h : h[k] \in R
  BY <1>1
<1> HIDE DEF h
<1>3. h \in Partial(D, R)
  BY <1>2, PartialIs
<1> QED BY <1>3 DEF h

LEMMA PartialGrows ==
  ASSUME NEW D, NEW E, NEW R, D \subseteq E, NEW f \in Partial(D, R)
  PROVE  f \in Partial(E, R)
<1>1. f = [k \in DOMAIN f |-> f[k]] /\ DOMAIN f \subseteq E /\ \A k \in DOMAIN f : f[k] \in R
  BY PartialIs
<1> QED BY <1>1, PartialIs

LEMMA PartialEmpty == ASSUME NEW D, NEW R PROVE <<>> \in Partial(D, R)
<1>1. <<>> = [k \in DOMAIN <<>> |-> <<>>[k]] /\ DOMAIN <<>> \subseteq D /\ \A k \in DOMAIN <<>> : <<>>[k] \in R
  OBVIOUS
<1> QED BY <1>1, PartialIs

\* Answers to the questions, with what the old files fill in.
AnswersType(answers) ==
  answers.core \in Partial(CoreKeys, ConfigValues) /\ answers.module \in Partial(ModuleVars, ConfigValues)
ConfigType(c) ==
  /\ c.core \in Partial(SharedKeys, ConfigValues) /\ c.nested \in Partial(CoreKeys, ConfigValues)
  /\ c.sections \in Partial(Modules, Partial(ModuleVars, ConfigValues))
LegacyType == \A d \in Directories : \A k \in DOMAIN legacy[d].values : legacy[d].values[k] \in ConfigValues
InstallTypeInv ==
  /\ InstallInv /\ InstallTypeOK /\ LegacyType
  /\ merger.step \in SetupSteps => AnswersType(merger.answers)

LEMMA WithLegacyType ==
  ASSUME InstallTypeInv, NEW q \in Questions, NEW m \in Modules
  PROVE  AnswersType(WithLegacy(q, m))
<1>1. m \in Directories /\ "core" \in Directories
  BY DEF Directories
<1>2. /\ Only(legacy[m].values, CoreKeys) \in Partial(CoreKeys, ConfigValues)
      /\ Only(legacy["core"].values, CoreKeys) \in Partial(CoreKeys, ConfigValues)
      /\ Only(legacy[m].values, ModuleVars) \in Partial(ModuleVars, ConfigValues)
  BY <1>1, PartialOnly DEF InstallTypeInv, LegacyType
<1>3. q.core \in Partial(CoreKeys, ConfigValues) /\ q.module \in Partial(ModuleVars, ConfigValues)
  BY QuestionsAssumption
<1>4. LegacyCore(m) \in Partial(CoreKeys, ConfigValues) /\ LegacyModule(m) \in Partial(ModuleVars, ConfigValues)
  BY <1>2, PartialOver DEF LegacyCore, LegacyModule
<1>5. Over(LegacyCore(m), q.core) \in Partial(CoreKeys, ConfigValues)
  BY <1>3, <1>4, PartialOver
<1>6. Over(LegacyModule(m), q.module) \in Partial(ModuleVars, ConfigValues)
  BY <1>3, <1>4, PartialOver
<1> QED BY <1>5, <1>6 DEF AnswersType, WithLegacy

LEMMA MergedConfigType ==
  ASSUME NEW old, ConfigType(old), NEW m \in Modules, NEW answers, AnswersType(answers)
  PROVE  ConfigType(MergeConfig(old, m, answers))
<1> DEFINE CV == ConfigValues
           PM == Partial(ModuleVars, ConfigValues)
           root == Only(Over(old.core, old.nested), SharedKeys)
           sections == [x \in DOMAIN old.sections \cup {m} |-> IF x = m THEN answers.module ELSE old.sections[x]]
<1>1. SharedKeys \subseteq CoreKeys
  BY DEF CoreKeys
<1>2. old.core \in Partial(CoreKeys, CV) /\ old.nested \in Partial(CoreKeys, CV)
  BY <1>1, PartialGrows DEF ConfigType
<1>3. Over(old.core, old.nested) \in Partial(CoreKeys, CV)
  BY <1>2, PartialOver
<1>4. \A k \in DOMAIN Over(old.core, old.nested) : Over(old.core, old.nested)[k] \in CV
  BY <1>3, PartialIs
<1>5. root \in Partial(SharedKeys, CV)
  BY <1>4, PartialOnly
<1>6. \A k \in DOMAIN answers.core : answers.core[k] \in CV
  BY PartialIs DEF AnswersType
<1>7. Only(answers.core, SharedKeys) \in Partial(SharedKeys, CV)
  BY <1>6, PartialOnly
<1>8. Over(root, Only(answers.core, SharedKeys)) \in Partial(SharedKeys, CV)
  BY <1>5, <1>7, PartialOver
<1>9. sections \in Partial(Modules, PM)
  <2> DEFINE had == old.sections
  <2>1. DOMAIN had \subseteq Modules /\ (\A x \in DOMAIN had : had[x] \in PM) /\ answers.module \in PM
    <3>1. had \in Partial(Modules, PM)
      BY DEF ConfigType
    <3> HIDE DEF had, PM
    <3>2. DOMAIN had \subseteq Modules /\ \A x \in DOMAIN had : had[x] \in PM
      BY <3>1, PartialIs
    <3> QED BY <3>2 DEF AnswersType, PM
  <2> HIDE DEF PM, had
  <2>2. sections = [x \in DOMAIN had \cup {m} |-> IF x = m THEN answers.module ELSE had[x]]
    BY DEF had
  <2>3. sections = [k \in DOMAIN sections |-> sections[k]] /\ DOMAIN sections \subseteq Modules
        /\ \A k \in DOMAIN sections : sections[k] \in PM
    BY <2>1, <2>2
  <2> HIDE DEF sections
  <2> QED BY <2>3, PartialIs
<1> DEFINE core == Over(root, Only(answers.core, SharedKeys))
<1>10. MergeConfig(old, m, answers) = [core |-> core, nested |-> <<>>, sections |-> sections]
  BY DEF MergeConfig
<1>11. core \in Partial(SharedKeys, CV)
  BY <1>8
<1> HIDE DEF core, sections
<1>12. <<>> \in Partial(CoreKeys, ConfigValues)
  BY PartialEmpty
<1> QED BY <1>9, <1>10, <1>11, <1>12 DEF ConfigType

LEMMA UserSettingsType ==
  ASSUME NEW answers, AnswersType(answers)
  PROVE  UserSettings(answers) \in Partial(CoreUserKeys \cup UserVars, ConfigValues)
<1> DEFINE D == CoreUserKeys \cup UserVars
<1>1. (\A k \in DOMAIN answers.core : answers.core[k] \in ConfigValues) /\ \A k \in DOMAIN answers.module : answers.module[k] \in ConfigValues
  BY PartialIs DEF AnswersType
<1>2. Only(answers.core, CoreUserKeys) \in Partial(CoreUserKeys, ConfigValues)
  BY <1>1, PartialOnly
<1>3. Only(answers.module, UserVars) \in Partial(UserVars, ConfigValues)
  BY <1>1, PartialOnly
<1>4. CoreUserKeys \subseteq D /\ UserVars \subseteq D
  OBVIOUS
<1> HIDE DEF D
<1>5. Only(answers.core, CoreUserKeys) \in Partial(D, ConfigValues) /\ Only(answers.module, UserVars) \in Partial(D, ConfigValues)
  BY <1>2, <1>3, <1>4, PartialGrows
<1>6. UserSettings(answers) \in Partial(D, ConfigValues)
  BY <1>5, PartialOver DEF UserSettings
<1> QED BY <1>6 DEF D

LEMMA NoConfigType == ConfigType(NoConfig)
<1>1. NoConfig.core = <<>> /\ NoConfig.nested = <<>> /\ NoConfig.sections = <<>>
  BY DEF NoConfig
<1> QED BY <1>1, PartialEmpty DEF ConfigType

LEMMA InstallInit_Types == InstallInit => InstallTypeInv
<1> SUFFICES ASSUME InstallInit PROVE InstallTypeInv
  OBVIOUS
<1>1. PICK nested \in Partial(CoreKeys, ConfigValues), core \in Partial(SharedKeys, ConfigValues) :
        config = [core |-> core, nested |-> nested, sections |-> <<>>]
  BY DEF InstallInit
<1>2. ConfigType(config)
  <2>1. config.core = core /\ config.nested = nested /\ config.sections = <<>>
    BY <1>1
  <2> QED BY <2>1, PartialEmpty DEF ConfigType
<1>3. userConfig \in Partial(CoreUserKeys \cup UserVars, ConfigValues)
  <2>1. userConfig \in Partial(CoreUserKeys, ConfigValues)
    BY DEF InstallInit
  <2> DEFINE D == CoreUserKeys \cup UserVars
  <2>2. CoreUserKeys \subseteq D
    OBVIOUS
  <2> HIDE DEF D
  <2>3. userConfig \in Partial(D, ConfigValues)
    BY <2>1, <2>2, PartialGrows
  <2> QED BY <2>3 DEF D
<1>4. LegacyType /\ DOMAIN legacy = Directories
  <2>1. legacy \in OldConfigs
    BY DEF InstallInit
  <2> QED BY <2>1, InstallAssumption DEF LegacyType, Directories
<1>5. InstallInv
  BY InstallInit_Inv
<1>6. merger.step \notin SetupSteps
  BY DEF InstallInit, Rest, SetupSteps
<1>7. setups \in 0..MaxSetups /\ oldDirs \subseteq Directories /\ oldHelp \subseteq Directories
  BY InstallAssumption DEF InstallInit
<1> QED BY <1>2, <1>3, <1>4, <1>5, <1>6, <1>7 DEF InstallTypeInv, InstallTypeOK, ConfigType

LEMMA InstallStepTypes == ASSUME InstallTypeInv, [InstallNext]_installVars PROVE InstallTypeInv'
<1>1. InstallInv /\ InstallInv'
  BY InstallStepInv DEF InstallTypeInv
<1>2. /\ ConfigType(config) /\ userConfig \in Partial(CoreUserKeys \cup UserVars, ConfigValues)
      /\ DOMAIN legacy = Directories /\ oldDirs \subseteq Directories /\ oldHelp \subseteq Directories
      /\ setups \in 0..MaxSetups /\ LegacyType /\ (merger.step \in SetupSteps => AnswersType(merger.answers))
  BY DEF InstallTypeInv, InstallTypeOK, ConfigType
<1>3. oldDirs' \subseteq Directories /\ oldHelp' \subseteq Directories
  <2>1. oldDirs' \subseteq oldDirs /\ oldHelp' \subseteq oldHelp
    BY DEF InstallNext, installVars, StartSetup, WriteConfig, TornConfig, WriteUserConfig, TornUserConfig, DropOwnLegacy, DropCoreLegacy, MergerDies,
       MergeHelp, TornHelp, DropOldHelp, StartCleanup, RemoveDir, KeepMerge, KeepHelp, KeepClean
  <2> QED BY <1>2, <2>1
<1>4. setups' \in 0..MaxSetups
  <2>1. setups' = setups \/ (setups < MaxSetups /\ setups' = setups + 1)
    BY DEF InstallNext, installVars, StartSetup, WriteConfig, TornConfig, WriteUserConfig, TornUserConfig, DropOwnLegacy, DropCoreLegacy, MergerDies,
       MergeHelp, TornHelp, DropOldHelp, StartCleanup, RemoveDir, KeepMerge, KeepHelp, KeepClean
  <2> QED BY <1>2, <2>1, InstallAssumption
<1>5. LegacyType'
  <2>1. legacy' = legacy \/ \E d : legacy' = [legacy EXCEPT ![d] = Gone]
    BY DEF InstallNext, installVars, StartSetup, WriteConfig, TornConfig, WriteUserConfig, TornUserConfig, DropOwnLegacy, DropCoreLegacy, MergerDies,
       MergeHelp, TornHelp, DropOldHelp, StartCleanup, RemoveDir, KeepMerge, KeepHelp, KeepClean
  <2>2. ASSUME NEW d, legacy' = [legacy EXCEPT ![d] = Gone] PROVE LegacyType'
    <3>1. ASSUME NEW e \in Directories PROVE legacy'[e] = Gone \/ legacy'[e] = legacy[e]
      BY <1>2, <2>2
    <3> QED BY <1>2, <3>1, GoneFacts DEF LegacyType
  <2> QED BY <1>2, <2>1, <2>2 DEF LegacyType
<1>6. merger'.step \in SetupSteps => AnswersType(merger'.answers)
  <2>1. CASE StartSetup
    <3>1. PICK m \in Modules, q \in Questions : merger'.answers = WithLegacy(q, m)
      BY <2>1 DEF StartSetup
    <3> QED BY <3>1, WithLegacyType
  <2>2. CASE merger' = merger
    BY <1>2, <2>2
  <2>3. ASSUME NEW from \in SetupSteps, NEW to, MergerAt(from, to) PROVE AnswersType(merger'.answers)
    <3>1. merger.step \in SetupSteps /\ merger'.answers = merger.answers
      BY <1>1, <2>3, MergerMoves
    <3> QED BY <1>2, <3>1
  <2>4. CASE WriteConfig \/ TornConfig \/ WriteUserConfig \/ TornUserConfig \/ DropOwnLegacy \/ DropCoreLegacy
    BY <2>3, <2>4 DEF WriteConfig, TornConfig, WriteUserConfig, TornUserConfig, DropOwnLegacy, DropCoreLegacy, SetupSteps
  <2>5. CASE MergerDies
    <3>1. MergerAt(merger.step, "dead") /\ merger.step \in SetupSteps
      BY <2>5 DEF MergerDies, MergerAt, SetupSteps
    <3> QED BY <2>3, <3>1
  <2>6. CASE MergeHelp \/ TornHelp \/ DropOldHelp \/ StartCleanup \/ RemoveDir \/ UNCHANGED installVars
    BY <2>2, <2>6 DEF MergeHelp, TornHelp, DropOldHelp, StartCleanup, RemoveDir, KeepMerge, installVars
  <2> QED BY <2>1, <2>4, <2>5, <2>6 DEF InstallNext
<1>7. userConfig' \in Partial(CoreUserKeys \cup UserVars, ConfigValues)
  <2>1. CASE WriteUserConfig
    <3> DEFINE D == CoreUserKeys \cup UserVars
    <3>1. AnswersType(merger.answers) /\ userConfig' = Over(userConfig, UserSettings(merger.answers))
      BY <1>2, <2>1 DEF WriteUserConfig, MergerAt, SetupSteps
    <3>2. UserSettings(merger.answers) \in Partial(D, ConfigValues) /\ userConfig \in Partial(D, ConfigValues)
      BY <1>2, <3>1, UserSettingsType
    <3> HIDE DEF D
    <3>3. userConfig' \in Partial(D, ConfigValues)
      BY <3>1, <3>2, PartialOver
    <3> QED BY <3>3 DEF D
  <2>2. CASE TornUserConfig
    BY <2>2, PartialEmpty DEF TornUserConfig
  <2>3. CASE ~WriteUserConfig /\ ~TornUserConfig
    <3>1. userConfig' = userConfig
      BY <2>3 DEF InstallNext, installVars, StartSetup, WriteConfig, TornConfig, DropOwnLegacy, DropCoreLegacy, MergerDies,
         MergeHelp, TornHelp, DropOldHelp, StartCleanup, RemoveDir, KeepMerge
    <3> QED BY <1>2, <3>1
  <2> QED BY <2>1, <2>2, <2>3
<1>8. ConfigType(config')
  <2>1. CASE WriteConfig
    <3>1. merger.step = "config" /\ config' = merger.new
      BY <2>1 DEF WriteConfig, MergerAt
    <3>2. merger.module \in Modules /\ AnswersType(merger.answers) /\ merger.new = MergeConfig(config, merger.module, merger.answers)
      BY <1>1, <1>2, <3>1 DEF InstallInv, SetupSteps
    <3> QED BY <1>2, <3>1, <3>2, MergedConfigType
  <2>2. CASE TornConfig
    BY <2>2, NoConfigType DEF TornConfig
  <2>3. CASE ~WriteConfig /\ ~TornConfig
    <3>1. config' = config
      BY <2>3 DEF InstallNext, installVars, StartSetup, WriteUserConfig, TornUserConfig, DropOwnLegacy, DropCoreLegacy, MergerDies,
         MergeHelp, TornHelp, DropOldHelp, StartCleanup, RemoveDir, KeepMerge
    <3> QED BY <1>2, <3>1
  <2> QED BY <2>1, <2>2, <2>3
<1>9. DOMAIN legacy' = Directories
  BY <1>1 DEF InstallInv
<1> QED BY <1>1, <1>3, <1>4, <1>5, <1>6, <1>7, <1>8, <1>9 DEF InstallTypeInv, InstallTypeOK, ConfigType, AnswersType
-----------------------------------------------------------------------------
(***************************************************************************)
(* The rosters.  The pool and the index of a room are reached in as many   *)
(* steps as there are cards, and each step adds one card.                  *)
(***************************************************************************)
\* A sequence of cards of which no two have a code in common.
Apart(cards) == \A i, j \in DOMAIN cards : cards[i].code = cards[j].code => i = j
IsCast(cards, S) == cards \in Seq(S) /\ Apart(cards)


\* The steps of the five folds.
PartyAgentFold(f, base, seq, n) ==
  /\ f[0] = base /\ f[n] = FoldLeft(PartyAgent, base, seq)
  /\ \A k \in 0..(n - 1) : f[k + 1] = PartyAgent(f[k], seq[k + 1])

LEMMA PartyAgentSteps ==
  ASSUME NEW base, NEW seq, NEW n \in Nat, DOMAIN seq = 1..n
  PROVE  \E f : PartyAgentFold(f, base, seq, n)
<1>1. PICK f : PartyAgents!Iterates(f, base, seq, n)
  BY PartyAgents!FoldLeftIterates, Zenon
<1>2. FoldLeft(PartyAgent, base, seq) = PartyAgents!FoldOf(base, seq)
  BY DEF FoldLeft, PartyAgents!FoldOf, MapThenFoldSet, PartyAgents!MapThenFoldSet, Max, PartyAgents!Largest
<1> QED BY <1>1, <1>2, Zenon DEF PartyAgents!Iterates, PartyAgentFold

PartyMemberFold(f, base, seq, n) ==
  /\ f[0] = base /\ f[n] = FoldLeft(PartyMember, base, seq)
  /\ \A k \in 0..(n - 1) : f[k + 1] = PartyMember(f[k], seq[k + 1])

LEMMA PartyMemberSteps ==
  ASSUME NEW base, NEW seq, NEW n \in Nat, DOMAIN seq = 1..n
  PROVE  \E f : PartyMemberFold(f, base, seq, n)
<1>1. PICK f : PartyMembers!Iterates(f, base, seq, n)
  BY PartyMembers!FoldLeftIterates, Zenon
<1>2. FoldLeft(PartyMember, base, seq) = PartyMembers!FoldOf(base, seq)
  BY DEF FoldLeft, PartyMembers!FoldOf, MapThenFoldSet, PartyMembers!MapThenFoldSet, Max, PartyMembers!Largest
<1> QED BY <1>1, <1>2, Zenon DEF PartyMembers!Iterates, PartyMemberFold

ForgeAgentFold(f, base, seq, n) ==
  /\ f[0] = base /\ f[n] = FoldLeft(ForgeAgent, base, seq)
  /\ \A k \in 0..(n - 1) : f[k + 1] = ForgeAgent(f[k], seq[k + 1])

LEMMA ForgeAgentSteps ==
  ASSUME NEW base, NEW seq, NEW n \in Nat, DOMAIN seq = 1..n
  PROVE  \E f : ForgeAgentFold(f, base, seq, n)
<1>1. PICK f : ForgeAgents!Iterates(f, base, seq, n)
  BY ForgeAgents!FoldLeftIterates, Zenon
<1>2. FoldLeft(ForgeAgent, base, seq) = ForgeAgents!FoldOf(base, seq)
  BY DEF FoldLeft, ForgeAgents!FoldOf, MapThenFoldSet, ForgeAgents!MapThenFoldSet, Max, ForgeAgents!Largest
<1> QED BY <1>1, <1>2, Zenon DEF ForgeAgents!Iterates, ForgeAgentFold

ForgeMemberFold(f, base, seq, n) ==
  /\ f[0] = base /\ f[n] = FoldLeft(ForgeMember, base, seq)
  /\ \A k \in 0..(n - 1) : f[k + 1] = ForgeMember(f[k], seq[k + 1])

LEMMA ForgeMemberSteps ==
  ASSUME NEW base, NEW seq, NEW n \in Nat, DOMAIN seq = 1..n
  PROVE  \E f : ForgeMemberFold(f, base, seq, n)
<1>1. PICK f : ForgeMembers!Iterates(f, base, seq, n)
  BY ForgeMembers!FoldLeftIterates, Zenon
<1>2. FoldLeft(ForgeMember, base, seq) = ForgeMembers!FoldOf(base, seq)
  BY DEF FoldLeft, ForgeMembers!FoldOf, MapThenFoldSet, ForgeMembers!MapThenFoldSet, Max, ForgeMembers!Largest
<1> QED BY <1>1, <1>2, Zenon DEF ForgeMembers!Iterates, ForgeMemberFold

PutMemberFold(f, base, seq, n) ==
  /\ f[0] = base /\ f[n] = FoldLeft(PutMember, base, seq)
  /\ \A k \in 0..(n - 1) : f[k + 1] = PutMember(f[k], seq[k + 1])

LEMMA PutMemberSteps ==
  ASSUME NEW base, NEW seq, NEW n \in Nat, DOMAIN seq = 1..n
  PROVE  \E f : PutMemberFold(f, base, seq, n)
<1>1. PICK f : KeyedPuts!Iterates(f, base, seq, n)
  BY KeyedPuts!FoldLeftIterates, Zenon
<1>2. FoldLeft(PutMember, base, seq) = KeyedPuts!FoldOf(base, seq)
  BY DEF FoldLeft, KeyedPuts!FoldOf, MapThenFoldSet, KeyedPuts!MapThenFoldSet, Max, KeyedPuts!Largest
<1> QED BY <1>1, <1>2, Zenon DEF KeyedPuts!Iterates, PutMemberFold

\* What a registration does, in either room: the card is put at its code, and the tokens
\* taken, the code and the alias among them, lead to it.
Registered(old, new, card, taken) ==
  /\ new.pool = With(old.pool, {card.code}, card) /\ new.index = With(old.index, taken, card.code)
  /\ {card.code, AliasOf(card.code)} \subseteq taken /\ taken \subseteq TokensOfCard(card)
Registers(old, new, card) == \E taken : Registered(old, new, card, taken)

LEMMA PartyRegisters ==
  ASSUME NEW room, NEW card
  PROVE  Registers(room, RegisterInParty(room, card), card)
<1>1. Registered(room, RegisterInParty(room, card), card, TokensOfCard(card))
  BY DEF Registered, RegisterInParty, TokensOfCard
<1> QED BY <1>1, Zenon DEF Registers

LEMMA WithTwice ==
  ASSUME NEW map, NEW one, NEW other, NEW value
  PROVE  With(With(map, one, value), other, value) = With(map, one \cup other, value)
BY DEF With

LEMMA ForgeRegisters ==
  ASSUME NEW room, NEW card
  PROVE  Registers(room, RegisterInForge(room, card), card)
<1> DEFINE ids == {card.code, AliasOf(card.code)}
           index == With(room.index, ids, card.code)
           new == RegisterInForge(room, card)
<1>1. new.pool = With(room.pool, {card.code}, card)
  BY DEF RegisterInForge
<1>2. CASE card.name \in DOMAIN index \cup {""}
  <2>1. new.index = index
    BY <1>2 DEF RegisterInForge
  <2>2. Registered(room, new, card, ids)
    BY <1>1, <2>1 DEF Registered, TokensOfCard
  <2> QED BY <2>2, Zenon DEF Registers
<1>3. CASE card.name \notin DOMAIN index \cup {""}
  <2>1. new.index = With(index, {card.name}, card.code)
    BY <1>3 DEF RegisterInForge
  <2>2. new.index = With(room.index, ids \cup {card.name}, card.code)
    BY <2>1, WithTwice
  <2>3. Registered(room, new, card, ids \cup {card.name})
    BY <1>1, <1>3, <2>2 DEF Registered, TokensOfCard
  <2> QED BY <2>3, Zenon DEF Registers
<1> QED BY <1>2, <1>3

\* Where a registration leads.
IsAfter(old, new, card, taken) ==
  /\ DOMAIN new.pool = DOMAIN old.pool \cup {card.code} /\ DOMAIN new.index = DOMAIN old.index \cup taken
  /\ new.pool[card.code] = card /\ \A c \in DOMAIN old.pool : c # card.code => new.pool[c] = old.pool[c]
  /\ \A t \in taken : new.index[t] = card.code
  /\ \A t \in DOMAIN old.index : t \notin taken => new.index[t] = old.index[t]
  /\ card.code \in taken /\ AliasOf(card.code) \in taken
  /\ \A t \in taken : t \in {card.code, AliasOf(card.code)} \/ (t = card.name /\ t # "")
LEMMA AfterRegistering ==
  ASSUME NEW old, NEW new, NEW card, NEW taken, Registered(old, new, card, taken)
  PROVE  IsAfter(old, new, card, taken)
BY DEF Registered, With, TokensOfCard, IsAfter


\* A room is filled by one registration for each agent and then one for each member.
SeatsAgents(f, crew, n) ==
  /\ f[0] = EmptyRoom
  /\ \A k \in 0..(n - 1) : Registers(f[k], f[k + 1], InstalledCard(crew[k + 1]))
CastsMembers(g, base, members, m, room) ==
  /\ g[0] = base /\ g[m] = room
  /\ \A k \in 0..(m - 1) : Registers(g[k], g[k + 1], Casting(g[k], members[k + 1]))
FilledRoom(room, crew, members, n, m) ==
  \E f, g : SeatsAgents(f, crew, n) /\ CastsMembers(g, f[n], members, m, room)

LEMMA PartyIsFilled ==
  ASSUME NEW crew, NEW members, NEW n \in Nat, NEW m \in Nat, DOMAIN crew = 1..n, DOMAIN members = 1..m
  PROVE  FilledRoom(BuildCollective(crew, members), crew, members, n, m)
<1>1. PICK f : PartyAgentFold(f, EmptyRoom, crew, n)
  BY PartyAgentSteps, Zenon
<1>2. SeatsAgents(f, crew, n)
  BY <1>1, PartyRegisters, Zenon DEF PartyAgentFold, PartyAgent, SeatsAgents
<1>3. PICK g : PartyMemberFold(g, f[n], members, m)
  BY PartyMemberSteps, Zenon
<1>4. CastsMembers(g, f[n], members, m, BuildCollective(crew, members))
  <2>1. g[m] = BuildCollective(crew, members)
    BY <1>1, <1>3, Zenon DEF PartyAgentFold, PartyMemberFold, BuildCollective
  <2> QED BY <1>3, <2>1, PartyRegisters, Zenon DEF PartyMemberFold, PartyMember, CastsMembers
<1> QED BY <1>2, <1>4, Zenon DEF FilledRoom

LEMMA ForgeIsFilled ==
  ASSUME NEW crew, NEW members, NEW n \in Nat, NEW m \in Nat, DOMAIN crew = 1..n, DOMAIN members = 1..m
  PROVE  FilledRoom(BuildPool(crew, members), crew, members, n, m)
<1>1. PICK f : ForgeAgentFold(f, EmptyRoom, crew, n)
  BY ForgeAgentSteps, Zenon
<1>2. SeatsAgents(f, crew, n)
  BY <1>1, ForgeRegisters, Zenon DEF ForgeAgentFold, ForgeAgent, SeatsAgents
<1>3. PICK g : ForgeMemberFold(g, f[n], members, m)
  BY ForgeMemberSteps, Zenon
<1>4. CastsMembers(g, f[n], members, m, BuildPool(crew, members))
  <2>1. g[m] = BuildPool(crew, members)
    BY <1>1, <1>3, Zenon DEF ForgeAgentFold, ForgeMemberFold, BuildPool
  <2> QED BY <1>3, <2>1, ForgeRegisters, Zenon DEF ForgeMemberFold, ForgeMember, CastsMembers
<1> QED BY <1>2, <1>4, Zenon DEF FilledRoom

Leads(room) == \A t \in DOMAIN room.index : room.index[t] \in DOMAIN room.pool

LEMMA RegisteringLeads ==
  ASSUME NEW old, NEW new, NEW card, Registers(old, new, card), Leads(old)
  PROVE  Leads(new)
<1>1. PICK taken : Registered(old, new, card, taken)
  BY Zenon DEF Registers
<1>2. IsAfter(old, new, card, taken)
  BY <1>1, AfterRegistering
<1> QED BY <1>2 DEF IsAfter, Leads

LEMMA EmptyRoomLeads == Leads(EmptyRoom)
<1>1. DOMAIN EmptyRoom.index = {}
  BY DEF EmptyRoom
<1> QED BY <1>1 DEF Leads

\* A filled room leads somewhere, whatever the agents and the members are.
LEMMA FilledRoomLeads ==
  ASSUME NEW room, NEW crew, NEW members, NEW n \in Nat, NEW m \in Nat, FilledRoom(room, crew, members, n, m)
  PROVE  Leads(room)
<1>1. PICK f, g : SeatsAgents(f, crew, n) /\ CastsMembers(g, f[n], members, m, room)
  BY Zenon DEF FilledRoom
<1>2. Leads(f[n])
  <2> DEFINE Good == {k \in 0..n : Leads(f[k])}
  <2>2. 0 \in Good
    BY <1>1, EmptyRoomLeads DEF SeatsAgents
  <2>3. ASSUME NEW k \in 0..(n - 1), k \in Good PROVE k + 1 \in Good
    <3>1. Leads(f[k]) /\ Registers(f[k], f[k + 1], InstalledCard(crew[k + 1])) /\ k + 1 \in 0..n
      BY <1>1, <2>3 DEF SeatsAgents
    <3> QED BY <3>1, RegisteringLeads
  <2> HIDE DEF Good
  <2>4. n \in Good
    BY <2>2, <2>3, PartyAgents!UpTo
  <2> QED BY <2>4 DEF Good
<1>3. Leads(g[m])
  <2> DEFINE Good == {k \in 0..m : Leads(g[k])}
  <2>2. 0 \in Good
    BY <1>1, <1>2 DEF CastsMembers
  <2>3. ASSUME NEW k \in 0..(m - 1), k \in Good PROVE k + 1 \in Good
    <3>1. Leads(g[k]) /\ Registers(g[k], g[k + 1], Casting(g[k], members[k + 1])) /\ k + 1 \in 0..m
      BY <1>1, <2>3 DEF CastsMembers
    <3> QED BY <3>1, RegisteringLeads
  <2> HIDE DEF Good
  <2>4. m \in Good
    BY <2>2, <2>3, PartyAgents!UpTo
  <2> QED BY <2>4 DEF Good
<1> QED BY <1>1, <1>3 DEF CastsMembers

-----------------------------------------------------------------------------
\* A member is put where its code is, or at the end.
LEMMA PutMemberCases ==
  ASSUME NEW cards, NEW card
  PROVE  \/ \E i \in DOMAIN cards : cards[i].code = card.code /\ PutMember(cards, card) = [cards EXCEPT ![i] = card]
         \/ (\A i \in DOMAIN cards : cards[i].code # card.code) /\ PutMember(cards, card) = Append(cards, card)
<1> DEFINE same == {i \in DOMAIN cards : cards[i].code = card.code}
<1>1. CASE same = {}
  <2>1. \A i \in DOMAIN cards : cards[i].code # card.code
    BY <1>1
  <2>2. PutMember(cards, card) = Append(cards, card)
    BY <1>1, Zenon DEF PutMember
  <2> QED BY <2>1, <2>2
<1>2. CASE same # {}
  <2> DEFINE i == CHOOSE i \in same : TRUE
  <2>1. i \in same
    BY <1>2, Zenon
  <2>2. PutMember(cards, card) = [cards EXCEPT ![i] = card]
    BY <1>2, Zenon DEF PutMember
  <2> HIDE DEF i
  <2> QED BY <2>1, <2>2
<1> QED BY <1>1, <1>2

LEMMA PutMemberIs ==
  ASSUME NEW S, NEW cards, NEW card \in S, IsCast(cards, S)
  PROVE  IsCast(PutMember(cards, card), S)
<1>1. cards \in Seq(S) /\ Apart(cards)
  BY DEF IsCast
<1>2. Len(cards) \in Nat /\ DOMAIN cards = 1..Len(cards) /\ \A i \in DOMAIN cards : cards[i] \in S
  BY <1>1, LenProperties, ElementOfSeq
<1>3. ASSUME NEW i \in DOMAIN cards, cards[i].code = card.code, PutMember(cards, card) = [cards EXCEPT ![i] = card]
      PROVE  IsCast(PutMember(cards, card), S)
  <2> DEFINE put == [cards EXCEPT ![i] = card]
  <2>1. put \in Seq(S)
    BY <1>1, <1>2, ExceptSeq
  <2>2. DOMAIN put = DOMAIN cards /\ put[i] = card /\ \A j \in DOMAIN cards : j # i => put[j] = cards[j]
    BY <1>3
  <2> HIDE DEF put
  <2>3. Apart(put)
    BY <1>1, <1>3, <2>2 DEF Apart
  <2> QED BY <1>3, <2>1, <2>3 DEF IsCast, put
<1>4. ASSUME \A i \in DOMAIN cards : cards[i].code # card.code, PutMember(cards, card) = Append(cards, card)
      PROVE  IsCast(PutMember(cards, card), S)
  <2> DEFINE put == Append(cards, card)
  <2>1. put \in Seq(S)
    BY <1>1, AppendProperties
  <2>2. /\ DOMAIN put = 1..(Len(cards) + 1) /\ put[Len(cards) + 1] = card
        /\ \A j \in 1..Len(cards) : put[j] = cards[j]
    BY <1>1, <1>2, AppendProperties
  <2> HIDE DEF put
  <2>3. \A j \in DOMAIN put : j = Len(cards) + 1 \/ j \in DOMAIN cards
    BY <1>2, <2>2
  <2>4. \A j \in DOMAIN cards : put[j] = cards[j] /\ put[j].code # card.code
    BY <1>2, <1>4, <2>2
  <2>5. Apart(put)
    BY <1>1, <2>2, <2>3, <2>4 DEF Apart
  <2> QED BY <1>4, <2>1, <2>5 DEF IsCast, put
<1> QED BY <1>3, <1>4, PutMemberCases

LEMMA KeyedMembersAre ==
  ASSUME NEW S, NEW base, NEW over \in Seq(S), IsCast(base, S)
  PROVE  IsCast(KeyedMembers(base, over), S)
<1>1. Len(over) \in Nat /\ DOMAIN over = 1..Len(over) /\ \A i \in DOMAIN over : over[i] \in S
  BY LenProperties, ElementOfSeq
<1> DEFINE n == Len(over)
<1> HIDE DEF n
<1>2. n \in Nat /\ DOMAIN over = 1..n
  BY <1>1 DEF n
<1>3. PICK f : PutMemberFold(f, base, over, n)
  BY <1>2, PutMemberSteps, Zenon
<1> DEFINE Good == {k \in 0..n : IsCast(f[k], S)}
<1>4. 0 \in Good
  BY <1>2, <1>3 DEF PutMemberFold
<1>5. ASSUME NEW k \in 0..(n - 1), k \in Good PROVE k + 1 \in Good
  <2>1. IsCast(f[k], S) /\ f[k + 1] = PutMember(f[k], over[k + 1]) /\ k + 1 \in 0..n /\ k + 1 \in 1..n
    BY <1>2, <1>3, <1>5 DEF PutMemberFold
  <2>2. over[k + 1] \in S
    BY <1>1, <1>2, <2>1
  <2> QED BY <2>1, <2>2, PutMemberIs
<1> HIDE DEF Good
<1>6. n \in Good
  BY <1>2, <1>4, <1>5, KeyedPuts!UpTo
<1> QED BY <1>3, <1>6 DEF Good, PutMemberFold, KeyedMembers

\* The installed agents and the members of both overrides are such sequences.
RosterTypeInv ==
  /\ castingsMade \in 0..MaxCastings /\ unreadable \in {"none", "config", "customization"} /\ partySkill \in BOOLEAN
  /\ IsCast(installedAgents, AgentCards) /\ DOMAIN castings = {"team", "user"}
  /\ IsCast(castings.team, MemberCards) /\ IsCast(castings.user, MemberCards)

LEMMA EmptyCast ==
  ASSUME NEW S
  PROVE  IsCast(<<>>, S)
BY DEF IsCast, Apart

LEMMA RosterInit_Types == RosterInit => RosterTypeInv
<1> SUFFICES ASSUME RosterInit PROVE RosterTypeInv
  OBVIOUS
<1>1. installedAgents = <<>> /\ castings = [team |-> <<>>, user |-> <<>>]
  BY DEF RosterInit
<1>2. DOMAIN castings = {"team", "user"} /\ castings.team = <<>> /\ castings.user = <<>>
  BY <1>1
<1>3. castingsMade \in 0..MaxCastings
  <2>1. MaxCastings \in Nat
    BY Zenon, RosterAssumption
  <2>2. castingsMade = 0
    BY DEF RosterInit
  <2> QED BY <2>1, <2>2
<1>4. unreadable \in {"none", "config", "customization"} /\ partySkill \in BOOLEAN
  BY Zenon DEF RosterInit
<1>5. IsCast(installedAgents, AgentCards) /\ IsCast(castings.team, MemberCards) /\ IsCast(castings.user, MemberCards)
  BY <1>1, <1>2, EmptyCast
<1> QED BY <1>2, <1>3, <1>4, <1>5, Zenon DEF RosterTypeInv

LEMMA OneMember ==
  ASSUME NEW S, NEW card \in S
  PROVE  <<card>> \in Seq(S)
OBVIOUS

LEMMA CastsCounts == RosterTypeInv /\ Casts => castingsMade' \in 0..MaxCastings
<1> SUFFICES ASSUME RosterTypeInv, Casts PROVE castingsMade' \in 0..MaxCastings
  OBVIOUS
<1>1. castingsMade \in 0..MaxCastings /\ castingsMade < MaxCastings /\ castingsMade' = castingsMade + 1
  BY DEF RosterTypeInv, Casts
<1>2. MaxCastings \in Nat
  BY Zenon, RosterAssumption
<1> QED BY <1>1, <1>2

LEMMA RosterStepTypes == RosterTypeInv /\ [RosterNext]_rosterVars => RosterTypeInv'
<1> SUFFICES ASSUME RosterTypeInv, [RosterNext]_rosterVars PROVE RosterTypeInv'
  OBVIOUS
<1>1. ASSUME NEW agent \in AgentCards, InstallAgent(agent) PROVE RosterTypeInv'
  <2>1. /\ Casts /\ \A i \in DOMAIN installedAgents : installedAgents[i].code # agent.code
        /\ installedAgents' = Append(installedAgents, agent)
        /\ castings' = castings /\ partySkill' = partySkill /\ unreadable' = unreadable
    BY <1>1 DEF InstallAgent
  <2>2. IsCast(installedAgents, AgentCards)
    BY DEF RosterTypeInv
  <2>3. PutMember(installedAgents, agent) = Append(installedAgents, agent)
    BY <2>1, PutMemberCases
  <2>4. IsCast(installedAgents', AgentCards)
    BY <2>1, <2>2, <2>3, PutMemberIs
  <2>5. castingsMade' \in 0..MaxCastings
    BY <2>1, CastsCounts
  <2> QED BY <2>1, <2>4, <2>5, Zenon DEF RosterTypeInv
<1>2. ASSUME NEW layer \in {"team", "user"}, NEW member \in MemberCards, WriteMember(layer, member) PROVE RosterTypeInv'
  <2>1. /\ Casts /\ castings' = [castings EXCEPT ![layer] = KeyedMembers(castings[layer], <<member>>)]
        /\ installedAgents' = installedAgents /\ partySkill' = partySkill /\ unreadable' = unreadable
    BY <1>2 DEF WriteMember
  <2>2. castingsMade' \in 0..MaxCastings
    BY <2>1, CastsCounts
  <2>3. /\ DOMAIN castings = {"team", "user"}
        /\ IsCast(castings["team"], MemberCards) /\ IsCast(castings["user"], MemberCards)
    BY DEF RosterTypeInv
  <2>4. IsCast(castings[layer], MemberCards)
    BY <2>3
  <2>5. IsCast(KeyedMembers(castings[layer], <<member>>), MemberCards)
    BY <2>4, OneMember, KeyedMembersAre
  <2>6. /\ DOMAIN castings' = {"team", "user"}
        /\ \A l \in {"team", "user"} : castings'[l] = IF l = layer THEN KeyedMembers(castings[layer], <<member>>) ELSE castings[l]
    BY <2>1, <2>3
  <2>7. IsCast(castings'["team"], MemberCards) /\ IsCast(castings'["user"], MemberCards)
    BY <2>3, <2>5, <2>6
  <2> QED BY <2>1, <2>2, <2>6, <2>7, Zenon DEF RosterTypeInv
<1>3. CASE ListCodes
  BY <1>3, Zenon DEF ListCodes, RosterTypeInv
<1>4. CASE UNCHANGED rosterVars
  BY <1>4, Zenon DEF rosterVars, RosterTypeInv
<1> QED BY <1>1, <1>2, <1>3, <1>4 DEF RosterNext

AllCards == MemberCards \cup Range(ShippedMembers)

LEMMA ShippedAre == IsCast(ShippedMembers, AllCards)
<1>1. ShippedMembers \in Seq(Range(ShippedMembers)) /\ Apart(ShippedMembers)
  BY Zenon, RosterAssumption DEF Apart
<1>2. ShippedMembers \in Seq(AllCards)
  BY <1>1, SeqMonotonic DEF AllCards
<1> QED BY <1>1, <1>2 DEF IsCast

\* The members that either script reads.
LEMMA ReadMembersAre ==
  ASSUME RosterTypeInv
  PROVE  /\ IsCast(LoadAgents, AgentCards) /\ IsCast(LoadWorkflow, AllCards)
         /\ LoadPartyWorkflow \in Seq(AllCards) /\ (partySkill => LoadPartyWorkflow = LoadWorkflow)
<1>1. IsCast(LoadAgents, AgentCards)
  BY EmptyCast, Zenon DEF LoadAgents, RosterTypeInv
<1>2. castings.team \in Seq(AllCards) /\ castings.user \in Seq(AllCards)
  <2>1. castings.team \in Seq(MemberCards) /\ castings.user \in Seq(MemberCards)
    BY Zenon DEF RosterTypeInv, IsCast
  <2> QED BY <2>1, SeqMonotonic DEF AllCards
<1>3. IsCast(KeyedMembers(KeyedMembers(ShippedMembers, castings.team), castings.user), AllCards)
  BY <1>2, ShippedAre, KeyedMembersAre
<1>4. IsCast(LoadWorkflow, AllCards)
  BY <1>3, ShippedAre, Zenon DEF LoadWorkflow
<1>5. LoadWorkflow \in Seq(AllCards)
  BY <1>4 DEF IsCast
<1>6. castings.team \o castings.user \in Seq(AllCards)
  BY <1>2, ConcatProperties
<1>7. LoadPartyWorkflow \in Seq(AllCards)
  BY <1>5, <1>6, Zenon DEF LoadPartyWorkflow, LoadPartyOverrides
<1>8. partySkill => LoadPartyWorkflow = LoadWorkflow
  BY Zenon DEF LoadPartyWorkflow
<1> QED BY <1>1, <1>4, <1>7, <1>8

\* Both rooms are filled from what is read.
LEMMA RoomsAreFilled ==
  ASSUME RosterTypeInv
  PROVE  \E n \in Nat, m \in Nat, p \in Nat :
           /\ DOMAIN LoadAgents = 1..n /\ DOMAIN LoadWorkflow = 1..m
           /\ FilledRoom(PartyRoom, LoadAgents, LoadWorkflow, n, m)
           /\ DOMAIN LoadPartyWorkflow = 1..p /\ FilledRoom(ForgeRoom, LoadAgents, LoadPartyWorkflow, n, p)
<1>1. LoadAgents \in Seq(AgentCards) /\ LoadWorkflow \in Seq(AllCards) /\ LoadPartyWorkflow \in Seq(AllCards)
  BY ReadMembersAre DEF IsCast
<1> DEFINE n == Len(LoadAgents) m == Len(LoadWorkflow) p == Len(LoadPartyWorkflow)
<1>2. n \in Nat /\ m \in Nat /\ p \in Nat /\ DOMAIN LoadAgents = 1..n /\ DOMAIN LoadWorkflow = 1..m /\ DOMAIN LoadPartyWorkflow = 1..p
  BY <1>1, LenProperties
<1> HIDE DEF n, m, p
<1>3. FilledRoom(PartyRoom, LoadAgents, LoadWorkflow, n, m)
  BY <1>2, PartyIsFilled, Zenon DEF PartyRoom
<1>4. FilledRoom(ForgeRoom, LoadAgents, LoadPartyWorkflow, n, p)
  BY <1>2, ForgeIsFilled, Zenon DEF ForgeRoom
<1> QED BY <1>2, <1>3, <1>4, Zenon

LEMMA RosterTypesImply == RosterTypeInv => RosterTypeOK
<1> SUFFICES ASSUME RosterTypeInv PROVE RosterTypeOK
  OBVIOUS
<1>1. Leads(PartyRoom) /\ Leads(ForgeRoom)
  BY RoomsAreFilled, FilledRoomLeads, Zenon
<1>2. Range(PartyRoom.index) \subseteq DOMAIN PartyRoom.pool /\ Range(ForgeRoom.index) \subseteq DOMAIN ForgeRoom.pool
  BY <1>1 DEF Leads, Range
<1>3. castingsMade \in 0..MaxCastings /\ unreadable \in {"none", "config", "customization"} /\ partySkill \in BOOLEAN
  BY Zenon DEF RosterTypeInv
<1> QED BY <1>2, <1>3, Zenon DEF RosterTypeOK
-----------------------------------------------------------------------------
LEMMA InstalledIs ==
  ASSUME NEW agent
  PROVE  InstalledCard(agent).code = agent.code /\ InstalledCard(agent).name = agent.name
<1>1. PICK tweaked : InstalledCard(agent) = [code |-> agent.code, name |-> agent.name, custom |-> tweaked]
  BY Zenon DEF InstalledCard
<1> QED BY <1>1

\* The name that a member without one is given.
KeptName(room, code) == IF code \in DOMAIN room.pool THEN room.pool[code].name ELSE code

LEMMA CastingIs ==
  ASSUME NEW room, NEW member
  PROVE  /\ Casting(room, member).code = CanonicalCode(room, member.code)
         /\ Casting(room, member).name =
              IF member.name = "" THEN KeptName(room, CanonicalCode(room, member.code)) ELSE member.name
         /\ Casting(room, member).custom
<1> DEFINE code == CanonicalCode(room, member.code)
           name == IF member.name = "" THEN KeptName(room, code) ELSE member.name
<1>1. Casting(room, member) = [code |-> code, name |-> name, custom |-> TRUE]
  BY DEF Casting, KeptName
<1> HIDE DEF code, name
<1>2. Casting(room, member).code = code /\ Casting(room, member).name = name
  <2>1. PICK tweaked : Casting(room, member) = [code |-> code, name |-> name, custom |-> tweaked]
    BY <1>1, Zenon
  <2> QED BY <2>1
<1>3. Casting(room, member).custom = TRUE
  <2>1. PICK other, tweaked : Casting(room, member) = [code |-> code, name |-> other, custom |-> tweaked] /\ tweaked = TRUE
    BY <1>1, Zenon
  <2>2. Casting(room, member).custom = tweaked
    BY <2>1
  <2> QED BY <2>1, <2>2, Zenon
<1>4. Casting(room, member).custom
  BY <1>3, Zenon
<1> QED BY <1>2, <1>4 DEF code, name

\* An agent has a code, and no card that is not its own goes by it.
OwnCodes(crew, cards) ==
  \A a \in crew : a.code # "" /\ \A card \in cards : card.code # a.code => a.code \notin TokensOfCard(card)

\* A pool has each card at its code, which somebody was given, and no card there has the
\* code of another's agent as its name.
Coded(room, cards) == \A c \in DOMAIN room.pool : room.pool[c].code = c /\ \E o \in cards : o.code = c
IsNamed(room, crew) == \A c \in DOMAIN room.pool, a \in crew : room.pool[c].name = a.code => c = a.code
Seated(room, agent) ==
  agent.code \in DOMAIN room.index /\ agent.code \in DOMAIN room.pool /\ room.index[agent.code] = agent.code
Seats(room, crew, cards, seated) ==
  Leads(room) /\ Coded(room, cards) /\ IsNamed(room, crew) /\ \A a \in seated : Seated(room, a)

\* A card that has no agent's code among its tokens, but its own, leaves all of it in place.
KeepsOthers(old, new, card) ==
  /\ new.pool[card.code] = card
  /\ \A c \in DOMAIN old.pool : c \in DOMAIN new.pool /\ (c # card.code => new.pool[c] = old.pool[c])

LEMMA SeatCard ==
  ASSUME NEW crew, NEW cards, NEW seated \in SUBSET crew, NEW old, NEW new, NEW card,
         Seats(old, crew, cards, seated), Registers(old, new, card), \E o \in cards : o.code = card.code,
         \A a \in crew : a.code # "" /\ (a.code \in TokensOfCard(card) => card.code = a.code)
  PROVE  Seats(new, crew, cards, seated) /\ Seated(new, card) /\ KeepsOthers(old, new, card)
<1>1. PICK taken : IsAfter(old, new, card, taken) /\ taken \subseteq TokensOfCard(card)
  <2>1. PICK taken : Registered(old, new, card, taken)
    BY Zenon DEF Registers
  <2>2. IsAfter(old, new, card, taken)
    BY <2>1, AfterRegistering
  <2> QED BY <2>1, <2>2 DEF Registered
<1>2. Leads(new)
  BY RegisteringLeads DEF Seats
<1>3. Coded(new, cards)
  BY <1>1 DEF Seats, Coded, IsAfter
<1>4. IsNamed(new, crew)
  <2>1. ASSUME NEW c \in DOMAIN new.pool, NEW a \in crew, new.pool[c].name = a.code PROVE c = a.code
    <3>1. CASE c = card.code
      <4>1. card.name = a.code /\ a.code # ""
        BY <1>1, <2>1, <3>1 DEF IsAfter
      <4>2. a.code \in TokensOfCard(card)
        BY <4>1 DEF TokensOfCard
      <4> QED BY <3>1, <4>2
    <3>2. CASE c # card.code
      <4>1. c \in DOMAIN old.pool /\ new.pool[c] = old.pool[c]
        BY <1>1, <2>1, <3>2 DEF IsAfter
      <4> QED BY <2>1, <4>1 DEF Seats, IsNamed
    <3> QED BY <3>1, <3>2
  <2> QED BY <2>1 DEF IsNamed
<1>5. Seated(new, card)
  BY <1>1 DEF Seated, IsAfter
<1>6. ASSUME NEW a \in seated PROVE Seated(new, a)
  <2>1. CASE a.code \in taken
    <3>1. card.code = a.code
      BY <1>1, <2>1
    <3> QED BY <1>5, <3>1 DEF Seated
  <2>2. CASE a.code \notin taken
    BY <1>1, <2>2 DEF Seats, Seated, IsAfter
  <2> QED BY <2>1, <2>2
<1>7. Seats(new, crew, cards, seated)
  BY <1>2, <1>3, <1>4, <1>6 DEF Seats
<1> QED BY <1>1, <1>5, <1>7 DEF IsAfter, KeepsOthers

LEMMA SeatAgent ==
  ASSUME NEW crew, NEW cards, NEW seated \in SUBSET crew, NEW agent \in cards,
         OwnCodes(crew, cards), NEW old, NEW new,
         Seats(old, crew, cards, seated), Registers(old, new, InstalledCard(agent))
  PROVE  Seats(new, crew, cards, seated) /\ Seated(new, agent) /\ DOMAIN old.pool \subseteq DOMAIN new.pool
<1> DEFINE card == InstalledCard(agent)
<1>1. card.code = agent.code /\ card.name = agent.name
  BY InstalledIs
<1>2. TokensOfCard(card) = TokensOfCard(agent)
  BY <1>1 DEF TokensOfCard
<1>3. \A a \in crew : a.code # "" /\ (a.code \in TokensOfCard(card) => card.code = a.code)
  BY <1>1, <1>2 DEF OwnCodes
<1>4. \E o \in cards : o.code = card.code
  BY <1>1
<1> HIDE DEF card
<1>5. Registers(old, new, card)
  BY DEF card
<1>6. Seats(new, crew, cards, seated) /\ Seated(new, card) /\ KeepsOthers(old, new, card)
  BY <1>3, <1>4, <1>5, SeatCard
<1>7. Seated(new, agent)
  BY <1>1, <1>6 DEF Seated
<1> QED BY <1>6, <1>7 DEF KeepsOthers

OwnCasting(room, member, agent) ==
  /\ agent.code \in TokensOfCard(Casting(room, member)) => Casting(room, member).code = agent.code
  /\ member.code = agent.code => Casting(room, member).code = agent.code

\* A member's casting has the code of an agent among its tokens only where it is the agent's.
LEMMA CastingIsOwn ==
  ASSUME NEW crew, NEW cards, NEW room, NEW member \in cards, NEW agent \in crew,
         OwnCodes(crew, cards), Seats(room, crew, cards, crew)
  PROVE  OwnCasting(room, member, agent)
<1> DEFINE card == Casting(room, member)
           code == CanonicalCode(room, member.code)
<1>1. /\ card.code = code
      /\ card.name = IF member.name = "" THEN KeptName(room, code) ELSE member.name
  BY CastingIs
<1> HIDE DEF card
<1>2. member.code \in DOMAIN room.index => code = room.index[member.code] /\ code \in DOMAIN room.pool
  BY DEF CanonicalCode, Seats, Leads
<1>3. member.code \notin DOMAIN room.index => code = member.code
  BY DEF CanonicalCode
<1> HIDE DEF code
<1>4. \E o \in cards : o.code = code
  BY <1>2, <1>3 DEF Seats, Coded
<1>5. agent.code \in DOMAIN room.index /\ room.index[agent.code] = agent.code
  BY DEF Seats, Seated
<1>6. member.code = agent.code => code = agent.code
  BY <1>2, <1>5
<1>7. ASSUME agent.code \in TokensOfCard(card), code # agent.code PROVE FALSE
  <2>1. agent.code \notin {code, AliasOf(code)}
    BY <1>4, <1>7 DEF OwnCodes, TokensOfCard
  <2>2. card.name = agent.code /\ agent.code # ""
    BY <1>1, <1>7, <2>1 DEF TokensOfCard
  <2>3. CASE member.name = ""
    <3>1. KeptName(room, code) = agent.code
      BY <1>1, <2>2, <2>3
    <3>2. code \in DOMAIN room.pool => code = agent.code
      BY <3>1 DEF KeptName, Seats, IsNamed
    <3> QED BY <1>7, <3>1, <3>2 DEF KeptName
  <2>4. CASE member.name # ""
    <3>1. agent.code \in TokensOfCard(member)
      BY <1>1, <2>2, <2>4 DEF TokensOfCard
    <3>2. member.code = agent.code
      BY <3>1 DEF OwnCodes
    <3> QED BY <1>6, <1>7, <3>2
  <2> QED BY <2>3, <2>4
<1> QED BY <1>1, <1>6, <1>7 DEF card, OwnCasting

\* The places that members have taken.
TakenPlace(room, agent) == agent.code \in DOMAIN room.pool /\ room.pool[agent.code].custom

LEMMA SeatMember ==
  ASSUME NEW crew, NEW cards, NEW member \in cards,
         OwnCodes(crew, cards), NEW old, NEW new,
         Seats(old, crew, cards, crew), Registers(old, new, Casting(old, member))
  PROVE  /\ Seats(new, crew, cards, crew) /\ DOMAIN old.pool \subseteq DOMAIN new.pool
         /\ \A a \in crew : member.code = a.code \/ TakenPlace(old, a) => TakenPlace(new, a)
<1> DEFINE card == Casting(old, member)
<1>0. ASSUME NEW a \in crew
      PROVE  a.code # "" /\ (a.code \in TokensOfCard(card) => card.code = a.code) /\ (member.code = a.code => card.code = a.code)
  <2>1. a.code # ""
    BY DEF OwnCodes
  <2>2. Seats(old, crew, cards, crew)
    OBVIOUS
  <2>3. OwnCasting(old, member, a)
    BY <2>2, CastingIsOwn
  <2> QED BY <2>1, <2>3 DEF OwnCasting
<1>2. \A a \in crew : a.code # "" /\ (a.code \in TokensOfCard(card) => card.code = a.code)
  BY <1>0
<1>1. \E o \in cards : o.code = card.code
  <2>1. Casting(old, member).code = CanonicalCode(old, member.code)
    BY CastingIs
  <2>2. member.code \in DOMAIN old.index => CanonicalCode(old, member.code) \in DOMAIN old.pool
    BY DEF CanonicalCode, Seats, Leads
  <2>3. member.code \notin DOMAIN old.index => CanonicalCode(old, member.code) = member.code
    BY DEF CanonicalCode
  <2> QED BY <2>1, <2>2, <2>3 DEF Seats, Coded
<1>3. card.custom
  BY CastingIs
<1> HIDE DEF card
<1>4. Registers(old, new, card)
  BY DEF card
<1>5. crew \in SUBSET crew
  OBVIOUS
<1>6. Seats(new, crew, cards, crew) /\ Seated(new, card) /\ KeepsOthers(old, new, card)
  BY <1>1, <1>2, <1>4, <1>5, SeatCard
<1>7. ASSUME NEW a \in crew, member.code = a.code \/ TakenPlace(old, a) PROVE TakenPlace(new, a)
  <2>1. a.code \in DOMAIN new.pool
    BY <1>6 DEF Seats, Seated
  <2>2. CASE a.code = card.code
    <3>1. new.pool[a.code] = card
      BY <1>6, <2>2 DEF KeepsOthers
    <3> QED BY <1>3, <2>1, <3>1, Zenon DEF TakenPlace
  <2>3. CASE a.code # card.code
    <3>1. TakenPlace(old, a)
      BY <1>0, <1>7, <2>3
    <3>2. new.pool[a.code] = old.pool[a.code]
      BY <1>6, <2>3, <3>1 DEF TakenPlace, KeepsOthers
    <3> QED BY <2>1, <3>1, <3>2, Zenon DEF TakenPlace
  <2> QED BY <2>2, <2>3
<1> QED BY <1>6, <1>7 DEF KeepsOthers
-----------------------------------------------------------------------------
\* The first k of a sequence.
FirstOf(seq, k) == {seq[i] : i \in 1..k}

LEMMA FirstOfNext ==
  ASSUME NEW seq, NEW k \in Nat
  PROVE  FirstOf(seq, k + 1) = FirstOf(seq, k) \cup {seq[k + 1]}
<1>1. 1..(k + 1) = (1..k) \cup {k + 1}
  OBVIOUS
<1> QED BY <1>1 DEF FirstOf

LEMMA EmptyRoomSeats ==
  ASSUME NEW crew, NEW cards
  PROVE  Seats(EmptyRoom, crew, cards, {})
<1>1. DOMAIN EmptyRoom.pool = {} /\ DOMAIN EmptyRoom.index = {}
  BY DEF EmptyRoom
<1> QED BY <1>1 DEF Seats, Leads, Coded, IsNamed

\* Every agent is in the room, and those who own their codes are seated there.
Present(room, agents) == \A a \in agents : a.code \in DOMAIN room.pool

LEMMA FilledRoomSeats ==
  ASSUME NEW crew, NEW members, NEW n \in Nat, NEW m \in Nat, NEW room, NEW cards,
         FirstOf(crew, n) \subseteq cards, FirstOf(members, m) \subseteq cards,
         NEW owned \in SUBSET FirstOf(crew, n), OwnCodes(owned, cards), FilledRoom(room, crew, members, n, m)
  PROVE  /\ Seats(room, owned, cards, owned) /\ Present(room, FirstOf(crew, n))
         /\ \A a \in owned, i \in 1..m : members[i].code = a.code => TakenPlace(room, a)
<1> DEFINE A == FirstOf(crew, n)
           Of(k) == FirstOf(crew, k) \cap owned
<1>1. PICK f, g : SeatsAgents(f, crew, n) /\ CastsMembers(g, f[n], members, m, room)
  BY Zenon DEF FilledRoom
<1>2. \A k \in 1..n : crew[k] \in cards
  BY DEF FirstOf
<1>3. \A k \in 1..m : members[k] \in cards
  BY DEF FirstOf
<1>4. Of(n) = owned /\ OwnCodes(owned, cards)
  OBVIOUS
<1> HIDE DEF A
<1>5. Seats(f[n], owned, cards, owned) /\ Present(f[n], A)
  <2> DEFINE Good == {k \in 0..n : Seats(f[k], owned, cards, Of(k)) /\ Present(f[k], FirstOf(crew, k))}
  <2>1. 0 \in Good
    <3>1. f[0] = EmptyRoom /\ FirstOf(crew, 0) = {} /\ 0 \in 0..n
      BY <1>1 DEF SeatsAgents, FirstOf
    <3>2. Of(0) = {} /\ Present(f[0], FirstOf(crew, 0))
      BY <3>1 DEF Present
    <3>3. Seats(f[0], owned, cards, Of(0))
      BY <3>1, <3>2, EmptyRoomSeats
    <3> QED BY <3>1, <3>2, <3>3
  <2>2. ASSUME NEW k \in 0..(n - 1), k \in Good PROVE k + 1 \in Good
    <3> DEFINE agent == crew[k + 1] seated == Of(k)
    <3>1. /\ Registers(f[k], f[k + 1], InstalledCard(agent)) /\ agent \in cards /\ k + 1 \in 0..n
          /\ FirstOf(crew, k + 1) = FirstOf(crew, k) \cup {agent}
      BY <1>1, <1>2, FirstOfNext DEF SeatsAgents
    <3>2. /\ Seats(f[k], owned, cards, seated) /\ Present(f[k], FirstOf(crew, k)) /\ seated \in SUBSET owned
          /\ Of(k + 1) = seated \cup ({agent} \cap owned)
      BY <2>2, <3>1
    <3> HIDE DEF agent, seated
    <3>3. Seats(f[k + 1], owned, cards, seated) /\ Seated(f[k + 1], agent) /\ DOMAIN f[k].pool \subseteq DOMAIN f[k + 1].pool
      <4> DEFINE old == f[k] new == f[k + 1]
      <4>1. Registers(old, new, InstalledCard(agent)) /\ agent \in cards
        BY <3>1
      <4>2. Seats(old, owned, cards, seated) /\ seated \in SUBSET owned
        BY <3>2
      <4> HIDE DEF old, new
      <4>3. Seats(new, owned, cards, seated) /\ Seated(new, agent) /\ DOMAIN old.pool \subseteq DOMAIN new.pool
        BY <1>4, <4>1, <4>2, SeatAgent
      <4> QED BY <4>3 DEF old, new
    <3>4. Present(f[k + 1], FirstOf(crew, k + 1))
      BY <3>1, <3>2, <3>3 DEF Present, Seated
    <3>5. Seats(f[k + 1], owned, cards, Of(k + 1))
      BY <3>2, <3>3 DEF Seats
    <3> QED BY <3>1, <3>4, <3>5
  <2> HIDE DEF Good
  <2>3. n \in Good
    BY <2>1, <2>2, PartyAgents!UpTo
  <2>4. Seats(f[n], owned, cards, Of(n)) /\ Present(f[n], FirstOf(crew, n))
    BY <2>3 DEF Good
  <2> QED BY <1>4, <2>4 DEF A
<1> HIDE DEF Of
<1> DEFINE Held(k) == /\ Seats(g[k], owned, cards, owned) /\ Present(g[k], A)
                      /\ \A a \in owned, i \in 1..k : members[i].code = a.code => TakenPlace(g[k], a)
<1>7. Held(m)
  <2> DEFINE Good == {k \in 0..m : Held(k)}
  <2>1. 0 \in Good
    BY <1>1, <1>5 DEF CastsMembers
  <2>2. ASSUME NEW k \in 0..(m - 1), k \in Good PROVE k + 1 \in Good
    <3>1. Registers(g[k], g[k + 1], Casting(g[k], members[k + 1])) /\ members[k + 1] \in cards /\ k + 1 \in 0..m
      BY <1>1, <1>3 DEF CastsMembers
    <3>2. Seats(g[k], owned, cards, owned) /\ Present(g[k], A)
      BY <2>2
    <3>3. /\ Seats(g[k + 1], owned, cards, owned) /\ DOMAIN g[k].pool \subseteq DOMAIN g[k + 1].pool
          /\ \A a \in owned : members[k + 1].code = a.code \/ TakenPlace(g[k], a) => TakenPlace(g[k + 1], a)
      BY <3>1, <3>2, SeatMember
    <3>4. \A i \in 1..(k + 1) : i = k + 1 \/ i \in 1..k
      OBVIOUS
    <3>5. \A a \in owned, i \in 1..(k + 1) : members[i].code = a.code => TakenPlace(g[k + 1], a)
      BY <2>2, <3>3, <3>4
    <3>6. Present(g[k + 1], A)
      BY <3>2, <3>3 DEF Present
    <3> QED BY <3>1, <3>3, <3>5, <3>6
  <2> HIDE DEF Good
  <2>3. m \in Good
    BY <2>1, <2>2, PartyAgents!UpTo
  <2> QED BY <2>3 DEF Good
<1>8. g[m] = room
  BY <1>1 DEF CastsMembers
<1> QED BY <1>7, <1>8 DEF A

LEMMA FirstOfAll ==
  ASSUME NEW S, NEW seq \in Seq(S), NEW n, DOMAIN seq = 1..n
  PROVE  FirstOf(seq, n) \subseteq S /\ FirstOf(seq, n) = Range(seq)
<1>1. \A i \in DOMAIN seq : seq[i] \in S
  BY ElementOfSeq, LenProperties
<1> QED BY <1>1 DEF FirstOf, Range

\* The agents whose codes are their own in what is read, as the property has it.
LEMMA OwnersAre ==
  ASSUME NEW owned \in SUBSET Range(LoadAgents), \A a \in owned : OwnsItsCode(a)
  PROVE  OwnCodes(owned, Range(LoadAgents) \cup Range(LoadWorkflow))
BY DEF OwnsItsCode, CardsRead, OwnCodes

LEMMA InstalledAreInPlace ==
  ASSUME RosterTypeInv
  PROVE  RoomIsTheInstalled
<1>1. PICK n \in Nat, m \in Nat, p \in Nat :
        /\ DOMAIN LoadAgents = 1..n /\ DOMAIN LoadWorkflow = 1..m
        /\ FilledRoom(PartyRoom, LoadAgents, LoadWorkflow, n, m)
        /\ DOMAIN LoadPartyWorkflow = 1..p /\ FilledRoom(ForgeRoom, LoadAgents, LoadPartyWorkflow, n, p)
  BY RoomsAreFilled, Zenon
<1>2. /\ LoadAgents \in Seq(AgentCards) /\ LoadWorkflow \in Seq(AllCards) /\ LoadPartyWorkflow \in Seq(AllCards)
      /\ partySkill => LoadPartyWorkflow = LoadWorkflow
  BY ReadMembersAre DEF IsCast
<1> DEFINE A == FirstOf(LoadAgents, n)
           owned == {a \in A : OwnsItsCode(a)}
           cards == Range(LoadAgents) \cup Range(LoadWorkflow)
<1>3. A = Range(LoadAgents) /\ A \subseteq cards /\ FirstOf(LoadWorkflow, m) = Range(LoadWorkflow)
  BY <1>1, <1>2, FirstOfAll
<1>4. owned \in SUBSET A /\ OwnCodes(owned, cards)
  BY <1>3, OwnersAre
<1>7. \A i \in 1..n : LoadAgents[i] \in A /\ (OwnsItsCode(LoadAgents[i]) => LoadAgents[i] \in owned)
  BY DEF FirstOf
<1>9. FirstOf(LoadWorkflow, m) \subseteq cards
  BY <1>3
<1>10. ASSUME partySkill PROVE LoadPartyWorkflow = LoadWorkflow /\ p = m
  <2>1. LoadPartyWorkflow = LoadWorkflow /\ 1..p = 1..m
    BY <1>1, <1>2, <1>10
  <2>2. p \in Nat /\ m \in Nat /\ (p > m => p \in 1..p) /\ (m > p => m \in 1..m)
    BY <1>1
  <2> QED BY <2>1, <2>2
<1> HIDE DEF cards, owned
<1>5. /\ Seats(PartyRoom, owned, cards, owned) /\ Present(PartyRoom, A)
      /\ \A a \in owned, i \in 1..m : LoadWorkflow[i].code = a.code => TakenPlace(PartyRoom, a)
  BY <1>1, <1>3, <1>4, <1>9, FilledRoomSeats
<1>6. ASSUME partySkill
      PROVE  /\ Seats(ForgeRoom, owned, cards, owned) /\ Present(ForgeRoom, A)
             /\ \A a \in owned, i \in 1..m : LoadWorkflow[i].code = a.code => TakenPlace(ForgeRoom, a)
  <2>1. FilledRoom(ForgeRoom, LoadAgents, LoadWorkflow, n, m)
    BY <1>1, <1>6, <1>10
  <2> QED BY <1>3, <1>4, <1>9, <2>1, FilledRoomSeats
<1> HIDE DEF A
<1> DEFINE party == DefaultRoom(PartyRoom) forge == DefaultRoom(ForgeRoom) members == Range(LoadWorkflow)
           TakesPlace(card, agent) ==
             card.code = agent.code /\ (OwnsItsCode(agent) /\ (\E o \in members : o.code = agent.code) => card.custom)
<1>8. ASSUME NEW i \in DOMAIN LoadAgents
      PROVE  TakesPlace(party[i], LoadAgents[i]) /\ (partySkill => TakesPlace(forge[i], LoadAgents[i]))
  <2> DEFINE a == LoadAgents[i]
  <2>1. a \in A /\ (OwnsItsCode(a) => a \in owned)
    BY <1>1, <1>7
  <2>2. party[i] = PartyRoom.pool[a.code] /\ forge[i] = ForgeRoom.pool[a.code]
    BY DEF DefaultRoom
  <2>3. ASSUME NEW o \in members PROVE \E j \in 1..m : LoadWorkflow[j] = o
    BY <1>1 DEF Range
  <2> HIDE DEF a, party, forge, members
  <2>4. PartyRoom.pool[a.code].code = a.code /\ (partySkill => ForgeRoom.pool[a.code].code = a.code)
    BY <1>5, <1>6, <2>1 DEF Seats, Present, Coded
  <2>5. ASSUME NEW o \in members, o.code = a.code, OwnsItsCode(a) PROVE TakenPlace(PartyRoom, a)
    BY <1>5, <2>1, <2>3, <2>5
  <2>6. ASSUME NEW o \in members, o.code = a.code, OwnsItsCode(a), partySkill PROVE TakenPlace(ForgeRoom, a)
    BY <1>6, <2>1, <2>3, <2>6
  <2>7. OwnsItsCode(a) /\ (\E o \in members : o.code = a.code) => party[i].custom
    BY <2>2, <2>5, Zenon DEF TakenPlace
  <2>8. partySkill /\ OwnsItsCode(a) /\ (\E o \in members : o.code = a.code) => forge[i].custom
    BY <2>2, <2>6, Zenon DEF TakenPlace
  <2>9. party[i].code = a.code /\ (partySkill => forge[i].code = a.code)
    BY <2>2, <2>4
  <2> QED BY <2>7, <2>8, <2>9, Zenon DEF a
<1> HIDE DEF party, forge, members
<1> QED BY <1>8, Zenon DEF RoomIsTheInstalled, party, forge, members
-----------------------------------------------------------------------------
OwnNames(cards) == \A card \in cards, other \in cards : card.code # other.code => card.name \notin TokensOfCard(other)

\* Where the tokens of a room come from: the code they lead to, its alias, or the name of
\* a card read so far, which the pool has under no other code; and the name of every card in
\* the pool leads to it.
LedBy(room, t, c, read) ==
  \/ t = c \/ t = AliasOf(c)
  \/ t # "" /\ \E o \in read : o.name = t /\ (o.code \in DOMAIN room.pool => o.code = c)
Traced(room, read) == \A t \in DOMAIN room.index : LedBy(room, t, room.index[t], read)
FoundByName(room, c, name) ==
  name \in {"", c, AliasOf(c)} \/ (name \in DOMAIN room.index /\ room.index[name] = c)
Found(room) == \A c \in DOMAIN room.pool : FoundByName(room, c, room.pool[c].name)
KnownRoom(room, read) == Leads(room) /\ Coded(room, read) /\ Traced(room, read) /\ Found(room)

\* The card that an entry is registered with.
OfEntry(room, entry, card) ==
  /\ card.code = CanonicalCode(room, entry.code)
  /\ \/ card.name \in {"", entry.name, card.code}
     \/ card.code \in DOMAIN room.pool /\ card.name = room.pool[card.code].name

\* What is known where an entry is read.
Reads(room, read, entry, card) ==
  /\ KnownRoom(room, read) /\ OwnNames(read \cup {entry}) /\ OfEntry(room, entry, card)
  /\ \A o \in read : o.code = entry.code => Seated(room, entry)

LEMMA EntryFacts ==
  ASSUME NEW room, NEW read, NEW entry, NEW card, Reads(room, read, entry, card)
  PROVE  /\ card.code \notin DOMAIN room.pool => card.code = entry.code /\ \A o \in read : o.code # card.code
         /\ entry.code \in DOMAIN room.pool => card.code = entry.code
         /\ entry.code \in DOMAIN room.pool \cup {card.code} => card.code = entry.code
         /\ \E o \in read \cup {entry} : o.code = card.code
<1>1. card.code = CanonicalCode(room, entry.code)
  BY DEF Reads, OfEntry
<1>2. entry.code \in DOMAIN room.index => card.code = room.index[entry.code] /\ card.code \in DOMAIN room.pool
  BY <1>1 DEF CanonicalCode, Reads, KnownRoom, Leads
<1>3. entry.code \notin DOMAIN room.index => card.code = entry.code
  BY <1>1 DEF CanonicalCode
<1>4. \A o \in read : o.code = entry.code => entry.code \in DOMAIN room.index /\ card.code = entry.code
  BY <1>2 DEF Reads, Seated
<1>5. \A c \in DOMAIN room.pool : \E o \in read : o.code = c
  BY DEF Reads, KnownRoom, Coded
<1> QED BY <1>2, <1>3, <1>4, <1>5

\* A name that leads somewhere already leads to the card.
LEMMA NameIsFound ==
  ASSUME NEW room, NEW read, NEW entry, NEW card, Reads(room, read, entry, card), card.name \in DOMAIN room.index
  PROVE  FoundByName(room, card.code, card.name)
<1>0. /\ card.code \notin DOMAIN room.pool => \A o \in read : o.code # card.code
      /\ entry.code \in DOMAIN room.pool \cup {card.code} => card.code = entry.code
      /\ \E o \in read \cup {entry} : o.code = card.code
  BY EntryFacts
<1> DEFINE name == card.name c == room.index[name]
<1> SUFFICES ASSUME name \notin {"", card.code, AliasOf(card.code)}, c # card.code PROVE FALSE
  BY DEF FoundByName
<1>1. CASE card.code \in DOMAIN room.pool /\ name = room.pool[card.code].name
  BY <1>1 DEF Reads, KnownRoom, Found, FoundByName
<1>2. CASE name = entry.name
  <2>1. entry.code \in DOMAIN room.pool => card.code = entry.code
    BY <1>0
  <2>2. c \in DOMAIN room.pool
    BY DEF Reads, KnownRoom, Leads
  <2>3. LedBy(room, name, c, read)
    BY DEF Reads, KnownRoom, Traced
  <2>4. \A o \in read : name \in TokensOfCard(o) => o.code = entry.code
    BY <1>2 DEF Reads, OwnNames
  <2>5. CASE name \in {c, AliasOf(c)}
    <3>1. PICK o \in read : o.code = c
      BY <2>2 DEF Reads, KnownRoom, Coded
    <3>2. o.code = entry.code
      BY <2>4, <2>5, <3>1 DEF TokensOfCard
    <3> QED BY <2>1, <2>2, <3>1, <3>2
  <2>6. ASSUME NEW o \in read, o.name = name, o.code \in DOMAIN room.pool => o.code = c PROVE FALSE
    <3>1. o.code = entry.code
      BY <2>4, <2>6 DEF TokensOfCard
    <3>2. entry.code \in DOMAIN room.pool
      BY <3>1 DEF Reads, Seated
    <3> QED BY <2>1, <2>6, <3>1, <3>2
  <2> QED BY <2>3, <2>5, <2>6 DEF LedBy
<1> QED BY <1>1, <1>2 DEF Reads, OfEntry

\* So the forge leaves no name alone that party mode gives away.
LEMMA ForgeRegistersAsParty ==
  ASSUME NEW room, NEW read, NEW entry, NEW card, Reads(room, read, entry, card)
  PROVE  RegisterInForge(room, card) = RegisterInParty(room, card)
<1> DEFINE ids == {card.code, AliasOf(card.code)}
           index == With(room.index, ids, card.code)
           indexed == With(room.index, TokensOfCard(card), card.code)
<1>1. DOMAIN index = DOMAIN room.index \cup ids
  BY DEF With
<1>2. (IF card.name \in DOMAIN index \cup {""} THEN index ELSE With(index, {card.name}, card.code)) = indexed
  <2>1. CASE card.name \notin DOMAIN index \cup {""}
    <3>1. TokensOfCard(card) = ids \cup {card.name}
      BY <2>1 DEF TokensOfCard
    <3>2. With(index, {card.name}, card.code) = With(room.index, ids \cup {card.name}, card.code)
      BY WithTwice
    <3> QED BY <2>1, <3>1, <3>2
  <2>2. CASE card.name = "" \/ card.name \in ids
    <3>1. TokensOfCard(card) = ids
      BY <2>2 DEF TokensOfCard
    <3>2. card.name \in DOMAIN index \cup {""}
      BY <1>1, <2>2
    <3> QED BY <3>1, <3>2
  <2>3. CASE card.name \notin ids \cup {""} /\ card.name \in DOMAIN room.index
    <3>1. room.index[card.name] = card.code
      BY <2>3, NameIsFound DEF FoundByName
    <3>2. TokensOfCard(card) = ids \cup {card.name}
      BY <2>3 DEF TokensOfCard
    <3>3. index = indexed
      BY <2>3, <3>1, <3>2 DEF With
    <3> QED BY <1>1, <2>3, <3>3
  <2> QED BY <1>1, <2>1, <2>2, <2>3
<1>3. RegisterInForge(room, card) =
        [pool |-> With(room.pool, {card.code}, card),
         index |-> IF card.name \in DOMAIN index \cup {""} THEN index ELSE With(index, {card.name}, card.code)]
  BY DEF RegisterInForge
<1>4. RegisterInParty(room, card) = [pool |-> With(room.pool, {card.code}, card), index |-> indexed]
  BY DEF RegisterInParty
<1> HIDE DEF index, indexed
<1> QED BY <1>2, <1>3, <1>4

LEMMA KnownAfter ==
  ASSUME NEW old, NEW read, NEW entry, NEW card, Reads(old, read, entry, card)
  PROVE  KnownRoom(RegisterInParty(old, card), read \cup {entry})
<1> DEFINE new == RegisterInParty(old, card) taken == TokensOfCard(card)
<1>1. IsAfter(old, new, card, taken) /\ Registers(old, new, card)
  <2>1. Registered(old, new, card, taken)
    BY DEF Registered, RegisterInParty, TokensOfCard
  <2> QED BY <2>1, AfterRegistering, PartyRegisters
<1> HIDE DEF new
<1>2. /\ DOMAIN new.pool = DOMAIN old.pool \cup {card.code} /\ DOMAIN new.index = DOMAIN old.index \cup taken
      /\ new.pool[card.code] = card
  BY <1>1 DEF IsAfter
<1>3. \A c \in DOMAIN old.pool : c # card.code => new.pool[c] = old.pool[c]
  BY <1>1 DEF IsAfter
<1>4. \A t \in taken : new.index[t] = card.code
  BY <1>1 DEF IsAfter
<1>5. \A t \in DOMAIN old.index : t \notin taken => new.index[t] = old.index[t]
  BY <1>1 DEF IsAfter
<1>6. KnownRoom(old, read) /\ OwnNames(read \cup {entry})
  BY DEF Reads
<1>7. /\ card.code \notin DOMAIN old.pool => \A o \in read : o.code # card.code
      /\ entry.code \in DOMAIN old.pool \cup {card.code} => card.code = entry.code
      /\ \E o \in read \cup {entry} : o.code = card.code
  BY EntryFacts
<1>8. Leads(new)
  BY <1>1, <1>6, RegisteringLeads DEF KnownRoom
<1>9. Coded(new, read \cup {entry})
  BY <1>2, <1>3, <1>6, <1>7 DEF KnownRoom, Coded
<1>10. ASSUME NEW t, NEW c, LedBy(old, t, c, read) PROVE LedBy(new, t, c, read \cup {entry})
  <2>1. ASSUME NEW o \in read, o.name = t, o.code \in DOMAIN old.pool => o.code = c, o.code \in DOMAIN new.pool
        PROVE  o.code = c
    BY <1>2, <1>7, <2>1
  <2> QED BY <1>10, <2>1 DEF LedBy
<1>11. ASSUME NEW t \in DOMAIN new.index PROVE LedBy(new, t, new.index[t], read \cup {entry})
  <2>1. CASE t \notin taken
    <3>1. t \in DOMAIN old.index /\ new.index[t] = old.index[t]
      BY <1>2, <1>5, <2>1
    <3>2. LedBy(old, t, old.index[t], read)
      BY <1>6, <3>1 DEF KnownRoom, Traced
    <3> QED BY <1>10, <3>1, <3>2
  <2>2. CASE t \in {card.code, AliasOf(card.code)}
    BY <1>4, <2>2 DEF LedBy, TokensOfCard
  <2>3. CASE t = card.name /\ t \notin {"", card.code, AliasOf(card.code)}
    <3>1. new.index[t] = card.code
      BY <1>4, <2>3 DEF TokensOfCard
    <3>2. CASE t = entry.name
      <4>1. entry.code \in DOMAIN new.pool => entry.code = card.code
        BY <1>2, <1>7
      <4> QED BY <2>3, <3>1, <3>2, <4>1 DEF LedBy
    <3>3. CASE card.code \in DOMAIN old.pool /\ t = old.pool[card.code].name
      <4>1. t \in DOMAIN old.index /\ old.index[t] = card.code
        BY <1>6, <2>3, <3>3 DEF KnownRoom, Found, FoundByName
      <4>2. LedBy(old, t, card.code, read)
        BY <1>6, <4>1 DEF KnownRoom, Traced
      <4> QED BY <1>10, <3>1, <4>2
    <3> QED BY <2>3, <3>2, <3>3 DEF Reads, OfEntry
  <2> QED BY <2>1, <2>2, <2>3 DEF TokensOfCard
<1>12. ASSUME NEW c \in DOMAIN new.pool PROVE FoundByName(new, c, new.pool[c].name)
  <2>1. CASE c = card.code
    <3>1. new.pool[c].name = card.name
      BY <1>2, <2>1
    <3>2. CASE card.name # ""
      <4>1. card.name \in taken
        BY <3>2 DEF TokensOfCard
      <4> QED BY <1>2, <1>4, <2>1, <3>1, <4>1 DEF FoundByName
    <3> QED BY <3>1, <3>2 DEF FoundByName
  <2>2. CASE c # card.code
    <3> DEFINE n == old.pool[c].name
    <3>1. c \in DOMAIN old.pool /\ new.pool[c] = old.pool[c]
      BY <1>2, <1>3, <2>2
    <3>2. FoundByName(old, c, n)
      BY <1>6, <3>1 DEF KnownRoom, Found
    <3>3. CASE n \in {"", c, AliasOf(c)}
      BY <3>1, <3>3 DEF FoundByName
    <3>4. CASE n \notin {"", c, AliasOf(c)}
      <4>1. n \in DOMAIN old.index /\ old.index[n] = c
        BY <3>2, <3>4 DEF FoundByName
      <4>2. n \notin taken
        <5>1. n = card.name => n \in {card.code, AliasOf(card.code)}
          BY <2>2, <3>4, <4>1, NameIsFound DEF FoundByName
        <5>2. ASSUME n \in {card.code, AliasOf(card.code)} PROVE FALSE
          <6>1. LedBy(old, n, c, read)
            BY <1>6, <4>1 DEF KnownRoom, Traced
          <6>2. PICK o \in read : o.name = n /\ (o.code \in DOMAIN old.pool => o.code = c)
            BY <3>4, <6>1 DEF LedBy
          <6>3. PICK q \in read \cup {entry} : q.code = card.code
            BY <1>7
          <6>4. n \in TokensOfCard(q)
            BY <5>2, <6>3 DEF TokensOfCard
          <6>5. o.code = card.code
            BY <1>6, <6>2, <6>3, <6>4 DEF OwnNames
          <6> QED BY <1>7, <2>2, <6>2, <6>5
        <5> QED BY <5>1, <5>2 DEF TokensOfCard
      <4>3. n \in DOMAIN new.index /\ new.index[n] = c
        BY <1>2, <1>5, <4>1, <4>2
      <4> QED BY <3>1, <4>3 DEF FoundByName
    <3> QED BY <3>3, <3>4
  <2> QED BY <2>1, <2>2
<1>13. Traced(new, read \cup {entry}) /\ Found(new)
  BY <1>11, <1>12 DEF Traced, Found
<1>14. KnownRoom(new, read \cup {entry})
  BY <1>8, <1>9, <1>13 DEF KnownRoom
<1> QED BY <1>14 DEF new
-----------------------------------------------------------------------------
LEMMA EmptyRoomKnown == KnownRoom(EmptyRoom, {})
<1>1. DOMAIN EmptyRoom.pool = {} /\ DOMAIN EmptyRoom.index = {}
  BY DEF EmptyRoom
<1> QED BY <1>1 DEF KnownRoom, Leads, Coded, Traced, Found

\* The next agent is registered with its own code, the next member with a casting.
LEMMA AgentReads ==
  ASSUME NEW room, NEW crew, NEW read \in SUBSET crew, NEW agent \in crew, KnownRoom(room, read),
         OwnCodes(crew, crew), OwnNames(crew), \A o \in read : o.code # agent.code
  PROVE  Reads(room, read, agent, InstalledCard(agent))
<1> DEFINE card == InstalledCard(agent)
<1>1. card.code = agent.code /\ card.name = agent.name
  BY InstalledIs
<1> HIDE DEF card
<1>2. ASSUME agent.code \in DOMAIN room.index, room.index[agent.code] # agent.code PROVE FALSE
  <2> DEFINE c == room.index[agent.code]
  <2>1. LedBy(room, agent.code, c, read) /\ c \in DOMAIN room.pool
    BY <1>2 DEF KnownRoom, Traced, Leads
  <2>2. \A o \in read : agent.code \notin TokensOfCard(o)
    BY DEF OwnCodes
  <2>3. PICK o \in read : o.code = c
    BY <2>1 DEF KnownRoom, Coded
  <2>4. agent.code # AliasOf(c)
    BY <2>2, <2>3 DEF TokensOfCard
  <2>5. \A q \in read : q.name = agent.code => agent.code = ""
    BY <2>2 DEF TokensOfCard
  <2> QED BY <1>2, <2>1, <2>4, <2>5 DEF LedBy
<1>3. CanonicalCode(room, agent.code) = agent.code
  BY <1>2 DEF CanonicalCode
<1>4. OfEntry(room, agent, card)
  BY <1>1, <1>3 DEF OfEntry
<1>5. OwnNames(read \cup {agent})
  BY DEF OwnNames
<1>6. Reads(room, read, agent, card)
  BY <1>4, <1>5 DEF Reads
<1> QED BY <1>6 DEF card

LEMMA MemberReads ==
  ASSUME NEW room, NEW read, NEW member, KnownRoom(room, read), OwnNames(read \cup {member}),
         \A o \in read : o.code = member.code => Seated(room, member)
  PROVE  Reads(room, read, member, Casting(room, member))
<1> DEFINE card == Casting(room, member) code == CanonicalCode(room, member.code)
<1>0. /\ card.code = code
      /\ card.name = IF member.name = "" THEN KeptName(room, code) ELSE member.name
  BY CastingIs
<1> HIDE DEF card
<1>1. OfEntry(room, member, card)
  <2>1. CASE member.name = "" /\ code \in DOMAIN room.pool
    <3>1. card.name = room.pool[code].name
      BY <1>0, <2>1 DEF KeptName
    <3> QED BY <1>0, <2>1, <3>1 DEF OfEntry
  <2>2. CASE member.name = "" /\ code \notin DOMAIN room.pool
    <3>1. card.name = code
      BY <1>0, <2>2 DEF KeptName
    <3> QED BY <1>0, <3>1 DEF OfEntry
  <2>3. CASE member.name # ""
    BY <1>0, <2>3 DEF OfEntry
  <2> QED BY <2>1, <2>2, <2>3
<1> QED BY <1>1 DEF Reads, card

LEMMA OwnNamesOfFewer ==
  ASSUME NEW cards, NEW some \in SUBSET cards, OwnNames(cards)
  PROVE  OwnNames(some)
BY DEF OwnNames

\* Both resolvers fill the same room.
LEMMA SameRooms ==
  ASSUME NEW crew, NEW members, NEW n \in Nat, NEW m \in Nat, DOMAIN crew = 1..n, DOMAIN members = 1..m,
         Apart(crew), Apart(members), NEW cards, FirstOf(crew, n) \subseteq cards,
         FirstOf(members, m) \subseteq cards, OwnCodes(FirstOf(crew, n), cards),
         OwnNames(FirstOf(crew, n) \cup FirstOf(members, m))
  PROVE  BuildPool(crew, members) = BuildCollective(crew, members)
<1> DEFINE A == FirstOf(crew, n) M == FirstOf(members, m)
<1>1. /\ A \subseteq cards /\ M \subseteq cards /\ OwnCodes(A, cards) /\ OwnNames(A \cup M)
  OBVIOUS
<1>2. \A k \in 0..n : FirstOf(crew, k) \in SUBSET A
  BY DEF FirstOf
<1>3. \A k \in 0..m : FirstOf(members, k) \in SUBSET M
  BY DEF FirstOf
<1>4. \A k \in 1..n : crew[k] \in A
  BY DEF FirstOf
<1>5. \A k \in 1..m : members[k] \in M
  BY DEF FirstOf
<1>6. ASSUME NEW k \in 0..(n - 1), NEW o \in FirstOf(crew, k) PROVE o.code # crew[k + 1].code
  <2>1. PICK i \in 1..k : o = crew[i]
    BY DEF FirstOf
  <2>2. i \in 1..n /\ k + 1 \in 1..n /\ i # k + 1
    OBVIOUS
  <2> QED BY <2>1, <2>2 DEF Apart
<1>7. ASSUME NEW k \in 0..(m - 1), NEW o \in FirstOf(members, k) PROVE o.code # members[k + 1].code
  <2>1. PICK i \in 1..k : o = members[i]
    BY DEF FirstOf
  <2>2. i \in 1..m /\ k + 1 \in 1..m /\ i # k + 1
    OBVIOUS
  <2> QED BY <2>1, <2>2 DEF Apart
<1>8. PICK f : PartyAgentFold(f, EmptyRoom, crew, n)
  BY PartyAgentSteps, Zenon
<1>9. PICK h : ForgeAgentFold(h, EmptyRoom, crew, n)
  BY ForgeAgentSteps, Zenon
<1>10. PICK g : PartyMemberFold(g, f[n], members, m)
  BY PartyMemberSteps, Zenon
<1>11. PICK j : ForgeMemberFold(j, h[n], members, m)
  BY ForgeMemberSteps, Zenon
<1>12. OwnCodes(A, A) /\ OwnNames(A)
  BY <1>1 DEF OwnCodes, OwnNames
<1>13. FirstOf(crew, n) = A
  OBVIOUS
<1> HIDE DEF A, M
<1> DEFINE SameAgents(k) == h[k] = f[k] /\ KnownRoom(f[k], FirstOf(crew, k)) /\ Seats(f[k], A, cards, FirstOf(crew, k))
<1>14. SameAgents(n)
  <2> DEFINE Good == {k \in 0..n : SameAgents(k)}
  <2>1. 0 \in Good
    <3>1. f[0] = EmptyRoom /\ h[0] = EmptyRoom /\ FirstOf(crew, 0) = {} /\ 0 \in 0..n
      BY <1>8, <1>9 DEF PartyAgentFold, ForgeAgentFold, FirstOf
    <3> QED BY <3>1, EmptyRoomSeats, EmptyRoomKnown
  <2>2. ASSUME NEW k \in 0..(n - 1), k \in Good PROVE k + 1 \in Good
    <3> DEFINE agent == crew[k + 1] read == FirstOf(crew, k) card == InstalledCard(agent)
    <3>1. /\ h[k] = f[k] /\ KnownRoom(f[k], read) /\ Seats(f[k], A, cards, read) /\ k + 1 \in 0..n /\ agent \in A
          /\ read \in SUBSET A /\ FirstOf(crew, k + 1) = read \cup {agent}
      <4>1. k \in 0..n /\ k + 1 \in 0..n /\ k + 1 \in 1..n
        OBVIOUS
      <4>2. h[k] = f[k] /\ KnownRoom(f[k], read) /\ Seats(f[k], A, cards, read)
        BY <2>2
      <4>3. agent \in A /\ read \in SUBSET A
        BY <1>2, <1>4, <4>1
      <4>4. FirstOf(crew, k + 1) = read \cup {agent}
        BY FirstOfNext
      <4> QED BY <4>1, <4>2, <4>3, <4>4
    <3>2. f[k + 1] = RegisterInParty(f[k], card) /\ h[k + 1] = RegisterInForge(h[k], card)
      <4>1. f[k + 1] = PartyAgent(f[k], agent)
        BY <1>8 DEF PartyAgentFold
      <4>2. h[k + 1] = ForgeAgent(h[k], agent)
        BY <1>9 DEF ForgeAgentFold
      <4> QED BY <4>1, <4>2 DEF PartyAgent, ForgeAgent
    <3>3. \A o \in read : o.code # agent.code
      BY <1>6
    <3> HIDE DEF agent, read
    <3>4. Reads(f[k], read, agent, card)
      BY <1>12, <3>1, <3>3, AgentReads
    <3>5. Seats(RegisterInParty(f[k], card), A, cards, read \cup {agent})
      <4>1. Registers(f[k], RegisterInParty(f[k], card), InstalledCard(agent))
        BY PartyRegisters
      <4>2. agent \in cards
        BY <1>1, <3>1
      <4>3. Seats(RegisterInParty(f[k], card), A, cards, read) /\ Seated(RegisterInParty(f[k], card), agent)
        BY <1>1, <3>1, <4>1, <4>2, SeatAgent
      <4> QED BY <4>3 DEF Seats
    <3> HIDE DEF card
    <3>6. RegisterInForge(f[k], card) = RegisterInParty(f[k], card) /\ KnownRoom(RegisterInParty(f[k], card), read \cup {agent})
      BY <3>4, ForgeRegistersAsParty, KnownAfter
    <3> QED BY <3>1, <3>2, <3>5, <3>6
  <2> HIDE DEF Good
  <2>3. n \in Good
    BY <2>1, <2>2, PartyAgents!UpTo
  <2> QED BY <2>3 DEF Good
<1> DEFINE SameMembers(k) == j[k] = g[k] /\ KnownRoom(g[k], A \cup FirstOf(members, k)) /\ Seats(g[k], A, cards, A)
<1>15. SameMembers(m)
  <2> DEFINE Good == {k \in 0..m : SameMembers(k)}
  <2>1. 0 \in Good
    <3>1. g[0] = f[n] /\ j[0] = h[n] /\ A \cup FirstOf(members, 0) = A /\ 0 \in 0..m
      BY <1>10, <1>11 DEF PartyMemberFold, ForgeMemberFold, FirstOf
    <3> QED BY <1>13, <1>14, <3>1
  <2>2. ASSUME NEW k \in 0..(m - 1), k \in Good PROVE k + 1 \in Good
    <3> DEFINE member == members[k + 1] read == A \cup FirstOf(members, k) card == Casting(g[k], member)
    <3>1. /\ j[k] = g[k] /\ KnownRoom(g[k], read) /\ Seats(g[k], A, cards, A) /\ k + 1 \in 0..m /\ member \in M
          /\ read \cup {member} \in SUBSET (A \cup M) /\ A \cup FirstOf(members, k + 1) = read \cup {member}
      <4>1. j[k] = g[k] /\ KnownRoom(g[k], read) /\ Seats(g[k], A, cards, A)
        BY <2>2
      <4>2. k + 1 \in 0..m /\ k + 1 \in 1..m /\ k \in 0..m /\ k \in Nat
        OBVIOUS
      <4>3. member \in M /\ FirstOf(members, k) \in SUBSET M
        BY <1>3, <1>5, <4>2
      <4>4. FirstOf(members, k + 1) = FirstOf(members, k) \cup {member}
        BY <4>2, FirstOfNext
      <4> HIDE DEF member
      <4> QED BY <4>1, <4>2, <4>3, <4>4
    <3>2. g[k + 1] = RegisterInParty(g[k], card) /\ j[k + 1] = RegisterInForge(j[k], Casting(j[k], member))
      BY <1>10, <1>11 DEF PartyMemberFold, ForgeMemberFold, PartyMember, ForgeMember
    <3>3. \A o \in read : o.code = member.code => Seated(g[k], member)
      <4>1. \A o \in FirstOf(members, k) : o.code # member.code
        BY <1>7
      <4>2. \A o \in A : Seated(g[k], o)
        BY <3>1 DEF Seats
      <4> QED BY <4>1, <4>2 DEF Seated
    <3> HIDE DEF member, read
    <3>4. Reads(g[k], read, member, card)
      BY <1>1, <3>1, <3>3, OwnNamesOfFewer, MemberReads
    <3>5. Seats(RegisterInParty(g[k], card), A, cards, A)
      <4>1. Registers(g[k], RegisterInParty(g[k], card), Casting(g[k], member))
        BY PartyRegisters
      <4> QED BY <1>1, <3>1, <4>1, SeatMember
    <3>6. j[k + 1] = RegisterInForge(g[k], card)
      BY <3>1, <3>2
    <3> HIDE DEF card
    <3>7. RegisterInForge(g[k], card) = RegisterInParty(g[k], card) /\ KnownRoom(RegisterInParty(g[k], card), read \cup {member})
      BY <3>4, ForgeRegistersAsParty, KnownAfter
    <3> QED BY <3>1, <3>2, <3>5, <3>6, <3>7
  <2> HIDE DEF Good
  <2>3. m \in Good
    BY <2>1, <2>2, PartyAgents!UpTo
  <2> QED BY <2>3 DEF Good
<1>16. f[n] = FoldLeft(PartyAgent, EmptyRoom, crew) /\ h[n] = FoldLeft(ForgeAgent, EmptyRoom, crew)
  BY <1>8, <1>9, Zenon DEF PartyAgentFold, ForgeAgentFold
<1>17. g[m] = FoldLeft(PartyMember, f[n], members) /\ j[m] = FoldLeft(ForgeMember, h[n], members)
  BY <1>10, <1>11, Zenon DEF PartyMemberFold, ForgeMemberFold
<1>18. g[m] = BuildCollective(crew, members) /\ j[m] = BuildPool(crew, members)
  BY <1>16, <1>17, Zenon DEF BuildCollective, BuildPool
<1>19. j[m] = g[m]
  BY <1>15
<1> QED BY <1>18, <1>19, Zenon

LEMMA PartiesAreTheSame ==
  ASSUME RosterTypeInv
  PROVE  RostersAgree
<1> SUFFICES ASSUME partySkill, NamesAreOwn, \A agent \in Range(LoadAgents) : OwnsItsCode(agent)
             PROVE  \A i \in DOMAIN PartyGroups : GroupDetail(i, PartyRoom) = ResolveParties(ForgeRoom)[i]
  BY Zenon DEF RostersAgree
<1>1. PICK n \in Nat, m \in Nat : DOMAIN LoadAgents = 1..n /\ DOMAIN LoadWorkflow = 1..m
  BY RoomsAreFilled, Zenon
<1>2. /\ LoadAgents \in Seq(AgentCards) /\ LoadWorkflow \in Seq(AllCards) /\ Apart(LoadAgents) /\ Apart(LoadWorkflow)
      /\ LoadPartyWorkflow = LoadWorkflow
  BY ReadMembersAre DEF IsCast
<1> DEFINE A == FirstOf(LoadAgents, n) M == FirstOf(LoadWorkflow, m) cards == A \cup M
<1>3. A \subseteq cards /\ M \subseteq cards /\ A = Range(LoadAgents) /\ M = Range(LoadWorkflow)
  BY <1>1, <1>2, FirstOfAll
<1>4. OwnCodes(A, cards)
  BY <1>3, OwnersAre
<1>5. OwnNames(A \cup M)
  BY <1>3 DEF NamesAreOwn, CardsRead, OwnNames
<1>6. BuildPool(LoadAgents, LoadWorkflow) = BuildCollective(LoadAgents, LoadWorkflow)
  BY <1>1, <1>2, <1>3, <1>4, <1>5, SameRooms
<1>7. ForgeRoom = PartyRoom
  BY <1>2, <1>6, Zenon DEF ForgeRoom, PartyRoom
<1>8. ASSUME NEW i \in DOMAIN PartyGroups PROVE GroupDetail(i, PartyRoom) = ResolveParties(ForgeRoom)[i]
  BY <1>7 DEF GroupDetail, ResolveParties
<1> QED BY <1>8, Zenon
-----------------------------------------------------------------------------
\* What a member must be to count as new: none of its tokens has been listed.
UnlistedCard(listed, card) == TokensOfCard(card) \cap listed = {}

\* The members now are those from before, in their order, with new ones among them: at[k] of
\* the former are among the first k, and the one at i stands at place[i].
IsWeave(listed, before, now, at, place) ==
  /\ at[0] = 0 /\ at[Len(now)] = Len(before) /\ \A k \in 0..Len(now) : at[k] \in 0..Len(before)
  /\ \A i \in 1..Len(before) : place[i] \in 1..Len(now) /\ at[place[i]] = i /\ at[place[i] - 1] = i - 1
  /\ \A k \in 1..Len(now) :
       \/ at[k] = at[k - 1] + 1 /\ at[k] \in 1..Len(before) /\ now[k] = before[at[k]] /\ now[k].code \in listed
       \/ at[k] = at[k - 1] /\ UnlistedCard(listed, now[k])
Weaves(listed, before, now) == \E at, place : IsWeave(listed, before, now, at, place)

LEMMA WeavesItself ==
  ASSUME NEW S, NEW cards \in Seq(S), NEW listed, \A i \in DOMAIN cards : cards[i].code \in listed
  PROVE  Weaves(listed, cards, cards)
<1> DEFINE at == [k \in 0..Len(cards) |-> k] place == [k \in 1..Len(cards) |-> k]
<1>1. Len(cards) \in Nat /\ DOMAIN cards = 1..Len(cards)
  BY LenProperties
<1>2. IsWeave(listed, cards, cards, at, place)
  BY <1>1 DEF IsWeave
<1> QED BY <1>2 DEF Weaves

LEMMA SeqFacts ==
  ASSUME NEW S, NEW cards \in Seq(S), NEW card \in S
  PROVE  /\ Len(cards) \in Nat /\ DOMAIN cards = 1..Len(cards) /\ Append(cards, card) \in Seq(S)
         /\ Len(Append(cards, card)) = Len(cards) + 1 /\ Append(cards, card)[Len(cards) + 1] = card
         /\ \A i \in 1..Len(cards) : Append(cards, card)[i] = cards[i]
BY AppendProperties, LenProperties

LEMMA ReplaceFacts ==
  ASSUME NEW S, NEW cards \in Seq(S), NEW card \in S, NEW i \in 1..Len(cards)
  PROVE  /\ Len([cards EXCEPT ![i] = card]) = Len(cards) /\ [cards EXCEPT ![i] = card][i] = card
         /\ \A j \in 1..Len(cards) : j # i => [cards EXCEPT ![i] = card][j] = cards[j]
BY ExceptSeq, LenProperties

\* A listed member is put in both at the same place.
LEMMA PutInBoth ==
  ASSUME NEW S, NEW listed, NEW before \in Seq(S), NEW now, NEW card \in S, IsCast(now, S), card.code \in listed,
         Weaves(listed, before, now)
  PROVE  Weaves(listed, PutMember(before, card), PutMember(now, card))
<1>1. PICK at, place : IsWeave(listed, before, now, at, place)
  BY Zenon DEF Weaves
<1> DEFINE n == Len(now) b == Len(before)
<1>2. n \in Nat /\ b \in Nat /\ DOMAIN now = 1..n /\ DOMAIN before = 1..b /\ now \in Seq(S) /\ Apart(now)
  BY LenProperties DEF IsCast
<1>3. /\ at[0] = 0 /\ at[n] = b /\ \A k \in 0..n : at[k] \in 0..b
      /\ \A i \in 1..b : place[i] \in 1..n /\ at[place[i]] = i /\ at[place[i] - 1] = i - 1
      /\ \A k \in 1..n :
           \/ at[k] = at[k - 1] + 1 /\ at[k] \in 1..b /\ now[k] = before[at[k]] /\ now[k].code \in listed
           \/ at[k] = at[k - 1] /\ UnlistedCard(listed, now[k])
  BY <1>1 DEF IsWeave
<1>4. \A k \in 1..n : UnlistedCard(listed, now[k]) => now[k].code # card.code
  BY DEF UnlistedCard, TokensOfCard
<1>5. \A i \in 1..b : now[place[i]] = before[i]
  <2> SUFFICES ASSUME NEW i \in 1..b PROVE now[place[i]] = before[i]
    OBVIOUS
  <2>1. place[i] \in 1..n /\ at[place[i]] = i /\ at[place[i] - 1] = i - 1 /\ i # i - 1
    BY <1>2, <1>3
  <2> QED BY <1>3, <2>1
<1> HIDE DEF n, b
<1>6. CASE \E i \in DOMAIN before : before[i].code = card.code /\ PutMember(before, card) = [before EXCEPT ![i] = card]
  <2>1. PICK i \in 1..b : before[i].code = card.code /\ PutMember(before, card) = [before EXCEPT ![i] = card]
    BY <1>2, <1>6
  <2> DEFINE j == place[i]
  <2>2. j \in 1..n /\ at[j] = i /\ at[j - 1] = i - 1 /\ now[j].code = card.code /\ now[j] = before[i]
    BY <1>3, <1>5, <2>1
  <2> HIDE DEF j
  <2>3. PutMember(now, card) = [now EXCEPT ![j] = card]
    BY <1>2, <2>2, PutMemberCases DEF Apart
  <2>4. \A k \in 1..n : k # j => now[k].code # card.code
    BY <1>2, <2>2 DEF Apart
  <2> DEFINE new == [now EXCEPT ![j] = card] old == [before EXCEPT ![i] = card]
  <2>5. Len(new) = n /\ new[j] = card /\ \A k \in 1..n : k # j => new[k] = now[k]
    BY <1>2, <2>2, ReplaceFacts DEF n
  <2>6. Len(old) = b /\ old[i] = card /\ \A k \in 1..b : k # i => old[k] = before[k]
    BY <2>1, ReplaceFacts DEF b
  <2> HIDE DEF new, old
  <2>7. ASSUME NEW k \in 1..n
        PROVE  \/ at[k] = at[k - 1] + 1 /\ at[k] \in 1..b /\ new[k] = old[at[k]] /\ new[k].code \in listed
               \/ at[k] = at[k - 1] /\ UnlistedCard(listed, new[k])
    <3>1. CASE k = j
      <4>1. at[k] = at[k - 1] + 1 /\ at[k] \in 1..b
        BY <1>2, <2>1, <2>2, <3>1
      <4>2. new[k] = card /\ old[at[k]] = card
        BY <2>2, <2>5, <2>6, <3>1
      <4> QED BY <4>1, <4>2
    <3>2. CASE k # j
      <4>1. new[k] = now[k] /\ now[k].code # card.code
        BY <2>4, <2>5, <3>2
      <4>2. CASE at[k] = at[k - 1] + 1 /\ at[k] \in 1..b /\ now[k] = before[at[k]] /\ now[k].code \in listed
        <5>1. at[k] # i
          BY <2>1, <4>1, <4>2
        <5>2. old[at[k]] = before[at[k]]
          BY <2>6, <4>2, <5>1
        <5> QED BY <4>1, <4>2, <5>2
      <4>3. CASE at[k] = at[k - 1] /\ UnlistedCard(listed, now[k])
        BY <4>1, <4>3
      <4> QED BY <1>3, <4>2, <4>3
    <3> QED BY <3>1, <3>2
  <2>8. IsWeave(listed, old, new, at, place)
    BY <1>3, <2>5, <2>6, <2>7 DEF IsWeave
  <2>9. PutMember(before, card) = old /\ PutMember(now, card) = new
    BY <2>1, <2>3 DEF old, new
  <2> QED BY <2>8, <2>9, Zenon DEF Weaves
<1>7. CASE (\A i \in DOMAIN before : before[i].code # card.code) /\ PutMember(before, card) = Append(before, card)
  <2>1. ASSUME NEW k \in 1..n PROVE now[k].code # card.code
    <3>1. CASE UnlistedCard(listed, now[k])
      BY <1>4, <3>1
    <3>2. CASE at[k] \in 1..b /\ now[k] = before[at[k]]
      BY <1>2, <1>7, <3>2
    <3> QED BY <1>3, <3>1, <3>2
  <2>2. PutMember(now, card) = Append(now, card)
    BY <1>2, <2>1, PutMemberCases
  <2> DEFINE new == Append(now, card) old == Append(before, card)
             to == [k \in 0..(n + 1) |-> IF k = n + 1 THEN b + 1 ELSE at[k]]
             stand == [i \in 1..(b + 1) |-> IF i = b + 1 THEN n + 1 ELSE place[i]]
  <2>3. Len(new) = n + 1 /\ new[n + 1] = card /\ \A k \in 1..n : new[k] = now[k]
    BY <1>2, SeqFacts DEF n
  <2>4. Len(old) = b + 1 /\ old[b + 1] = card /\ \A k \in 1..b : old[k] = before[k]
    BY SeqFacts DEF b
  <2> HIDE DEF new, old
  <2>5. /\ to[n + 1] = b + 1 /\ (\A k \in 0..n : to[k] = at[k]) /\ to[0] = 0 /\ to[n] = b
        /\ stand[b + 1] = n + 1 /\ \A i \in 1..b : stand[i] = place[i]
    BY <1>2, <1>3
  <2>6. \A k \in 1..(n + 1) : k = n + 1 \/ (k \in 1..n /\ k - 1 \in 0..n /\ k \in 0..n)
    BY <1>2
  <2>7. \A i \in 1..(b + 1) : i = b + 1 \/ i \in 1..b
    BY <1>2
  <2>8. (n + 1) - 1 = n /\ (b + 1) - 1 = b /\ n + 1 \in 1..(n + 1) /\ b + 1 \in 1..(b + 1) /\ 1..n \subseteq 1..(n + 1) /\ n \in 0..n /\ 0..b \subseteq 0..(b + 1) /\ b + 1 \in 0..(b + 1) /\ 1..b \subseteq 1..(b + 1)
    BY <1>2
  <2> HIDE DEF to, stand
  <2>9. \A k \in 0..(n + 1) : to[k] \in 0..(b + 1)
    <3>1. \A k \in 0..(n + 1) : k = n + 1 \/ k \in 0..n
      BY <1>2
    <3> QED BY <1>3, <2>5, <2>8, <3>1
  <2>10. ASSUME NEW i \in 1..(b + 1)
         PROVE  stand[i] \in 1..(n + 1) /\ to[stand[i]] = i /\ to[stand[i] - 1] = i - 1
    <3>1. CASE i = b + 1
      BY <2>5, <2>8, <3>1
    <3>2. CASE i \in 1..b
      <4>1. place[i] \in 1..n /\ at[place[i]] = i /\ at[place[i] - 1] = i - 1
        BY <1>3, <3>2
      <4>2. place[i] \in 1..(n + 1) /\ place[i] \in 0..n /\ place[i] - 1 \in 0..n
        BY <1>2, <4>1
      <4> QED BY <2>5, <3>2, <4>1, <4>2
    <3> QED BY <2>7, <3>1, <3>2
  <2>11. ASSUME NEW k \in 1..(n + 1)
         PROVE  \/ to[k] = to[k - 1] + 1 /\ to[k] \in 1..(b + 1) /\ new[k] = old[to[k]] /\ new[k].code \in listed
                \/ to[k] = to[k - 1] /\ UnlistedCard(listed, new[k])
    <3>1. CASE k = n + 1
      BY <2>3, <2>4, <2>5, <2>8, <3>1
    <3>2. CASE k \in 1..n
      <4>1. to[k] = at[k] /\ to[k - 1] = at[k - 1] /\ new[k] = now[k]
        BY <1>2, <2>3, <2>5, <3>2
      <4>2. at[k] \in 1..b => at[k] \in 1..(b + 1) /\ old[at[k]] = before[at[k]]
        BY <2>4, <2>8
      <4> QED BY <1>3, <3>2, <4>1, <4>2
    <3> QED BY <2>6, <3>1, <3>2
  <2>12. IsWeave(listed, old, new, to, stand)
    BY <2>3, <2>4, <2>5, <2>9, <2>10, <2>11 DEF IsWeave
  <2>13. PutMember(before, card) = old /\ PutMember(now, card) = new
    BY <1>7, <2>2 DEF old, new
  <2> QED BY <2>12, <2>13, Zenon DEF Weaves
<1> QED BY <1>6, <1>7, PutMemberCases

\* A new member is put among the members of now alone.
LEMMA PutInOne ==
  ASSUME NEW S, NEW listed, NEW before \in Seq(S), NEW now, NEW card \in S, IsCast(now, S), UnlistedCard(listed, card),
         Weaves(listed, before, now)
  PROVE  Weaves(listed, before, PutMember(now, card))
<1>1. PICK at, place : IsWeave(listed, before, now, at, place)
  BY Zenon DEF Weaves
<1> DEFINE n == Len(now) b == Len(before)
<1>2. n \in Nat /\ b \in Nat /\ DOMAIN now = 1..n /\ DOMAIN before = 1..b /\ now \in Seq(S) /\ Apart(now)
  BY LenProperties DEF IsCast
<1>3. /\ at[0] = 0 /\ at[n] = b /\ \A k \in 0..n : at[k] \in 0..b
      /\ \A i \in 1..b : place[i] \in 1..n /\ at[place[i]] = i /\ at[place[i] - 1] = i - 1
      /\ \A k \in 1..n :
           \/ at[k] = at[k - 1] + 1 /\ at[k] \in 1..b /\ now[k] = before[at[k]] /\ now[k].code \in listed
           \/ at[k] = at[k - 1] /\ UnlistedCard(listed, now[k])
  BY <1>1 DEF IsWeave
<1>4. card.code \notin listed
  BY DEF UnlistedCard, TokensOfCard
<1> HIDE DEF n
<1>5. ASSUME NEW j \in DOMAIN now, now[j].code = card.code, PutMember(now, card) = [now EXCEPT ![j] = card]
      PROVE  Weaves(listed, before, PutMember(now, card))
  <2> DEFINE new == [now EXCEPT ![j] = card]
  <2>1. Len(new) = n /\ new[j] = card /\ \A k \in 1..n : k # j => new[k] = now[k]
    BY <1>2, <1>5, ReplaceFacts DEF n
  <2> HIDE DEF new
  <2>2. ASSUME NEW k \in 1..n
        PROVE  \/ at[k] = at[k - 1] + 1 /\ at[k] \in 1..b /\ new[k] = before[at[k]] /\ new[k].code \in listed
               \/ at[k] = at[k - 1] /\ UnlistedCard(listed, new[k])
    <3>1. CASE k = j
      <4>1. now[k].code \notin listed /\ new[k] = card
        BY <1>4, <1>5, <2>1, <3>1
      <4> QED BY <1>3, <4>1
    <3>2. CASE k # j
      <4>1. new[k] = now[k]
        BY <2>1, <3>2
      <4> QED BY <1>3, <4>1
    <3> QED BY <3>1, <3>2
  <2>3. IsWeave(listed, before, new, at, place)
    BY <1>3, <2>1, <2>2 DEF IsWeave
  <2> QED BY <1>5, <2>3, Zenon DEF Weaves, new
<1>6. ASSUME PutMember(now, card) = Append(now, card)
      PROVE  Weaves(listed, before, PutMember(now, card))
  <2> DEFINE new == Append(now, card) to == [k \in 0..(n + 1) |-> IF k = n + 1 THEN b ELSE at[k]]
  <2>1. Len(new) = n + 1 /\ new[n + 1] = card /\ \A k \in 1..n : new[k] = now[k]
    BY <1>2, SeqFacts DEF n
  <2> HIDE DEF new
  <2>2. to[n + 1] = b /\ (\A k \in 0..n : to[k] = at[k]) /\ to[0] = 0 /\ to[n] = b
    BY <1>2, <1>3
  <2> HIDE DEF to, b
  <2>3. \A k \in 1..(n + 1) : k = n + 1 \/ (k \in 1..n /\ k - 1 \in 0..n /\ k \in 0..n)
    BY <1>2
  <2>4. (n + 1) - 1 = n /\ n + 1 \in 1..(n + 1) /\ b \in 0..b
    BY <1>2
  <2>5. \A k \in 0..(n + 1) : to[k] \in 0..b
    <3>1. \A k \in 0..(n + 1) : k = n + 1 \/ k \in 0..n
      BY <1>2
    <3> QED BY <1>3, <2>2, <2>4, <3>1
  <2>6. ASSUME NEW i \in 1..b
        PROVE  place[i] \in 1..(n + 1) /\ to[place[i]] = i /\ to[place[i] - 1] = i - 1
    <3>1. place[i] \in 1..n /\ at[place[i]] = i /\ at[place[i] - 1] = i - 1
      BY <1>3
    <3>2. place[i] \in 1..(n + 1) /\ place[i] \in 0..n /\ place[i] - 1 \in 0..n
      BY <1>2, <3>1
    <3> QED BY <2>2, <3>1, <3>2
  <2>7. ASSUME NEW k \in 1..(n + 1)
        PROVE  \/ to[k] = to[k - 1] + 1 /\ to[k] \in 1..b /\ new[k] = before[to[k]] /\ new[k].code \in listed
               \/ to[k] = to[k - 1] /\ UnlistedCard(listed, new[k])
    <3>1. CASE k = n + 1
      BY <2>1, <2>2, <2>4, <3>1
    <3>2. CASE k \in 1..n
      <4>1. to[k] = at[k] /\ to[k - 1] = at[k - 1] /\ new[k] = now[k]
        BY <1>2, <2>1, <2>2, <2>3, <3>2
      <4> QED BY <1>3, <3>2, <4>1
    <3> QED BY <2>3, <3>1, <3>2
  <2>8. IsWeave(listed, before, new, to, place)
    BY <2>1, <2>2, <2>5, <2>6, <2>7 DEF IsWeave, b
  <2> QED BY <1>6, <2>8, Zenon DEF Weaves, new
<1> QED BY <1>5, <1>6, PutMemberCases
-----------------------------------------------------------------------------
LEMMA FoldsAreCasts ==
  ASSUME NEW S, NEW base, NEW over \in Seq(S), IsCast(base, S), NEW f, NEW n \in Nat, DOMAIN over = 1..n,
         PutMemberFold(f, base, over, n)
  PROVE  \A k \in 0..n : IsCast(f[k], S)
<1>1. \A i \in DOMAIN over : over[i] \in S
  BY LenProperties, ElementOfSeq
<1> DEFINE Good == {k \in 0..n : \A i \in 0..k : IsCast(f[i], S)}
<1>2. 0 \in Good
  BY DEF PutMemberFold
<1>3. ASSUME NEW k \in 0..(n - 1), k \in Good PROVE k + 1 \in Good
  <2>1. IsCast(f[k], S) /\ f[k + 1] = PutMember(f[k], over[k + 1]) /\ k + 1 \in 0..n /\ k + 1 \in 1..n
    BY <1>3 DEF PutMemberFold
  <2>2. over[k + 1] \in S
    BY <1>1, <2>1
  <2>3. IsCast(f[k + 1], S)
    BY <2>1, <2>2, PutMemberIs
  <2>4. \A i \in 0..(k + 1) : i = k + 1 \/ i \in 0..k
    OBVIOUS
  <2> QED BY <1>3, <2>1, <2>3, <2>4
<1> HIDE DEF Good
<1>4. n \in Good
  BY <1>2, <1>3, KeyedPuts!UpTo
<1> QED BY <1>4 DEF Good

\* Overriding with more new members leaves a result with more new members.
LEMMA KeyedMembersWeave ==
  ASSUME NEW S, NEW listed, NEW base, NEW wider, NEW over \in Seq(S), NEW longer \in Seq(S),
         IsCast(base, S), IsCast(wider, S), Weaves(listed, base, wider), Weaves(listed, over, longer)
  PROVE  Weaves(listed, KeyedMembers(base, over), KeyedMembers(wider, longer))
<1>1. PICK at, place : IsWeave(listed, over, longer, at, place)
  BY Zenon DEF Weaves
<1> DEFINE n == Len(longer) b == Len(over)
<1>2. /\ n \in Nat /\ b \in Nat /\ DOMAIN longer = 1..n /\ DOMAIN over = 1..b
      /\ (\A i \in 1..n : longer[i] \in S) /\ \A i \in 1..b : over[i] \in S
  BY LenProperties, ElementOfSeq
<1>3. /\ at[0] = 0 /\ at[n] = b /\ \A k \in 0..n : at[k] \in 0..b
      /\ \A k \in 1..n :
           \/ at[k] = at[k - 1] + 1 /\ at[k] \in 1..b /\ longer[k] = over[at[k]] /\ longer[k].code \in listed
           \/ at[k] = at[k - 1] /\ UnlistedCard(listed, longer[k])
  BY <1>1 DEF IsWeave
<1> HIDE DEF n, b
<1>4. PICK f : PutMemberFold(f, base, over, b)
  BY <1>2, PutMemberSteps, Zenon
<1>5. PICK g : PutMemberFold(g, wider, longer, n)
  BY <1>2, PutMemberSteps, Zenon
<1>6. (\A k \in 0..b : IsCast(f[k], S)) /\ \A k \in 0..n : IsCast(g[k], S)
  BY <1>2, <1>4, <1>5, FoldsAreCasts
<1> DEFINE Good == {k \in 0..n : Weaves(listed, f[at[k]], g[k])}
<1>7. 0 \in Good
  BY <1>2, <1>3, <1>4, <1>5 DEF PutMemberFold
<1>8. ASSUME NEW k \in 0..(n - 1), k \in Good PROVE k + 1 \in Good
  <2>1. /\ Weaves(listed, f[at[k]], g[k]) /\ k + 1 \in 1..n /\ k + 1 \in 0..n /\ k \in 0..n /\ (k + 1) - 1 = k
        /\ g[k + 1] = PutMember(g[k], longer[k + 1]) /\ longer[k + 1] \in S
    <3>1. k + 1 \in 1..n /\ k + 1 \in 0..n /\ k \in 0..n /\ (k + 1) - 1 = k
      BY <1>2
    <3>2. Weaves(listed, f[at[k]], g[k]) /\ g[k + 1] = PutMember(g[k], longer[k + 1])
      BY <1>5, <1>8 DEF PutMemberFold
    <3>3. longer[k + 1] \in S
      BY <1>2, <3>1
    <3> QED BY <3>1, <3>2, <3>3
  <2>2. f[at[k]] \in Seq(S) /\ IsCast(g[k], S)
    BY <1>3, <1>6, <2>1 DEF IsCast
  <2>3. CASE at[k + 1] = at[k] /\ UnlistedCard(listed, longer[k + 1])
    BY <2>1, <2>2, <2>3, PutInOne
  <2>4. CASE /\ at[k + 1] = at[k] + 1 /\ at[k + 1] \in 1..b
             /\ longer[k + 1] = over[at[k + 1]] /\ longer[k + 1].code \in listed
    <3>1. at[k] \in 0..(b - 1)
      BY <1>2, <1>3, <2>1, <2>4
    <3>2. f[at[k + 1]] = PutMember(f[at[k]], longer[k + 1])
      BY <1>4, <2>4, <3>1 DEF PutMemberFold
    <3>3. Weaves(listed, PutMember(f[at[k]], longer[k + 1]), PutMember(g[k], longer[k + 1]))
      BY <2>1, <2>2, <2>4, PutInBoth
    <3> QED BY <2>1, <3>2, <3>3
  <2> QED BY <1>3, <2>1, <2>3, <2>4
<1> HIDE DEF Good
<1>9. n \in Good
  BY <1>2, <1>7, <1>8, KeyedPuts!UpTo
<1>10. f[b] = KeyedMembers(base, over) /\ g[n] = KeyedMembers(wider, longer)
  BY <1>4, <1>5, Zenon DEF PutMemberFold, KeyedMembers
<1> QED BY <1>3, <1>9, <1>10 DEF Good

-----------------------------------------------------------------------------
\* A room whose pool is in its index.
Indexed(room) == DOMAIN room.pool \subseteq DOMAIN room.index

\* The room now is the one from before, with others: they have none of the listed tokens.
Joined(listed, old, new) ==
  /\ Leads(old) /\ Leads(new) /\ DOMAIN old.index \subseteq listed /\ Indexed(old)
  /\ \A t \in DOMAIN old.index : t \in DOMAIN new.index /\ new.index[t] = old.index[t]
  /\ \A c \in DOMAIN old.pool : c \in DOMAIN new.pool /\ new.pool[c] = old.pool[c]
  /\ \A t \in DOMAIN new.index : IF t \in listed THEN t \in DOMAIN old.index ELSE new.index[t] \notin listed
  /\ \A c \in DOMAIN new.pool :
       IF c \in listed THEN c \in DOMAIN old.pool
       ELSE AliasOf(c) \notin listed /\ (new.pool[c].name = "" \/ new.pool[c].name \notin listed)

LEMMA JoinedItself ==
  ASSUME NEW listed, NEW room, Leads(room), Indexed(room), DOMAIN room.index \subseteq listed
  PROVE  Joined(listed, room, room)
BY DEF Joined, Indexed

LEMMA PartyIsAfter ==
  ASSUME NEW room, NEW card
  PROVE  IsAfter(room, RegisterInParty(room, card), card, TokensOfCard(card)) /\ Registers(room, RegisterInParty(room, card), card)
<1>1. Registered(room, RegisterInParty(room, card), card, TokensOfCard(card))
  BY DEF Registered, RegisterInParty, TokensOfCard
<1> QED BY <1>1, AfterRegistering, PartyRegisters

LEMMA IndexedAfter ==
  ASSUME NEW room, NEW card, Indexed(room)
  PROVE  /\ Indexed(RegisterInParty(room, card)) /\ DOMAIN room.index \subseteq DOMAIN RegisterInParty(room, card).index
         /\ TokensOfCard(card) \subseteq DOMAIN RegisterInParty(room, card).index
<1>1. IsAfter(room, RegisterInParty(room, card), card, TokensOfCard(card))
  BY PartyIsAfter
<1> QED BY <1>1 DEF IsAfter, Indexed

\* Somebody who has been listed joins both in the same way.
LEMMA JoinBoth ==
  ASSUME NEW listed, NEW old, NEW new, NEW member, Joined(listed, old, new), member.code \in listed,
         DOMAIN PartyMember(old, member).index \subseteq listed
  PROVE  Joined(listed, PartyMember(old, member), PartyMember(new, member))
<1> DEFINE code == CanonicalCode(old, member.code) card == Casting(old, member)
<1>1. CanonicalCode(new, member.code) = code /\ code \in listed
  <2>1. CASE member.code \in DOMAIN old.index
    <3>1. code = old.index[member.code] /\ code \in DOMAIN old.pool /\ CanonicalCode(new, member.code) = code
      BY <2>1 DEF CanonicalCode, Joined, Leads
    <3> QED BY <3>1 DEF Joined, Indexed
  <2>2. CASE member.code \notin DOMAIN old.index
    <3>1. member.code \notin DOMAIN new.index
      BY <2>2 DEF Joined
    <3> QED BY <2>2, <3>1 DEF CanonicalCode
  <2> QED BY <2>1, <2>2
<1>2. KeptName(new, code) = KeptName(old, code)
  BY <1>1 DEF Joined, KeptName
<1>3. Casting(new, member) = card
  BY <1>1, <1>2 DEF Casting, KeptName
<1>4. card.code = code
  BY CastingIs
<1> DEFINE before == PartyMember(old, member) now == PartyMember(new, member) taken == TokensOfCard(card)
<1>5. before = RegisterInParty(old, card) /\ now = RegisterInParty(new, card)
  BY <1>3 DEF PartyMember
<1> HIDE DEF card, code, before, now, taken
<1>6. IsAfter(old, before, card, taken) /\ Registers(old, before, card)
  BY <1>5, PartyIsAfter DEF taken
<1>7. IsAfter(new, now, card, taken) /\ Registers(new, now, card)
  BY <1>5, PartyIsAfter DEF taken
<1>8. Leads(before) /\ Leads(now)
  BY <1>6, <1>7, RegisteringLeads DEF Joined
<1>9. Indexed(before)
  BY <1>6 DEF IsAfter, Indexed, Joined
<1>10. /\ DOMAIN before.pool = DOMAIN old.pool \cup {code} /\ DOMAIN before.index = DOMAIN old.index \cup taken
       /\ DOMAIN now.pool = DOMAIN new.pool \cup {code} /\ DOMAIN now.index = DOMAIN new.index \cup taken
       /\ before.pool[code] = card /\ now.pool[code] = card
  BY <1>4, <1>6, <1>7 DEF IsAfter
<1>11. /\ \A c \in DOMAIN old.pool : c # code => before.pool[c] = old.pool[c]
       /\ \A c \in DOMAIN new.pool : c # code => now.pool[c] = new.pool[c]
       /\ \A t \in taken : before.index[t] = code /\ now.index[t] = code
  BY <1>4, <1>6, <1>7 DEF IsAfter
<1>12. /\ \A t \in DOMAIN old.index : t \notin taken => before.index[t] = old.index[t]
       /\ \A t \in DOMAIN new.index : t \notin taken => now.index[t] = new.index[t]
  BY <1>6, <1>7 DEF IsAfter
<1>13. DOMAIN before.index \subseteq listed /\ taken \subseteq listed
  BY <1>10 DEF before
<1>14. \A t \in DOMAIN before.index : t \in DOMAIN now.index /\ now.index[t] = before.index[t]
  BY <1>10, <1>11, <1>12 DEF Joined
<1>15. ASSUME NEW c \in DOMAIN before.pool PROVE c \in DOMAIN now.pool /\ now.pool[c] = before.pool[c]
  <2>1. CASE c = code
    BY <1>10, <2>1
  <2>2. CASE c # code
    <3>1. c \in DOMAIN old.pool /\ c \in DOMAIN new.pool /\ new.pool[c] = old.pool[c]
      BY <1>10, <2>2 DEF Joined
    <3> QED BY <1>10, <1>11, <2>2, <3>1
  <2> QED BY <2>1, <2>2
<1>16. ASSUME NEW t \in DOMAIN now.index
       PROVE  IF t \in listed THEN t \in DOMAIN before.index ELSE now.index[t] \notin listed
  BY <1>10, <1>12, <1>13 DEF Joined
<1>17. ASSUME NEW c \in DOMAIN now.pool
       PROVE  IF c \in listed THEN c \in DOMAIN before.pool
              ELSE AliasOf(c) \notin listed /\ (now.pool[c].name = "" \/ now.pool[c].name \notin listed)
  <2>1. CASE c = code
    BY <1>1, <1>10, <2>1
  <2>2. CASE c # code
    <3>1. c \in DOMAIN new.pool /\ now.pool[c] = new.pool[c]
      BY <1>10, <1>11, <2>2
    <3> QED BY <1>10, <3>1 DEF Joined
  <2> QED BY <2>1, <2>2
<1>18. Joined(listed, before, now)
  BY <1>8, <1>9, <1>13, <1>14, <1>15, <1>16, <1>17 DEF Joined
<1> QED BY <1>18 DEF before, now

\* Somebody new joins the room now, and takes nothing from anybody.
LEMMA JoinOne ==
  ASSUME NEW listed, NEW old, NEW new, NEW member, Joined(listed, old, new), UnlistedCard(listed, member)
  PROVE  Joined(listed, old, PartyMember(new, member))
<1> DEFINE code == CanonicalCode(new, member.code) card == Casting(new, member)
<1>1. member.code \notin listed /\ AliasOf(member.code) \notin listed /\ (member.name # "" => member.name \notin listed)
  BY DEF UnlistedCard, TokensOfCard
<1>2. code \notin listed /\ (code \in DOMAIN new.pool \/ code = member.code)
  BY <1>1 DEF CanonicalCode, Joined, Leads
<1>3. card.code = code /\ card.name = IF member.name = "" THEN KeptName(new, code) ELSE member.name
  BY CastingIs
<1> HIDE DEF card, code
<1>4. AliasOf(code) \notin listed
  BY <1>1, <1>2 DEF Joined
<1>5. card.name = "" \/ card.name \notin listed
  BY <1>1, <1>2, <1>3 DEF Joined, KeptName
<1> DEFINE now == PartyMember(new, member) taken == TokensOfCard(card)
<1>6. taken \cap listed = {}
  BY <1>2, <1>3, <1>4, <1>5 DEF TokensOfCard
<1>7. now = RegisterInParty(new, card)
  BY DEF PartyMember, card
<1> HIDE DEF now, taken
<1>8. IsAfter(new, now, card, taken) /\ Registers(new, now, card)
  BY <1>7, PartyIsAfter DEF taken
<1>9. Leads(now)
  BY <1>8, RegisteringLeads DEF Joined
<1>10. /\ DOMAIN now.pool = DOMAIN new.pool \cup {code} /\ DOMAIN now.index = DOMAIN new.index \cup taken
       /\ now.pool[code] = card
  BY <1>3, <1>8 DEF IsAfter
<1>11. /\ \A c \in DOMAIN new.pool : c # code => now.pool[c] = new.pool[c]
       /\ \A t \in taken : now.index[t] = code
       /\ \A t \in DOMAIN new.index : t \notin taken => now.index[t] = new.index[t]
  BY <1>3, <1>8 DEF IsAfter
<1>12. ASSUME NEW t \in DOMAIN old.index PROVE t \in DOMAIN now.index /\ now.index[t] = old.index[t]
  <2>1. t \in DOMAIN new.index /\ new.index[t] = old.index[t] /\ t \notin taken
    BY <1>6 DEF Joined
  <2> QED BY <1>10, <1>11, <2>1
<1>13. ASSUME NEW c \in DOMAIN old.pool PROVE c \in DOMAIN now.pool /\ now.pool[c] = old.pool[c]
  <2>1. c \in DOMAIN new.pool /\ new.pool[c] = old.pool[c] /\ c # code
    BY <1>2 DEF Joined, Indexed
  <2> QED BY <1>10, <1>11, <2>1
<1>14. ASSUME NEW t \in DOMAIN now.index
       PROVE  IF t \in listed THEN t \in DOMAIN old.index ELSE now.index[t] \notin listed
  <2>1. CASE t \in taken
    BY <1>2, <1>6, <1>11, <2>1
  <2>2. CASE t \notin taken
    <3>1. t \in DOMAIN new.index /\ now.index[t] = new.index[t]
      BY <1>10, <1>11, <2>2
    <3> QED BY <3>1 DEF Joined
  <2> QED BY <2>1, <2>2
<1>15. ASSUME NEW c \in DOMAIN now.pool
       PROVE  IF c \in listed THEN c \in DOMAIN old.pool
              ELSE AliasOf(c) \notin listed /\ (now.pool[c].name = "" \/ now.pool[c].name \notin listed)
  <2>1. CASE c = code
    BY <1>2, <1>4, <1>5, <1>10, <2>1
  <2>2. CASE c # code
    <3>1. c \in DOMAIN new.pool /\ now.pool[c] = new.pool[c]
      BY <1>10, <1>11, <2>2
    <3> QED BY <3>1 DEF Joined
  <2> QED BY <2>1, <2>2
<1>16. Joined(listed, old, now)
  BY <1>9, <1>12, <1>13, <1>14, <1>15 DEF Joined
<1> QED BY <1>16 DEF now
-----------------------------------------------------------------------------
LEMMA CodeIsIndexed ==
  ASSUME NEW room, NEW member
  PROVE  member.code \in DOMAIN PartyMember(room, member).index /\ DOMAIN room.index \subseteq DOMAIN PartyMember(room, member).index
<1> DEFINE card == Casting(room, member) new == PartyMember(room, member)
<1>1. IsAfter(room, new, card, TokensOfCard(card))
  BY PartyIsAfter DEF PartyMember
<1>2. card.code = CanonicalCode(room, member.code)
  BY CastingIs
<1> HIDE DEF card, new
<1>3. DOMAIN new.index = DOMAIN room.index \cup TokensOfCard(card)
  BY <1>1 DEF IsAfter
<1>4. member.code \in DOMAIN new.index
  BY <1>2, <1>3 DEF CanonicalCode, TokensOfCard
<1> QED BY <1>3, <1>4 DEF new

\* A room only grows as members join, and has the code of each of them.
LEMMA RoomGrows ==
  ASSUME NEW f, NEW base, NEW members, NEW n \in Nat, PartyMemberFold(f, base, members, n)
  PROVE  /\ \A k \in 0..n : DOMAIN f[k].index \subseteq DOMAIN f[n].index
         /\ \A k \in 1..n : members[k].code \in DOMAIN f[n].index
<1> DEFINE Held(k) == /\ \A i \in 0..k : DOMAIN f[i].index \subseteq DOMAIN f[k].index
                      /\ \A i \in 1..k : members[i].code \in DOMAIN f[k].index
           Good == {k \in 0..n : Held(k)}
<1>1. 0 \in Good
  <2>1. \A i \in 0..0 : i = 0
    OBVIOUS
  <2>2. 1..0 = {} /\ 0 \in 0..n
    OBVIOUS
  <2> QED BY <2>1, <2>2
<1>2. ASSUME NEW k \in 0..(n - 1), k \in Good PROVE k + 1 \in Good
  <2>1. /\ members[k + 1].code \in DOMAIN f[k + 1].index /\ DOMAIN f[k].index \subseteq DOMAIN f[k + 1].index
    BY CodeIsIndexed DEF PartyMemberFold
  <2>2. \A i \in 0..(k + 1) : i = k + 1 \/ i \in 0..k
    OBVIOUS
  <2>3. \A i \in 1..(k + 1) : i = k + 1 \/ i \in 1..k
    OBVIOUS
  <2>4. k + 1 \in 0..n /\ Held(k)
    BY <1>2
  <2>5. Held(k + 1)
    BY <2>1, <2>2, <2>3, <2>4
  <2> QED BY <2>4, <2>5
<1> HIDE DEF Good
<1>3. n \in Good
  BY <1>1, <1>2, PartyMembers!UpTo
<1> QED BY <1>3 DEF Good

LEMMA AgentsRoom ==
  ASSUME NEW crew, NEW n \in Nat, DOMAIN crew = 1..n
  PROVE  Leads(FoldLeft(PartyAgent, EmptyRoom, crew)) /\ Indexed(FoldLeft(PartyAgent, EmptyRoom, crew))
<1>1. PICK f : PartyAgentFold(f, EmptyRoom, crew, n)
  BY PartyAgentSteps, Zenon
<1> DEFINE Good == {k \in 0..n : Leads(f[k]) /\ Indexed(f[k])}
<1>2. 0 \in Good
  <2>1. f[0] = EmptyRoom /\ DOMAIN EmptyRoom.pool = {} /\ DOMAIN EmptyRoom.index = {} /\ 0 \in 0..n
    BY <1>1 DEF PartyAgentFold, EmptyRoom
  <2> QED BY <2>1 DEF Leads, Indexed
<1>3. ASSUME NEW k \in 0..(n - 1), k \in Good PROVE k + 1 \in Good
  <2> DEFINE card == InstalledCard(crew[k + 1])
  <2>1. f[k + 1] = RegisterInParty(f[k], card) /\ Leads(f[k]) /\ Indexed(f[k]) /\ k + 1 \in 0..n
    <3>1. f[k + 1] = PartyAgent(f[k], crew[k + 1])
      BY <1>1 DEF PartyAgentFold
    <3>2. f[k + 1] = RegisterInParty(f[k], card)
      BY <3>1, Zenon DEF PartyAgent
    <3>3. Leads(f[k]) /\ Indexed(f[k]) /\ k + 1 \in 0..n
      BY <1>3
    <3> QED BY <3>2, <3>3
  <2> HIDE DEF card
  <2>2. Leads(RegisterInParty(f[k], card)) /\ Indexed(RegisterInParty(f[k], card))
    BY <2>1, PartyRegisters, RegisteringLeads, IndexedAfter
  <2> QED BY <2>1, <2>2
<1> HIDE DEF Good
<1>4. n \in Good
  BY <1>2, <1>3, PartyAgents!UpTo
<1> QED BY <1>1, <1>4 DEF Good, PartyAgentFold

\* What has been listed leads to the same, whoever is new.
LEMMA ListedRemain ==
  ASSUME NEW crew, NEW a \in Nat, DOMAIN crew = 1..a, NEW S, NEW before \in Seq(S), NEW now \in Seq(S), NEW listed,
         listed = DOMAIN BuildCollective(crew, before).index, Weaves(listed, before, now)
  PROVE  \A t \in listed : BuildCollective(crew, now).index[t] = BuildCollective(crew, before).index[t]
<1>1. PICK at, place : IsWeave(listed, before, now, at, place)
  BY Zenon DEF Weaves
<1> DEFINE n == Len(now) b == Len(before) base == FoldLeft(PartyAgent, EmptyRoom, crew)
<1>2. n \in Nat /\ b \in Nat /\ DOMAIN now = 1..n /\ DOMAIN before = 1..b
  BY LenProperties
<1>3. /\ at[0] = 0 /\ at[n] = b /\ \A k \in 0..n : at[k] \in 0..b
      /\ \A k \in 1..n :
           \/ at[k] = at[k - 1] + 1 /\ at[k] \in 1..b /\ now[k] = before[at[k]] /\ now[k].code \in listed
           \/ at[k] = at[k - 1] /\ UnlistedCard(listed, now[k])
  BY <1>1 DEF IsWeave
<1>4. Leads(base) /\ Indexed(base)
  BY AgentsRoom
<1> HIDE DEF n, b
<1>5. PICK f : PartyMemberFold(f, base, before, b)
  BY <1>2, PartyMemberSteps, Zenon
<1>6. PICK g : PartyMemberFold(g, base, now, n)
  BY <1>2, PartyMemberSteps, Zenon
<1>7. f[b] = BuildCollective(crew, before) /\ g[n] = BuildCollective(crew, now)
  BY <1>5, <1>6, Zenon DEF PartyMemberFold, BuildCollective
<1>8. \A k \in 0..b : DOMAIN f[k].index \subseteq listed
  BY <1>2, <1>5, <1>7, RoomGrows
<1> HIDE DEF base
<1> DEFINE Good == {k \in 0..n : Joined(listed, f[at[k]], g[k])}
<1>9. 0 \in Good
  <2>1. f[0] = base /\ g[0] = base /\ at[0] = 0 /\ 0 \in 0..n /\ 0 \in 0..b
    BY <1>2, <1>3, <1>5, <1>6 DEF PartyMemberFold
  <2>2. Joined(listed, base, base)
    BY <1>4, <1>8, <2>1, JoinedItself
  <2> QED BY <2>1, <2>2
<1>10. ASSUME NEW k \in 0..(n - 1), k \in Good PROVE k + 1 \in Good
  <2>1. k + 1 \in 1..n /\ k + 1 \in 0..n /\ k \in 0..n /\ (k + 1) - 1 = k
    BY <1>2
  <2>2. Joined(listed, f[at[k]], g[k]) /\ g[k + 1] = PartyMember(g[k], now[k + 1])
    BY <1>6, <1>10 DEF PartyMemberFold
  <2>3. CASE at[k + 1] = at[k] /\ UnlistedCard(listed, now[k + 1])
    BY <2>1, <2>2, <2>3, JoinOne
  <2>4. CASE /\ at[k + 1] = at[k] + 1 /\ at[k + 1] \in 1..b
             /\ now[k + 1] = before[at[k + 1]] /\ now[k + 1].code \in listed
    <3>1. at[k] \in 0..(b - 1) /\ at[k + 1] \in 0..b
      BY <1>2, <1>3, <2>1, <2>4
    <3>2. f[at[k + 1]] = PartyMember(f[at[k]], now[k + 1])
      BY <1>5, <2>4, <3>1 DEF PartyMemberFold
    <3>3. DOMAIN PartyMember(f[at[k]], now[k + 1]).index \subseteq listed
      BY <1>8, <3>1, <3>2
    <3>4. Joined(listed, PartyMember(f[at[k]], now[k + 1]), PartyMember(g[k], now[k + 1]))
      BY <2>2, <2>4, <3>3, JoinBoth
    <3> QED BY <2>1, <2>2, <3>2, <3>4
  <2> QED BY <1>3, <2>1, <2>3, <2>4
<1> HIDE DEF Good
<1>11. n \in Good
  BY <1>2, <1>9, <1>10, PartyMembers!UpTo
<1>12. Joined(listed, f[b], g[n])
  BY <1>3, <1>11 DEF Good
<1> QED BY <1>7, <1>12 DEF Joined

-----------------------------------------------------------------------------
CodesOf(cards) == {cards[i].code : i \in DOMAIN cards}

LEMMA PutMemberCodes ==
  ASSUME NEW S, NEW cards \in Seq(S), NEW card \in S
  PROVE  CodesOf(cards) \cup {card.code} \subseteq CodesOf(PutMember(cards, card))
<1>1. Len(cards) \in Nat /\ DOMAIN cards = 1..Len(cards)
  BY LenProperties
<1>2. ASSUME NEW i \in DOMAIN cards, cards[i].code = card.code, PutMember(cards, card) = [cards EXCEPT ![i] = card]
      PROVE  CodesOf(cards) \cup {card.code} \subseteq CodesOf(PutMember(cards, card))
  <2>1. DOMAIN PutMember(cards, card) = DOMAIN cards /\ \A j \in DOMAIN cards : PutMember(cards, card)[j].code = cards[j].code
    BY <1>2
  <2> QED BY <1>2, <2>1 DEF CodesOf
<1>3. ASSUME PutMember(cards, card) = Append(cards, card)
      PROVE  CodesOf(cards) \cup {card.code} \subseteq CodesOf(PutMember(cards, card))
  <2>1. /\ DOMAIN PutMember(cards, card) = 1..(Len(cards) + 1) /\ PutMember(cards, card)[Len(cards) + 1] = card
        /\ \A j \in 1..Len(cards) : PutMember(cards, card)[j] = cards[j]
    BY <1>3, AppendProperties
  <2>2. Len(cards) + 1 \in 1..(Len(cards) + 1) /\ 1..Len(cards) \subseteq 1..(Len(cards) + 1)
    BY <1>1
  <2> QED BY <1>1, <2>1, <2>2 DEF CodesOf
<1> QED BY <1>2, <1>3, PutMemberCases

LEMMA KeyedMembersCodes ==
  ASSUME NEW S, NEW base, NEW over \in Seq(S), IsCast(base, S)
  PROVE  CodesOf(base) \cup CodesOf(over) \subseteq CodesOf(KeyedMembers(base, over))
<1> DEFINE n == Len(over)
<1>1. n \in Nat /\ DOMAIN over = 1..n /\ \A i \in 1..n : over[i] \in S
  BY LenProperties, ElementOfSeq
<1> HIDE DEF n
<1>2. PICK f : PutMemberFold(f, base, over, n)
  BY <1>1, PutMemberSteps, Zenon
<1>3. \A k \in 0..n : IsCast(f[k], S)
  BY <1>1, <1>2, FoldsAreCasts
<1> DEFINE Held(k) == CodesOf(base) \subseteq CodesOf(f[k]) /\ \A i \in 1..k : over[i].code \in CodesOf(f[k])
           Good == {k \in 0..n : Held(k)}
<1>4. 0 \in Good
  <2>1. f[0] = base /\ 1..0 = {} /\ 0 \in 0..n
    BY <1>1, <1>2 DEF PutMemberFold
  <2> QED BY <2>1
<1>5. ASSUME NEW k \in 0..(n - 1), k \in Good PROVE k + 1 \in Good
  <2>1. k + 1 \in 1..n /\ k + 1 \in 0..n /\ k \in 0..n
    BY <1>1
  <2>2. f[k + 1] = PutMember(f[k], over[k + 1]) /\ f[k] \in Seq(S) /\ over[k + 1] \in S
    BY <1>1, <1>2, <1>3, <2>1 DEF PutMemberFold, IsCast
  <2>3. CodesOf(f[k]) \cup {over[k + 1].code} \subseteq CodesOf(f[k + 1])
    BY <2>2, PutMemberCodes
  <2>4. \A i \in 1..(k + 1) : i = k + 1 \/ i \in 1..k
    OBVIOUS
  <2>5. Held(k)
    BY <1>5
  <2>6. Held(k + 1)
    BY <2>3, <2>4, <2>5
  <2> QED BY <2>1, <2>6
<1> HIDE DEF Good
<1>6. n \in Good
  BY <1>1, <1>4, <1>5, KeyedPuts!UpTo
<1>7. f[n] = KeyedMembers(base, over)
  BY <1>2, Zenon DEF PutMemberFold, KeyedMembers
<1> QED BY <1>1, <1>6, <1>7 DEF Good, CodesOf
-----------------------------------------------------------------------------
LEMMA PutOneMember ==
  ASSUME NEW cards, NEW card
  PROVE  KeyedMembers(cards, <<card>>) = PutMember(cards, card)
<1>1. DOMAIN <<card>> = 1..1 /\ <<card>>[1] = card /\ 1 \in Nat
  OBVIOUS
<1>2. PICK f : PutMemberFold(f, cards, <<card>>, 1)
  BY <1>1, PutMemberSteps, Zenon
<1>3. f[0] = cards /\ f[1] = FoldLeft(PutMember, cards, <<card>>) /\ f[0 + 1] = PutMember(f[0], <<card>>[0 + 1])
  BY <1>2 DEF PutMemberFold
<1> DEFINE one == <<card>>
<1>4. 0 + 1 = 1 /\ one[1] = card
  OBVIOUS
<1> HIDE DEF one
<1>5. f[1] = PutMember(f[0], one[1])
  <2>1. f[0 + 1] = PutMember(f[0], one[0 + 1])
    BY <1>3 DEF one
  <2> QED BY <1>4, <2>1
<1>6. f[1] = PutMember(cards, card)
  BY <1>3, <1>4, <1>5
<1> QED BY <1>3, <1>6, Zenon DEF KeyedMembers

\* What has been listed: the room of the members that were there then, from whom those
\* of today differ by new ones.
Merged(team, user) == KeyedMembers(KeyedMembers(ShippedMembers, team), user)
Listing(codes, crew, casts, team, user) ==
  /\ team \in Seq(AllCards) /\ user \in Seq(AllCards) /\ codes = CodeMap(BuildCollective(crew, Merged(team, user)))
  /\ Weaves(DOMAIN codes, ShippedMembers, ShippedMembers)
  /\ Weaves(DOMAIN codes, team, casts["team"]) /\ Weaves(DOMAIN codes, user, casts["user"])
IsListing(codes, crew, casts) == \E team, user : Listing(codes, crew, casts, team, user)
NewFacesInv ==
  allMissed => IF unreadable = "customization" THEN codesListed = CodeMap(BuildCollective(LoadAgents, ShippedMembers))
               ELSE IsListing(codesListed, LoadAgents, castings)

LEMMA CodeMapIs ==
  ASSUME NEW room
  PROVE  DOMAIN CodeMap(room) = DOMAIN room.index /\ \A t \in DOMAIN room.index : CodeMap(room)[t] = room.index[t]
BY DEF CodeMap

LEMMA CastingsAre ==
  ASSUME RosterTypeInv
  PROVE  IsCast(castings["team"], AllCards) /\ IsCast(castings["user"], AllCards)
<1>1. IsCast(castings["team"], MemberCards) /\ IsCast(castings["user"], MemberCards)
  BY DEF RosterTypeInv
<1>2. castings["team"] \in Seq(AllCards) /\ castings["user"] \in Seq(AllCards)
  BY <1>1, SeqMonotonic DEF AllCards, IsCast
<1> QED BY <1>1, <1>2 DEF IsCast

LEMMA WorkflowIs ==
  /\ unreadable = "customization" => PartyRoom = BuildCollective(LoadAgents, ShippedMembers)
  /\ unreadable # "customization" => PartyRoom = BuildCollective(LoadAgents, Merged(castings["team"], castings["user"]))
BY Zenon DEF PartyRoom, LoadWorkflow, Merged

\* A look at the code map lists everybody who is there.
LEMMA ListingNow ==
  ASSUME RosterTypeInv, unreadable # "customization"
  PROVE  IsListing(CodeMap(PartyRoom), LoadAgents, castings)
<1> DEFINE team == castings["team"] user == castings["user"] listed == DOMAIN CodeMap(PartyRoom)
           first == KeyedMembers(ShippedMembers, team) merged == KeyedMembers(first, user)
<1>1. IsCast(team, AllCards) /\ IsCast(user, AllCards) /\ team \in Seq(AllCards) /\ user \in Seq(AllCards)
  BY CastingsAre DEF IsCast
<1>2. PartyRoom = BuildCollective(LoadAgents, merged)
  BY WorkflowIs, Zenon DEF Merged
<1> HIDE DEF team, user
<1>3. IsCast(first, AllCards) /\ IsCast(ShippedMembers, AllCards)
  BY <1>1, ShippedAre, KeyedMembersAre
<1>4. IsCast(merged, AllCards)
  BY <1>1, <1>3, KeyedMembersAre
<1>5. CodesOf(ShippedMembers) \cup CodesOf(team) \subseteq CodesOf(first) /\ CodesOf(first) \cup CodesOf(user) \subseteq CodesOf(merged)
  BY <1>1, <1>3, KeyedMembersCodes
<1> HIDE DEF first, merged
<1>6. CodesOf(merged) \subseteq listed
  <2> DEFINE n == Len(merged) base == FoldLeft(PartyAgent, EmptyRoom, LoadAgents)
  <2>1. n \in Nat /\ DOMAIN merged = 1..n
    BY <1>4, LenProperties DEF IsCast
  <2> HIDE DEF n
  <2>2. PICK f : PartyMemberFold(f, base, merged, n)
    BY <2>1, PartyMemberSteps, Zenon
  <2>3. f[n] = PartyRoom
    BY <1>2, <2>2, Zenon DEF PartyMemberFold, BuildCollective
  <2>4. \A k \in 1..n : merged[k].code \in DOMAIN f[n].index
    BY <2>1, <2>2, RoomGrows
  <2> QED BY <2>1, <2>3, <2>4, CodeMapIs DEF CodesOf
<1>7. /\ \A i \in DOMAIN ShippedMembers : ShippedMembers[i].code \in listed
      /\ \A i \in DOMAIN team : team[i].code \in listed
      /\ \A i \in DOMAIN user : user[i].code \in listed
  BY <1>5, <1>6 DEF CodesOf
<1> HIDE DEF listed
<1>8. ShippedMembers \in Seq(AllCards)
  BY <1>3 DEF IsCast
<1>9. Weaves(listed, ShippedMembers, ShippedMembers) /\ Weaves(listed, team, team) /\ Weaves(listed, user, user)
  BY <1>1, <1>7, <1>8, WeavesItself
<1>10. CodeMap(PartyRoom) = CodeMap(BuildCollective(LoadAgents, Merged(team, user)))
  BY <1>2, Zenon DEF Merged, merged, first
<1>11. Listing(CodeMap(PartyRoom), LoadAgents, castings, team, user)
  BY <1>1, <1>9, <1>10, Zenon DEF Listing, listed, team, user
<1> QED BY <1>11, Zenon DEF IsListing

\* A new member leaves the listing true.
LEMMA ListingAfter ==
  ASSUME NEW codes, NEW crew, NEW casts, DOMAIN casts = {"team", "user"}, NEW layer \in {"team", "user"}, NEW member \in AllCards,
         \A l \in {"team", "user"} : IsCast(casts[l], AllCards), IsListing(codes, crew, casts), UnlistedCard(DOMAIN codes, member)
  PROVE  IsListing(codes, crew, [casts EXCEPT ![layer] = KeyedMembers(casts[layer], <<member>>)])
<1> DEFINE put == PutMember(casts[layer], member) after == [casts EXCEPT ![layer] = put]
<1>1. PICK team, user : Listing(codes, crew, casts, team, user)
  BY Zenon DEF IsListing
<1>2. team \in Seq(AllCards) /\ user \in Seq(AllCards) /\ Weaves(DOMAIN codes, team, casts["team"]) /\ Weaves(DOMAIN codes, user, casts["user"])
  BY <1>1, Zenon DEF Listing
<1> DEFINE then == IF layer = "team" THEN team ELSE user
<1>3. then \in Seq(AllCards) /\ Weaves(DOMAIN codes, then, casts[layer]) /\ IsCast(casts[layer], AllCards)
  BY <1>2
<1> HIDE DEF then
<1>4. Weaves(DOMAIN codes, then, put)
  BY <1>3, PutInOne
<1>5. \A l \in {"team", "user"} : after[l] = IF l = layer THEN put ELSE casts[l]
  OBVIOUS
<1> HIDE DEF after, put
<1>6. Weaves(DOMAIN codes, team, after["team"]) /\ Weaves(DOMAIN codes, user, after["user"])
  BY <1>2, <1>4, <1>5 DEF then
<1>7. Listing(codes, crew, after, team, user)
  BY <1>1, <1>6, Zenon DEF Listing
<1>8. IsListing(codes, crew, after)
  BY <1>7, Zenon DEF IsListing
<1> QED BY <1>8, PutOneMember DEF after, put

LEMMA NewFacesInit == RosterInit => NewFacesInv
BY DEF RosterInit, NewFacesInv

LEMMA NewFacesStep == RosterTypeInv /\ NewFacesInv /\ [RosterNext]_rosterVars => NewFacesInv'
<1> SUFFICES ASSUME RosterTypeInv, NewFacesInv, [RosterNext]_rosterVars PROVE NewFacesInv'
  OBVIOUS
<1>1. ASSUME NEW agent \in AgentCards, InstallAgent(agent) PROVE NewFacesInv'
  BY <1>1 DEF InstallAgent, NewFacesInv
<1>2. ASSUME NEW layer \in {"team", "user"}, NEW member \in MemberCards, WriteMember(layer, member) PROVE NewFacesInv'
  <2>1. /\ castings' = [castings EXCEPT ![layer] = KeyedMembers(castings[layer], <<member>>)]
        /\ installedAgents' = installedAgents /\ unreadable' = unreadable /\ codesListed' = codesListed
        /\ allMissed' = (allMissed /\ TokensOfCard(member) \cap DOMAIN codesListed = {})
    BY <1>2, Zenon DEF WriteMember
  <2>2. LoadAgents' = LoadAgents
    BY <2>1, Zenon DEF LoadAgents
  <2>3. SUFFICES ASSUME allMissed'
                 PROVE  IF unreadable = "customization" THEN codesListed = CodeMap(BuildCollective(LoadAgents, ShippedMembers))
                        ELSE IsListing(codesListed, LoadAgents, castings')
    BY <2>1, <2>2, Zenon DEF NewFacesInv
  <2>4. allMissed /\ UnlistedCard(DOMAIN codesListed, member)
    BY <2>1, <2>3, Zenon DEF UnlistedCard
  <2>5. CASE unreadable = "customization"
    BY <2>4, <2>5, Zenon DEF NewFacesInv
  <2>6. CASE unreadable # "customization"
    <3>1. IsListing(codesListed, LoadAgents, castings)
      BY <2>4, <2>6, Zenon DEF NewFacesInv
    <3>2. DOMAIN castings = {"team", "user"} /\ \A l \in {"team", "user"} : IsCast(castings[l], AllCards)
      BY CastingsAre DEF RosterTypeInv
    <3>3. member \in AllCards
      BY DEF AllCards
    <3>4. IsListing(codesListed, LoadAgents, castings')
      BY <2>1, <2>4, <3>1, <3>2, <3>3, ListingAfter
    <3> QED BY <2>6, <3>4
  <2> QED BY <2>5, <2>6
<1>3. CASE ListCodes
  <2>1. codesListed' = CodeMap(PartyRoom) /\ installedAgents' = installedAgents /\ castings' = castings /\ unreadable' = unreadable
    BY <1>3, Zenon DEF ListCodes
  <2>2. LoadAgents' = LoadAgents
    BY <2>1, Zenon DEF LoadAgents
  <2>3. CASE unreadable = "customization"
    <3>1. codesListed' = CodeMap(BuildCollective(LoadAgents, ShippedMembers))
      BY <2>1, <2>3, WorkflowIs, Zenon
    <3> QED BY <2>1, <2>2, <2>3, <3>1, Zenon DEF NewFacesInv
  <2>4. CASE unreadable # "customization"
    <3>1. IsListing(CodeMap(PartyRoom), LoadAgents, castings)
      BY <2>4, ListingNow
    <3> QED BY <2>1, <2>2, <2>4, <3>1, Zenon DEF NewFacesInv
  <2> QED BY <2>3, <2>4
<1>4. CASE UNCHANGED rosterVars
  <2>1. /\ codesListed' = codesListed /\ installedAgents' = installedAgents /\ castings' = castings /\ unreadable' = unreadable
        /\ allMissed' = allMissed
    BY <1>4, Zenon DEF rosterVars
  <2>2. LoadAgents' = LoadAgents
    BY <2>1, Zenon DEF LoadAgents
  <2> QED BY <2>1, <2>2, Zenon DEF NewFacesInv
<1> QED BY <1>1, <1>2, <1>3, <1>4 DEF RosterNext

LEMMA NewFacesImply ==
  ASSUME RosterTypeInv, NewFacesInv
  PROVE  NewFacesShadowNobody
<1> SUFFICES ASSUME allMissed PROVE \A t \in DOMAIN codesListed : PartyRoom.index[t] = codesListed[t]
  BY Zenon DEF NewFacesShadowNobody
<1>1. CASE unreadable = "customization"
  <2>1. codesListed = CodeMap(PartyRoom)
    BY <1>1, WorkflowIs, Zenon DEF NewFacesInv
  <2> QED BY <2>1, CodeMapIs
<1>2. CASE unreadable # "customization"
  <2> DEFINE listed == DOMAIN codesListed
  <2>1. PICK team, user : Listing(codesListed, LoadAgents, castings, team, user)
    BY <1>2, Zenon DEF NewFacesInv, IsListing
  <2> DEFINE before == Merged(team, user) now == Merged(castings["team"], castings["user"])
  <2>2. /\ team \in Seq(AllCards) /\ user \in Seq(AllCards) /\ codesListed = CodeMap(BuildCollective(LoadAgents, before))
        /\ Weaves(listed, ShippedMembers, ShippedMembers)
        /\ Weaves(listed, team, castings["team"]) /\ Weaves(listed, user, castings["user"])
    BY <2>1, Zenon DEF Listing
  <2>3. IsCast(ShippedMembers, AllCards) /\ castings["team"] \in Seq(AllCards) /\ castings["user"] \in Seq(AllCards)
    BY CastingsAre, ShippedAre DEF IsCast
  <2> DEFINE first == KeyedMembers(ShippedMembers, team) wider == KeyedMembers(ShippedMembers, castings["team"])
  <2>4. IsCast(first, AllCards) /\ IsCast(wider, AllCards)
    BY <2>2, <2>3, KeyedMembersAre
  <2>5. Weaves(listed, first, wider)
    BY <2>2, <2>3, KeyedMembersWeave
  <2> HIDE DEF first, wider, listed
  <2>6. Weaves(listed, KeyedMembers(first, user), KeyedMembers(wider, castings["user"]))
    BY <2>2, <2>3, <2>4, <2>5, KeyedMembersWeave
  <2>7. IsCast(KeyedMembers(first, user), AllCards) /\ IsCast(KeyedMembers(wider, castings["user"]), AllCards)
    BY <2>2, <2>3, <2>4, KeyedMembersAre
  <2>8. before = KeyedMembers(first, user) /\ now = KeyedMembers(wider, castings["user"])
    BY Zenon DEF Merged, first, wider
  <2> HIDE DEF before, now
  <2>9. Weaves(listed, before, now) /\ before \in Seq(AllCards) /\ now \in Seq(AllCards)
    BY <2>6, <2>7, <2>8 DEF IsCast
  <2>10. LoadAgents \in Seq(AgentCards)
    BY ReadMembersAre DEF IsCast
  <2>11. Len(LoadAgents) \in Nat /\ DOMAIN LoadAgents = 1..Len(LoadAgents)
    BY <2>10, LenProperties
  <2>12. listed = DOMAIN BuildCollective(LoadAgents, before).index
    BY <2>2, CodeMapIs DEF listed
  <2>13. \A t \in listed : BuildCollective(LoadAgents, now).index[t] = BuildCollective(LoadAgents, before).index[t]
    BY <2>9, <2>11, <2>12, ListedRemain
  <2>14. PartyRoom = BuildCollective(LoadAgents, now)
    BY <1>2, WorkflowIs, Zenon DEF now
  <2>15. \A t \in listed : codesListed[t] = BuildCollective(LoadAgents, before).index[t]
    BY <2>2, <2>12, CodeMapIs
  <2> QED BY <2>13, <2>14, <2>15 DEF listed
<1> QED BY <1>1, <1>2
-----------------------------------------------------------------------------
LEMMA RosterIsTyped == RosterSpec => []RosterTypeInv
BY RosterInit_Types, RosterStepTypes, PTL DEF RosterSpec

\* Casting members and editing both customizations keeps the rosters well formed.
THEOREM RosterTypes == RosterSpec => []RosterTypeOK
BY RosterIsTyped, RosterTypesImply, PTL

\* Whatever is installed and cast into whichever layer, the default room is the installed
\* agents, each member that has the code of an agent who owns it in that agent's place, and
\* both resolvers seat the same members at every party unless somebody goes by another's
\* code or name (resolve_party.py, resolve_personas.py).
THEOREM RoomsSeatTheInstalled == RosterSpec => [](RostersAgree /\ RoomIsTheInstalled)
<1>1. RosterTypeInv => RostersAgree /\ RoomIsTheInstalled
  BY InstalledAreInPlace, PartiesAreTheSame
<1> QED BY <1>1, RosterIsTyped, PTL

\* A member cast as a new face takes no token that the list had given to somebody else,
\* whatever the codes and the names are (resolve_party.py: --list-rosters, then cast).
THEOREM NewFacesTakeNothing == RosterSpec => []NewFacesShadowNobody
<1>1. RosterTypeInv /\ NewFacesInv => NewFacesShadowNobody
  BY NewFacesImply
<1> QED BY <1>1, RosterIsTyped, NewFacesInit, NewFacesStep, PTL DEF RosterSpec
=============================================================================
