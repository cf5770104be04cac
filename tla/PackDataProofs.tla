---------------------------- MODULE PackDataProofs ----------------------------
(***************************************************************************)
(* Proofs about PackData, for every set of languages and dictionaries, all *)
(* the packs an installation may have and every number of changes.         *)
(*                                                                         *)
(* The changes are applied, and the files layered, by folds. A fold is a   *)
(* function on the sets of positions; what it computes is read off a       *)
(* sequence of accumulators, which exists by induction on the length       *)
(* (Iterates, Accumulators). Every fold of the model is then one case of   *)
(* Upd, and what is true of its result is shown from accumulator to        *)
(* accumulator (UpTo).                                                     *)
(***************************************************************************)
EXTENDS PackData, FiniteSetTheorems, WellFoundedInduction, TLAPS

-----------------------------------------------------------------------------
(* Induction over what is a set, not an operator.                          *)

LEMMA MinNat ==
  ASSUME NEW T \in SUBSET Nat, T # {} PROVE \E m \in T : \A y \in T : m <= y
<1> DEFINE R == {ss \in Nat \X Nat : ss[1] < ss[2]}
<1>1. IsWellFoundedOn(R, Nat)
  BY NatLessThanWellFounded, Zenon DEF OpToRel
<1>2. PICK m \in T : \A y \in T : ~ (<<y, m>> \in R)
  BY <1>1, WFMin
<1>3. ASSUME NEW y \in T PROVE m <= y
  <2>1. <<y, m>> \in Nat \X Nat /\ ~ (y < m) BY <1>2
  <2> QED BY <2>1
<1> QED BY <1>3

\* What holds of 0 and is handed on up to n holds everywhere up to n.
LEMMA UpTo ==
  ASSUME NEW n \in Nat, NEW G, 0 \in G, \A k \in 0 .. n - 1 : k \in G => k + 1 \in G
  PROVE  \A k \in 0 .. n : k \in G
<1> DEFINE Bad == {k \in 0 .. n : k \notin G}
<1>1. SUFFICES ASSUME Bad # {} PROVE FALSE
  OBVIOUS
<1>2. Bad \in SUBSET Nat
  OBVIOUS
<1>3. PICK m \in Bad : \A y \in Bad : m <= y
  BY <1>1, <1>2, MinNat
<1>4. m # 0 /\ m \in 0 .. n /\ m \notin G
  BY <1>3
<1>5. m - 1 \in 0 .. n - 1 /\ m - 1 \notin Bad
  BY <1>3, <1>4
<1>6. m - 1 \in G
  BY <1>5
<1>7. m - 1 + 1 \in G
  BY <1>5, <1>6
<1> QED BY <1>4, <1>7

LEMMA MaxBelow ==
  ASSUME NEW k \in Nat, NEW t \in SUBSET (1 .. k + 1), t # {}
  PROVE  t \ {Max(t)} \in SUBSET (1 .. k)
<1>0. \A y \in t : y \in Int /\ k + 1 >= y /\ 1 <= y OBVIOUS
<1>1. CASE k + 1 \in t
  <2>1. \E x \in t : \A y \in t : x >= y BY <1>0, <1>1
  <2>2. PICK x : x = Max(t) OBVIOUS
  <2>3. x \in t /\ \A y \in t : x >= y BY <2>1, <2>2, Zenon DEF Max
  <2>4. x = k + 1 BY <2>3, <1>0, <1>1
  <2>5. \A y \in t \ {k + 1} : y \in 1 .. k BY <1>0
  <2> QED BY <2>2, <2>4, <2>5, Zenon
<1>2. CASE k + 1 \notin t
  <2>1. \A y \in t : y # k + 1 BY <1>2, Zenon
  <2>2. \A y \in t : y \in 1 .. k BY <1>0, <2>1
  <2> QED BY <2>2, Zenon
<1> QED BY <1>1, <1>2

-----------------------------------------------------------------------------
(* The folds.                                                              *)

\* One step of each of the model's folds, c says which and with what.
Upd(c, acc, x) ==
    CASE c.fold = "changes" -> SetDictionary(acc, c.kind, x, c.changes[x])
      [] c.fold = "layers" -> AddLayer(c.packs, c.over, acc, x)
      [] c.fold = "settings" -> AddSettings(c.packs, acc, x)
      [] c.fold = "rules" -> Keep(c.skips, acc, x)

\* The function FoldLeft is defined with: the last position of a set is folded last.
Iter(c, base, s, g, t) ==
    IF t = {} THEN base ELSE Upd(c, g[t \ {Max(t)}], s[Max(t)])
IsIter(c, base, s, n, g) == g = [t \in SUBSET (1 .. n) |-> Iter(c, base, s, g, t)]

\* The accumulators of a fold, from the first to the last.
Accumulate(c, base, s, n, it) ==
    it[0] = base /\ \A k \in 0 .. n - 1 : it[k + 1] = Upd(c, it[k], s[k + 1])

\* There is such a function, however long the sequence is.
LEMMA Iterates ==
  ASSUME NEW c, NEW base, NEW s, NEW n \in Nat
  PROVE  \E g : IsIter(c, base, s, n, g)
<1> DEFINE Step(g, t) == Iter(c, base, s, g, t)
           Good(k) == \E g : g = [t \in SUBSET (1 .. k) |-> Step(g, t)]
           G == {k \in Nat : Good(k)}
<1>1. Good(0)
  <2>1. PICK g : g = [t \in SUBSET (1 .. 0) |-> base] OBVIOUS
  <2>2. \A t \in SUBSET (1 .. 0) : t = {} OBVIOUS
  <2> QED BY <2>1, <2>2 DEF Iter
<1>2. ASSUME NEW k \in Nat, Good(k) PROVE Good(k + 1)
  <2>1. PICK g : g = [t \in SUBSET (1 .. k) |-> Step(g, t)] BY <1>2
  <2> DEFINE f == [t \in SUBSET (1 .. k + 1) |-> Step(g, t)]
  <2>2. ASSUME NEW t \in SUBSET (1 .. k + 1), t # {} PROVE t \ {Max(t)} \in SUBSET (1 .. k)
    BY <2>2, MaxBelow
  <2>3. ASSUME NEW u \in SUBSET (1 .. k) PROVE f[u] = g[u]
    <3>1. u \in SUBSET (1 .. k + 1) OBVIOUS
    <3>2. f[u] = Step(g, u) BY <3>1
    <3>3. g[u] = Step(g, u) BY <2>1
    <3> QED BY <3>2, <3>3
  <2>4. ASSUME NEW t \in SUBSET (1 .. k + 1) PROVE Step(f, t) = Step(g, t)
    BY <2>2, <2>3 DEF Iter
  <2>5. f = [t \in SUBSET (1 .. k + 1) |-> Step(f, t)]
    BY <2>4, Zenon
  <2> QED BY <2>5
<1> HIDE DEF Good
<1>3. \A k \in 0 .. n : k \in G
  <2>1. 0 \in G BY <1>1
  <2>2. \A k \in 0 .. n - 1 : k \in G => k + 1 \in G BY <1>2
  <2> HIDE DEF G
  <2> QED BY <2>1, <2>2, UpTo
<1>4. n \in G
  BY <1>3
<1> QED BY <1>4, Zenon DEF Good, IsIter

\* What the function gives for all positions is the last of a sequence of accumulators.
LEMMA Accumulators ==
  ASSUME NEW c, NEW base, NEW s, NEW n \in Nat,
         NEW g, IsIter(c, base, s, n, g)
  PROVE  \E it : Accumulate(c, base, s, n, it) /\ g[1 .. n] = it[n]
<1> DEFINE it == [k \in 0 .. n |-> g[1 .. k]]
<1>0. g = [t \in SUBSET (1 .. n) |-> Iter(c, base, s, g, t)]
  BY DEF IsIter
<1>1. it[0] = base
  <2>1. 1 .. 0 = {} /\ {} \in SUBSET (1 .. n) OBVIOUS
  <2> QED BY <1>0, <2>1 DEF Iter
<1>2. ASSUME NEW k \in 0 .. n - 1 PROVE it[k + 1] = Upd(c, it[k], s[k + 1])
  <2>1. 1 .. k + 1 \in SUBSET (1 .. n) /\ 1 .. k + 1 # {}
    <3>1. ASSUME NEW y \in 1 .. k + 1 PROVE y \in 1 .. n OBVIOUS
    <3>2. 1 \in 1 .. k + 1 OBVIOUS
    <3> QED BY <3>1, <3>2, Zenon
  <2>2. Max(1 .. k + 1) = k + 1 BY DEF Max
  <2>3. (1 .. k + 1) \ {k + 1} = 1 .. k OBVIOUS
  <2>4. g[1 .. k + 1] = Iter(c, base, s, g, 1 .. k + 1) BY <1>0, <2>1
  <2>5. g[1 .. k + 1] = Upd(c, g[1 .. k], s[k + 1])
    BY <2>1, <2>2, <2>3, <2>4 DEF Iter
  <2> QED BY <2>5
<1>3. it[n] = g[1 .. n]
  OBVIOUS
<1> HIDE DEF it
<1>4. Accumulate(c, base, s, n, it)
  BY <1>1, <1>2, Zenon DEF Accumulate
<1> QED BY <1>3, <1>4

\* A finite set, enumerated.
LEMMA Enumerated ==
  ASSUME NEW S, IsFiniteSet(S)
  PROVE  LET s == SetToSeq(S) IN
         \E n \in Nat : /\ DOMAIN s = 1 .. n
                        /\ \A i \in 1 .. n : s[i] \in S
                        /\ \A i, j \in 1 .. n : s[i] = s[j] => i = j
                        /\ \A x \in S : \E i \in 1 .. n : s[i] = x
<1> DEFINE n == Cardinality(S)
           s == SetToSeq(S)
<1>1. n \in Nat /\ ExistsBijection(1 .. n, S)
  BY FS_CardinalityType
<1>2. \E f \in [1 .. n -> S] : IsInjective(f)
  BY <1>1, Zenon DEF ExistsBijection, Bijection, Injection
<1>3. s \in [1 .. n -> S] /\ IsInjective(s)
  BY <1>2, Zenon DEF SetToSeq
<1>4. s \in Injection(1 .. n, S)
  BY <1>3, Zenon DEF Injection
<1>5. Cardinality(1 .. n) = n
  BY <1>1, FS_Interval
<1>6. s \in Surjection(1 .. n, S)
  BY <1>1, <1>4, <1>5, FS_Injection
<1> HIDE DEF n, s
<1>7. \A x \in S : \E i \in 1 .. n : s[i] = x
  BY <1>6, Zenon DEF Surjection
<1>8. \A i, j \in 1 .. n : s[i] = s[j] => i = j
  BY <1>3 DEF IsInjective
<1> QED BY <1>1, <1>3, <1>7, <1>8 DEF s

\* The handles that SetAll goes through.
Applied(hd, kind, changes, s, n, it) ==
    /\ \A i \in 1 .. n : s[i] \in DOMAIN changes
    /\ \A i, j \in 1 .. n : s[i] = s[j] => i = j
    /\ \A x \in DOMAIN changes : \E i \in 1 .. n : s[i] = x
    /\ it[0] = hd
    /\ \A k \in 0 .. n - 1 :
          it[k + 1] = SetDictionary(it[k], kind, s[k + 1], changes[s[k + 1]])
    /\ SetAll(hd, kind, changes) = it[n]

LEMMA SetAllFold ==
  ASSUME NEW hd, NEW kind, NEW changes, IsFiniteSet(DOMAIN changes)
  PROVE  \E n \in Nat : \E s, it : Applied(hd, kind, changes, s, n, it)
<1> DEFINE s == SetToSeq(DOMAIN changes)
           c == [fold |-> "changes", kind |-> kind, changes |-> changes]
<1>1. PICK n \in Nat : /\ DOMAIN s = 1 .. n
                       /\ \A i \in 1 .. n : s[i] \in DOMAIN changes
                       /\ \A i, j \in 1 .. n : s[i] = s[j] => i = j
                       /\ \A x \in DOMAIN changes : \E i \in 1 .. n : s[i] = x
  BY Enumerated
<1>2. \A acc, x : Upd(c, acc, x) = SetDictionary(acc, kind, x, changes[x])
  BY DEF Upd
<1> DEFINE Step(g, t) == IF t = {} THEN hd
                         ELSE SetDictionary(g[t \ {Max(t)}], kind, s[Max(t)], changes[s[Max(t)]])
           F == CHOOSE g : g = [t \in SUBSET (1 .. n) |-> Step(g, t)]
<1>3. SetAll(hd, kind, changes) = F[1 .. n]
  BY <1>1, Zenon DEF SetAll, FoldLeft, MapThenFoldSet
<1> HIDE DEF s, c
<1>4. \A g, t : Iter(c, hd, s, g, t) = Step(g, t)
  BY <1>2 DEF Iter
<1>5. \E g : g = [t \in SUBSET (1 .. n) |-> Step(g, t)]
  <2>1. PICK g : IsIter(c, hd, s, n, g)
    BY Iterates
  <2> HIDE DEF Step
  <2>2. g = [t \in SUBSET (1 .. n) |-> Step(g, t)]
    BY <2>1, <1>4 DEF IsIter
  <2> QED BY <2>2
<1>6. F = [t \in SUBSET (1 .. n) |-> Step(F, t)]
  BY <1>5, Zenon
<1> HIDE DEF F
<1>7. IsIter(c, hd, s, n, F)
  BY <1>6, <1>4, Zenon DEF IsIter
<1>8. PICK it : Accumulate(c, hd, s, n, it) /\ F[1 .. n] = it[n]
  BY <1>7, Accumulators
<1>9. \A k \in 0 .. n - 1 :
         it[k + 1] = SetDictionary(it[k], kind, s[k + 1], changes[s[k + 1]])
  BY <1>2, <1>8 DEF Accumulate
<1>10. it[0] = hd
  BY <1>8 DEF Accumulate
<1>11. Applied(hd, kind, changes, s, n, it)
  BY <1>1, <1>3, <1>8, <1>9, <1>10, Zenon DEF Applied
<1> QED BY <1>11

-----------------------------------------------------------------------------
(* The frontend handle.                                                    *)

Handle(hd) ==
    /\ hd = [lang |-> hd.lang, dicts |-> hd.dicts, settings |-> hd.settings,
             cache |-> hd.cache, off |-> hd.off]
    /\ hd.dicts = [k \in Kinds |-> hd.dicts[k]]
    /\ hd.off \in [Langs -> SUBSET Kinds]

\* The listing of a handle, if there is one, is of the dictionary it names.
Fresh(hd) == hd.cache # None => hd.cache.list = GetDictRefs(hd, hd.cache.kind, hd.cache.lang)

\* Nothing but one dictionary and the listing changed, and no listing was made.
OnlyDict(hd, kind, new) ==
    /\ Handle(new)
    /\ new.lang = hd.lang /\ new.settings = hd.settings /\ new.off = hd.off
    /\ new = hd \/ new.cache = None
    /\ \A k \in Kinds \ {kind} : new.dicts[k] = hd.dicts[k]

\* One change.
LEMMA SetDictionaryFacts ==
  ASSUME NEW hd, Handle(hd), NEW kind \in Kinds, NEW w, NEW change
  PROVE  LET new == SetDictionary(hd, kind, w, change)
             old == hd.dicts[kind]
         IN  /\ OnlyDict(hd, kind, new)
             /\ new.dicts[kind] =
                   IF Refused(hd, kind, w, change) THEN old
                   ELSE IF kind = "pronounce" THEN SetPronounce(old, w, change)
                   ELSE SetOther(kind, old, w, change)
<1> DEFINE new == SetDictionary(hd, kind, w, change)
           old == hd.dicts[kind]
           entry == IF kind = "pronounce" THEN SetPronounce(old, w, change)
                    ELSE SetOther(kind, old, w, change)
<1>1. CASE Refused(hd, kind, w, change)
  <2>1. new = hd
    BY <1>1 DEF SetDictionary
  <2> QED BY <1>1, <2>1 DEF OnlyDict
<1>2. CASE ~Refused(hd, kind, w, change)
  <2> DEFINE d == [hd.dicts EXCEPT ![kind] = entry]
  <2>1. new = [hd EXCEPT !.cache = None, !.dicts[kind] = entry]
    BY <1>2, Zenon DEF SetDictionary
  <2> HIDE DEF entry, new
  <2>2. new = [lang |-> hd.lang, dicts |-> d, settings |-> hd.settings,
               cache |-> None, off |-> hd.off]
    BY <2>1 DEF Handle
  <2>3. d[kind] = entry /\ \A k \in Kinds \ {kind} : d[k] = hd.dicts[k]
    BY DEF Handle
  <2>4. d = [k \in Kinds |-> d[k]]
    BY DEF Handle
  <2> HIDE DEF d
  <2>5. new.dicts[kind] = entry
    BY <2>2, <2>3
  <2>6. OnlyDict(hd, kind, new)
    BY <2>2, <2>3, <2>4 DEF OnlyDict, Handle
  <2> QED BY <1>2, <2>5, <2>6 DEF entry, new
<1> QED BY <1>1, <1>2

\* A word that is not changed stays as it is, or stays missing.
SameAt(w, dict, other) ==
    (w \in DOMAIN dict) = (w \in DOMAIN other) /\ (w \in DOMAIN dict => dict[w] = other[w])

LEMMA OtherWordStays ==
  ASSUME NEW hd, Handle(hd), NEW kind \in Kinds, NEW w, NEW change, NEW v, v # w
  PROVE  SameAt(v, SetDictionary(hd, kind, w, change).dicts[kind], hd.dicts[kind])
<1> DEFINE old == hd.dicts[kind]
<1>1. ASSUME NEW e PROVE SameAt(v, Over(One(w, e), old), old)
  BY DEF SameAt, Over, One
<1>2. SameAt(v, SetPronounce(old, w, change), old)
  <2>1. SameAt(v, [old EXCEPT ![w].masked = change.mask], old)
    BY DEF SameAt
  <2> HIDE DEF old
  <2> QED BY <1>1, <2>1 DEF SetPronounce, SameAt
<1>4. kind # "pronounce" => SameAt(v, SetOther(kind, old, w, change), old)
  <2> HIDE DEF old
  <2> QED BY <1>1 DEF SetOther, SameAt, Kinds
<1>3. SameAt(v, old, old)
  BY DEF SameAt
<1> QED BY <1>2, <1>3, <1>4, SetDictionaryFacts

\* Any number of changes.
LEMMA SetAllFacts ==
  ASSUME NEW hd, Handle(hd), NEW kind \in Kinds, NEW changes, IsFiniteSet(DOMAIN changes)
  PROVE  LET new == SetAll(hd, kind, changes)
         IN  /\ OnlyDict(hd, kind, new)
             /\ \A v : v \notin DOMAIN changes => SameAt(v, new.dicts[kind], hd.dicts[kind])
<1>n. PICK n \in Nat : \E s, it : Applied(hd, kind, changes, s, n, it)
  BY SetAllFold
<1>0. PICK s, it : Applied(hd, kind, changes, s, n, it)
  BY <1>n
<1>1. /\ \A i \in 1 .. n : s[i] \in DOMAIN changes
      /\ it[0] = hd
      /\ \A k \in 0 .. n - 1 :
            it[k + 1] = SetDictionary(it[k], kind, s[k + 1], changes[s[k + 1]])
      /\ SetAll(hd, kind, changes) = it[n]
  BY <1>0 DEF Applied
<1> DEFINE Done(x) == /\ OnlyDict(hd, kind, x)
                      /\ \A v : v \notin DOMAIN changes => SameAt(v, x.dicts[kind], hd.dicts[kind])
           G == {k \in 0 .. n : Done(it[k])}
<1>2. Done(hd)
  BY DEF OnlyDict, SameAt
<1>3. ASSUME NEW k \in 0 .. n - 1, Done(it[k]) PROVE Done(it[k + 1])
  <2> DEFINE w == s[k + 1]
             x == it[k]
             y == SetDictionary(x, kind, w, changes[w])
  <2>1. it[k + 1] = y /\ w \in DOMAIN changes
    BY <1>1
  <2>2. Handle(x)
    BY <1>3 DEF OnlyDict
  <2> HIDE DEF w, x
  <2>3. OnlyDict(x, kind, y)
    BY <2>2, SetDictionaryFacts
  <2>4. \A v : v # w => SameAt(v, y.dicts[kind], x.dicts[kind])
    BY <2>2, OtherWordStays
  <2> HIDE DEF y
  <2>5. OnlyDict(hd, kind, y)
    BY <1>3, <2>3 DEF OnlyDict, x
  <2>6. \A v : v \notin DOMAIN changes => SameAt(v, y.dicts[kind], hd.dicts[kind])
    BY <1>3, <2>1, <2>4 DEF SameAt, x
  <2> QED BY <2>1, <2>5, <2>6
<1> HIDE DEF Done
<1>4. \A k \in 0 .. n : k \in G
  <2>1. 0 \in G
    BY <1>1, <1>2
  <2>2. \A k \in 0 .. n - 1 : k \in G => k + 1 \in G
    BY <1>3
  <2> HIDE DEF G
  <2> QED BY <2>1, <2>2, UpTo
<1>5. Done(it[n])
  BY <1>4
<1> QED BY <1>1, <1>5 DEF Done

\* A dictionary after the changes of some words.
Edited(disk, changes, done) ==
    LET texts == {w \in done : changes[w].text # None}
    IN  [w \in DOMAIN disk \cup texts |->
            IF w \in texts THEN Entry(changes[w].text, "user")
            ELSE IF w \in done THEN [disk[w] EXCEPT !.masked = changes[w].mask]
            ELSE disk[w]]

\* One more change, of a word not changed yet, refused or not.
LEMMA EditedStep ==
  ASSUME NEW disk, NEW changes, NEW done, NEW w, w \notin done
  PROVE  LET dict == Edited(disk, changes, done)
             change == changes[w]
         IN  Edited(disk, changes, done \cup {w}) =
                IF change.text = None /\ w \notin DOMAIN dict THEN dict
                ELSE SetPronounce(dict, w, change)
<1> DEFINE dict == Edited(disk, changes, done)
           new == Edited(disk, changes, done \cup {w})
           texts == {x \in done : changes[x].text # None}
           newTexts == {x \in done \cup {w} : changes[x].text # None}
<1>1. DOMAIN dict = DOMAIN disk \cup texts /\ DOMAIN new = DOMAIN disk \cup newTexts
  BY DEF Edited
<1>2. \A x \in DOMAIN new : new[x] =
         IF x \in newTexts THEN Entry(changes[x].text, "user")
         ELSE IF x \in done \cup {w} THEN [disk[x] EXCEPT !.masked = changes[x].mask]
         ELSE disk[x]
  BY DEF Edited
<1>3. \A x \in DOMAIN dict : dict[x] =
         IF x \in texts THEN Entry(changes[x].text, "user")
         ELSE IF x \in done THEN [disk[x] EXCEPT !.masked = changes[x].mask]
         ELSE disk[x]
  BY DEF Edited
<1>4. dict = [x \in DOMAIN dict |-> dict[x]] /\ new = [x \in DOMAIN new |-> new[x]]
  BY DEF Edited
<1> HIDE DEF dict, new
<1>5. CASE changes[w].text # None
  <2>1. newTexts = texts \cup {w}
    BY <1>5
  <2> DEFINE set == Over(One(w, Entry(changes[w].text, "user")), dict)
  <2>2. DOMAIN set = DOMAIN new
    BY <2>1, <1>1 DEF Over, One
  <2>3. set = [x \in DOMAIN set |-> set[x]]
    BY DEF Over
  <2>4. ASSUME NEW x \in DOMAIN new, x # w PROVE new[x] = dict[x] /\ set[x] = dict[x]
    <3>1. x \in DOMAIN dict /\ (x \in newTexts <=> x \in texts)
      BY <2>1, <2>4, <1>1
    <3>2. new[x] = dict[x]
      BY <3>1, <2>4, <1>2, <1>3
    <3>3. set[x] = dict[x]
      BY <3>1, <2>4 DEF Over, One
    <3> QED BY <3>2, <3>3
  <2>5. new[w] = Entry(changes[w].text, "user") /\ set[w] = Entry(changes[w].text, "user")
    BY <2>1, <1>1, <1>2 DEF Over, One
  <2> HIDE DEF set
  <2>6. \A x \in DOMAIN new : new[x] = set[x]
    BY <2>4, <2>5
  <2>7. new = set
    BY <2>2, <2>3, <2>6, <1>4
  <2> QED BY <2>7, <1>5 DEF SetPronounce, set, new, dict
<1>6. CASE changes[w].text = None
  <2>1. newTexts = texts /\ DOMAIN new = DOMAIN dict
    BY <1>6, <1>1
  <2>2. \A x \in DOMAIN dict : x # w => new[x] = dict[x]
    BY <2>1, <1>2, <1>3
  <2>3. CASE w \notin DOMAIN dict
    <3>1. new = dict
      BY <2>1, <2>2, <2>3, <1>4
    <3> QED BY <3>1, <2>3, <1>6 DEF new, dict
  <2>4. CASE w \in DOMAIN dict
    <3> DEFINE set == [dict EXCEPT ![w].masked = changes[w].mask]
    <3>1. dict[w] = disk[w] /\ new[w] = [disk[w] EXCEPT !.masked = changes[w].mask]
      <4>1. w \notin texts
        BY <1>6
      <4> QED BY <4>1, <2>1, <2>4, <1>2, <1>3
    <3>2. set = [x \in DOMAIN dict |-> IF x = w THEN [dict[w] EXCEPT !.masked = changes[w].mask]
                                       ELSE dict[x]]
      BY <2>4
    <3> HIDE DEF set
    <3>3. \A x \in DOMAIN dict : set[x] = new[x]
      BY <3>1, <3>2, <2>2
    <3>4. new = set
      BY <3>2, <3>3, <2>1, <1>4
    <3> QED BY <3>4, <2>4, <1>6 DEF SetPronounce, set, new, dict
  <2> QED BY <2>3, <2>4
<1> QED BY <1>5, <1>6

\* The changes of a pronunciation dictionary, in whatever order they are made.
LEMMA SetAllEdits ==
  ASSUME NEW hd, Handle(hd), NEW changes, IsFiniteSet(DOMAIN changes), NEW disk,
         hd.dicts["pronounce"] = disk, disk = [x \in DOMAIN disk |-> disk[x]]
  PROVE  SetAll(hd, "pronounce", changes).dicts["pronounce"]
            = Edited(disk, changes, DOMAIN changes)
<1>n. PICK n \in Nat : \E s, it : Applied(hd, "pronounce", changes, s, n, it)
  BY SetAllFold
<1>0. PICK s, it : Applied(hd, "pronounce", changes, s, n, it)
  BY <1>n
<1>1. /\ \A i \in 1 .. n : s[i] \in DOMAIN changes
      /\ \A i, j \in 1 .. n : s[i] = s[j] => i = j
      /\ \A x \in DOMAIN changes : \E i \in 1 .. n : s[i] = x
      /\ it[0] = hd
      /\ \A k \in 0 .. n - 1 :
            it[k + 1] = SetDictionary(it[k], "pronounce", s[k + 1], changes[s[k + 1]])
      /\ SetAll(hd, "pronounce", changes) = it[n]
  BY <1>0 DEF Applied
<1> DEFINE Upto(k) == {s[i] : i \in 1 .. k}
           Done(k) == /\ Handle(it[k])
                      /\ it[k].dicts["pronounce"] = Edited(disk, changes, Upto(k))
           G == {k \in 0 .. n : Done(k)}
<1>2. Done(0)
  <2>1. Upto(0) = {}
    OBVIOUS
  <2>2. Edited(disk, changes, {}) = disk
    BY DEF Edited
  <2> QED BY <2>1, <2>2, <1>1
<1>3. ASSUME NEW k \in 0 .. n - 1, Done(k) PROVE Done(k + 1)
  <2> DEFINE w == s[k + 1]
             x == it[k]
             y == SetDictionary(x, "pronounce", w, changes[w])
             dict == Edited(disk, changes, Upto(k))
  <2>1. it[k + 1] = y
    BY <1>1
  <2>2. w \notin Upto(k)
    BY <1>1
  <2>3. Upto(k + 1) = Upto(k) \cup {w}
    OBVIOUS
  <2>4. Handle(x) /\ x.dicts["pronounce"] = dict
    BY <1>3
  <2> HIDE DEF w, x, Upto
  <2>5. /\ Handle(y)
        /\ y.dicts["pronounce"] = IF Refused(x, "pronounce", w, changes[w]) THEN dict
                                  ELSE SetPronounce(dict, w, changes[w])
    BY <2>4, SetDictionaryFacts DEF OnlyDict, Kinds
  <2>6. Refused(x, "pronounce", w, changes[w])
           <=> changes[w].text = None /\ w \notin DOMAIN dict
    BY <2>4 DEF Refused
  <2>7. Edited(disk, changes, Upto(k) \cup {w}) =
           IF changes[w].text = None /\ w \notin DOMAIN dict THEN dict
           ELSE SetPronounce(dict, w, changes[w])
    BY <2>2, EditedStep
  <2> HIDE DEF y, dict
  <2>8. y.dicts["pronounce"] = Edited(disk, changes, Upto(k) \cup {w})
    BY <2>5, <2>6, <2>7
  <2> QED BY <2>1, <2>3, <2>5, <2>8
<1> HIDE DEF Done
<1>4. \A k \in 0 .. n : k \in G
  <2>1. 0 \in G
    BY <1>2
  <2>2. \A k \in 0 .. n - 1 : k \in G => k + 1 \in G
    BY <1>3
  <2> HIDE DEF G
  <2> QED BY <2>1, <2>2, UpTo
<1>5. Done(n)
  BY <1>4
<1>6. Upto(n) = DOMAIN changes
  <2>1. Upto(n) \subseteq DOMAIN changes
    BY <1>1
  <2>2. \A x \in DOMAIN changes : x \in Upto(n)
    BY <1>1
  <2> QED BY <2>1, <2>2
<1> QED BY <1>1, <1>5, <1>6 DEF Done

-----------------------------------------------------------------------------
(* The layers of a language.                                               *)

\* The files of a chain, laid over one another.
LEMMA LayersFold ==
  ASSUME NEW packs, NEW over, NEW s, NEW n \in Nat, DOMAIN s = 1 .. n
  PROVE  \E it : /\ Accumulate([fold |-> "layers", packs |-> packs, over |-> over],
                               LoadPhonemes(packs), s, n, it)
                 /\ Layers(packs, over, s) = it[n]
<1> DEFINE c == [fold |-> "layers", packs |-> packs, over |-> over]
<1>1. \A acc, x : Upd(c, acc, x) = AddLayer(packs, over, acc, x)
  BY DEF Upd
<1> DEFINE Step(g, t) == IF t = {} THEN LoadPhonemes(packs)
                         ELSE AddLayer(packs, over, g[t \ {Max(t)}], s[Max(t)])
           F == CHOOSE g : g = [t \in SUBSET (1 .. n) |-> Step(g, t)]
<1>2. Layers(packs, over, s) = F[1 .. n]
  BY Zenon DEF Layers, FoldLeft, MapThenFoldSet
<1> HIDE DEF c
<1>3. \A g, t : Iter(c, LoadPhonemes(packs), s, g, t) = Step(g, t)
  BY <1>1 DEF Iter
<1>4. \E g : g = [t \in SUBSET (1 .. n) |-> Step(g, t)]
  <2>1. PICK g : IsIter(c, LoadPhonemes(packs), s, n, g)
    BY Iterates
  <2> HIDE DEF Step
  <2>2. g = [t \in SUBSET (1 .. n) |-> Step(g, t)]
    BY <2>1, <1>3 DEF IsIter
  <2> QED BY <2>2
<1>5. F = [t \in SUBSET (1 .. n) |-> Step(F, t)]
  BY <1>4, Zenon
<1> HIDE DEF F
<1>6. IsIter(c, LoadPhonemes(packs), s, n, F)
  BY <1>5, <1>3, Zenon DEF IsIter
<1>7. PICK it : Accumulate(c, LoadPhonemes(packs), s, n, it) /\ F[1 .. n] = it[n]
  BY <1>6, Accumulators
<1> QED BY <1>2, <1>7 DEF c

\* Their settings alone.
LEMMA SettingsFold ==
  ASSUME NEW packs, NEW s, NEW n \in Nat, DOMAIN s = 1 .. n
  PROVE  \E it : /\ Accumulate([fold |-> "settings", packs |-> packs], Empty, s, n, it)
                 /\ LayeredSettings(packs, s) = it[n]
<1> DEFINE c == [fold |-> "settings", packs |-> packs]
<1>1. \A acc, x : Upd(c, acc, x) = AddSettings(packs, acc, x)
  BY DEF Upd
<1> DEFINE Step(g, t) == IF t = {} THEN Empty
                         ELSE AddSettings(packs, g[t \ {Max(t)}], s[Max(t)])
           F == CHOOSE g : g = [t \in SUBSET (1 .. n) |-> Step(g, t)]
<1>2. LayeredSettings(packs, s) = F[1 .. n]
  BY Zenon DEF LayeredSettings, FoldLeft, MapThenFoldSet
<1> HIDE DEF c
<1>3. \A g, t : Iter(c, Empty, s, g, t) = Step(g, t)
  BY <1>1 DEF Iter
<1>4. \E g : g = [t \in SUBSET (1 .. n) |-> Step(g, t)]
  <2>1. PICK g : IsIter(c, Empty, s, n, g)
    BY Iterates
  <2> HIDE DEF Step
  <2>2. g = [t \in SUBSET (1 .. n) |-> Step(g, t)]
    BY <2>1, <1>3 DEF IsIter
  <2> QED BY <2>2
<1>5. F = [t \in SUBSET (1 .. n) |-> Step(F, t)]
  BY <1>4, Zenon
<1> HIDE DEF F
<1>6. IsIter(c, Empty, s, n, F)
  BY <1>5, <1>3, Zenon DEF IsIter
<1>7. PICK it : Accumulate(c, Empty, s, n, it) /\ F[1 .. n] = it[n]
  BY <1>6, Accumulators
<1> QED BY <1>2, <1>7 DEF c

\* The rules that no skip removes.
LEMMA KeptFold ==
  ASSUME NEW skips, NEW s, NEW n \in Nat, DOMAIN s = 1 .. n
  PROVE  \E it : /\ Accumulate([fold |-> "rules", skips |-> skips], <<>>, s, n, it)
                 /\ Kept(skips, s) = it[n]
<1> DEFINE c == [fold |-> "rules", skips |-> skips]
<1>1. \A acc, x : Upd(c, acc, x) = Keep(skips, acc, x)
  BY DEF Upd
<1> DEFINE Step(g, t) == IF t = {} THEN <<>>
                         ELSE Keep(skips, g[t \ {Max(t)}], s[Max(t)])
           F == CHOOSE g : g = [t \in SUBSET (1 .. n) |-> Step(g, t)]
<1>2. Kept(skips, s) = F[1 .. n]
  BY Zenon DEF Kept, FoldLeft, MapThenFoldSet
<1> HIDE DEF c
<1>3. \A g, t : Iter(c, <<>>, s, g, t) = Step(g, t)
  BY <1>1 DEF Iter
<1>4. \E g : g = [t \in SUBSET (1 .. n) |-> Step(g, t)]
  <2>1. PICK g : IsIter(c, <<>>, s, n, g)
    BY Iterates
  <2> HIDE DEF Step
  <2>2. g = [t \in SUBSET (1 .. n) |-> Step(g, t)]
    BY <2>1, <1>3 DEF IsIter
  <2> QED BY <2>2
<1>5. F = [t \in SUBSET (1 .. n) |-> Step(F, t)]
  BY <1>4, Zenon
<1> HIDE DEF F
<1>6. IsIter(c, <<>>, s, n, F)
  BY <1>5, <1>3, Zenon DEF IsIter
<1>7. PICK it : Accumulate(c, <<>>, s, n, it) /\ F[1 .. n] = it[n]
  BY <1>6, Accumulators
<1> QED BY <1>2, <1>7 DEF c

LEMMA ChainFacts ==
  ASSUME NEW lang \in Langs
  PROVE  LET s == Chain(lang) IN
         /\ Len(s) \in Nat /\ DOMAIN s = 1 .. Len(s)
         /\ \A k \in 0 .. Len(s) - 1 : s[k + 1] \in Names /\ s[k + 1] \in ToSet(s)
<1>1. CASE BaseOf[lang] = None
  <2>1. Chain(lang) = <<Default, lang>>
    BY <1>1, LangAssumption DEF Chain
  <2> QED BY <2>1 DEF Names, ToSet
<1>2. CASE BaseOf[lang] # None
  <2>1. Chain(lang) = <<Default, BaseOf[lang], lang>> /\ BaseOf[lang] \in Langs
    BY <1>2, LangAssumption DEF Chain
  <2> QED BY <2>1 DEF Names, ToSet
<1> QED BY <1>1, <1>2

\* The rules of the files of a language.
RulesOf(packs, name) ==
    LET file == packs.bundle.lang[name] IN IF file = None THEN {} ELSE ToSet(file.rules)
ChainRules(packs, lang) == {r \in UNION {RulesOf(packs, name) : name \in Names} :
                               \E name \in ToSet(Chain(lang)) : r \in RulesOf(packs, name)}

\* A pack that is being layered: what is in it comes from the files layered so far.
LayerOf(pack, set, shown) ==
    /\ pack = [settings |-> pack.settings, rules |-> pack.rules,
               skips |-> pack.skips, phonemes |-> pack.phonemes]
    /\ pack.rules \in Seq(set)
    /\ pack.settings = shown

LEMMA LayerStep ==
  ASSUME NEW packs \in InitFiles, NEW set, NEW shown, NEW pack, LayerOf(pack, set, shown),
         NEW name \in Names, RulesOf(packs, name) \subseteq set
  PROVE  LayerOf(AddLayer(packs, FALSE, pack, name), set, AddSettings(packs, shown, name))
<1> DEFINE file == packs.bundle.lang[name]
<1>1. LangFile(packs, FALSE, name) = file
  BY DEF LangFile
<1>2. CASE file = None
  BY <1>1, <1>2 DEF AddLayer, AddSettings
<1>3. CASE file # None
  <2> DEFINE new == MergeLanguageFile(pack, file)
  <2>1. AddLayer(packs, FALSE, pack, name) = new
        /\ AddSettings(packs, shown, name) = Over(file.settings, shown)
    BY <1>1, <1>3 DEF AddLayer, AddSettings
  <2>2. file.rules \in Seq(ToSet(file.rules)) /\ ToSet(file.rules) \subseteq set
    BY <1>3, FilesAssumption DEF RulesOf
  <2> HIDE DEF file
  <2>3. file.rules \in Seq(set)
    <3>1. \A i \in 1 .. Len(file.rules) : file.rules[i] \in ToSet(file.rules)
      BY <2>2 DEF ToSet
    <3>2. \A i \in 1 .. Len(file.rules) : file.rules[i] \in set
      BY <3>1, <2>2
    <3>3. Len(file.rules) \in Nat /\ file.rules = [i \in 1 .. Len(file.rules) |-> file.rules[i]]
      BY <2>2
    <3> QED BY <3>2, <3>3
  <2>4. new = [settings |-> Over(file.settings, pack.settings),
               rules |-> pack.rules \o file.rules,
               skips |-> pack.skips \cup file.skips,
               phonemes |-> Over(file.phonemes, pack.phonemes)]
    <3> DEFINE first == MergeSettings(pack, file)
               second == MergeNormalization(first, file)
    <3>1. first = [settings |-> Over(file.settings, pack.settings), rules |-> pack.rules,
                   skips |-> pack.skips, phonemes |-> pack.phonemes]
      BY DEF MergeSettings, LayerOf
    <3> HIDE DEF first
    <3>2. second = [settings |-> Over(file.settings, pack.settings),
                    rules |-> pack.rules \o file.rules,
                    skips |-> pack.skips \cup file.skips, phonemes |-> pack.phonemes]
      <4> DEFINE both == pack.rules \o file.rules
      <4>1. first.rules = pack.rules /\ first.skips = pack.skips
        BY <3>1
      <4>2. second = [first EXCEPT !.rules = both, !.skips = pack.skips \cup file.skips]
        BY <4>1 DEF MergeNormalization
      <4> HIDE DEF both, second
      <4>3. second = [settings |-> Over(file.settings, pack.settings), rules |-> both,
                      skips |-> pack.skips \cup file.skips, phonemes |-> pack.phonemes]
        BY <3>1, <4>2
      <4> QED BY <4>3 DEF both
    <3>3. new = [second EXCEPT !.phonemes = Over(file.phonemes, @)]
      BY DEF MergeLanguageFile, first
    <3> HIDE DEF second, new
    <3> QED BY <3>2, <3>3
  <2>5. pack.rules \o file.rules \in Seq(set)
    BY <2>3 DEF LayerOf
  <2> HIDE DEF new
  <2>6. LayerOf(new, set, Over(file.settings, shown))
    BY <2>4, <2>5 DEF LayerOf
  <2> QED BY <2>1, <2>6
<1> QED BY <1>2, <1>3

\* What the layers are in the end.
LEMMA LayersFacts ==
  ASSUME NEW packs \in InitFiles, NEW lang \in Langs
  PROVE  LayerOf(Layers(packs, FALSE, Chain(lang)), ChainRules(packs, lang),
                 GetEffectiveSettings(packs, lang))
<1> DEFINE s == Chain(lang)
           n == Len(s)
           set == ChainRules(packs, lang)
<1>1. n \in Nat /\ DOMAIN s = 1 .. n
  BY ChainFacts
<1>2. \A k \in 0 .. n - 1 : s[k + 1] \in Names /\ RulesOf(packs, s[k + 1]) \subseteq set
  <2> SUFFICES ASSUME NEW k \in 0 .. n - 1
               PROVE  s[k + 1] \in Names /\ RulesOf(packs, s[k + 1]) \subseteq set
    OBVIOUS
  <2>1. s[k + 1] \in Names /\ s[k + 1] \in ToSet(s)
    BY ChainFacts
  <2> HIDE DEF s
  <2>2. \A r \in RulesOf(packs, s[k + 1]) : r \in set
    BY <2>1 DEF ChainRules, s
  <2> QED BY <2>1, <2>2
<1> HIDE DEF s, n, set
<1>3. PICK a : /\ Accumulate([fold |-> "layers", packs |-> packs, over |-> FALSE],
                             LoadPhonemes(packs), s, n, a)
               /\ Layers(packs, FALSE, s) = a[n]
  BY <1>1, LayersFold
<1>4. PICK b : /\ Accumulate([fold |-> "settings", packs |-> packs], Empty, s, n, b)
               /\ LayeredSettings(packs, s) = b[n]
  BY <1>1, SettingsFold
<1>5. /\ a[0] = LoadPhonemes(packs) /\ b[0] = Empty
      /\ \A k \in 0 .. n - 1 : /\ a[k + 1] = AddLayer(packs, FALSE, a[k], s[k + 1])
                               /\ b[k + 1] = AddSettings(packs, b[k], s[k + 1])
  BY <1>3, <1>4 DEF Accumulate, Upd
<1> DEFINE Done(k) == LayerOf(a[k], set, b[k])
           G == {k \in 0 .. n : Done(k)}
<1>6. \A k \in 0 .. n : k \in G
  <2>1. Done(0)
    BY <1>5 DEF LayerOf, LoadPhonemes
  <2>2. ASSUME NEW k \in 0 .. n - 1, Done(k) PROVE Done(k + 1)
    <3>1. s[k + 1] \in Names /\ RulesOf(packs, s[k + 1]) \subseteq set
      BY <1>2
    <3>2. LayerOf(AddLayer(packs, FALSE, a[k], s[k + 1]), set, AddSettings(packs, b[k], s[k + 1]))
      BY <2>2, <3>1, LayerStep
    <3> QED BY <1>5, <3>2
  <2> HIDE DEF Done
  <2>3. 0 \in G /\ \A k \in 0 .. n - 1 : k \in G => k + 1 \in G
    BY <1>1, <2>1, <2>2
  <2> HIDE DEF G
  <2> QED BY <1>1, <2>3, UpTo
<1>7. LayerOf(a[n], set, b[n])
  BY <1>1, <1>6
<1> QED BY <1>3, <1>4, <1>7 DEF GetEffectiveSettings, s, set

\* Rules are only left out.
LEMMA KeptFacts ==
  ASSUME NEW set, NEW rules \in Seq(set), NEW skips
  PROVE  Kept(skips, rules) \in Seq(set)
<1> DEFINE n == Len(rules)
<1>1. n \in Nat /\ DOMAIN rules = 1 .. n /\ \A k \in 0 .. n - 1 : rules[k + 1] \in set
  OBVIOUS
<1>2. PICK it : /\ Accumulate([fold |-> "rules", skips |-> skips], <<>>, rules, n, it)
                /\ Kept(skips, rules) = it[n]
  BY <1>1, KeptFold
<1> HIDE DEF n
<1>3. it[0] = <<>> /\ \A k \in 0 .. n - 1 : it[k + 1] = Keep(skips, it[k], rules[k + 1])
  BY <1>2 DEF Accumulate, Upd
<1> DEFINE Done(k) == it[k] \in Seq(set)
           G == {k \in 0 .. n : Done(k)}
<1>4. \A k \in 0 .. n : k \in G
  <2>1. Done(0)
    BY <1>3
  <2>2. ASSUME NEW k \in 0 .. n - 1, Done(k) PROVE Done(k + 1)
    <3>1. rules[k + 1] \in set /\ it[k + 1] = Keep(skips, it[k], rules[k + 1])
      BY <1>1, <1>3
    <3>2. Append(it[k], rules[k + 1]) \in Seq(set)
      BY <2>2, <3>1
    <3>3. it[k + 1] \in {it[k], Append(it[k], rules[k + 1])}
      BY <3>1, Zenon DEF Keep
    <3> QED BY <2>2, <3>2, <3>3
  <2> HIDE DEF Done
  <2>3. 0 \in G /\ \A k \in 0 .. n - 1 : k \in G => k + 1 \in G
    BY <1>1, <2>1, <2>2
  <2> HIDE DEF G
  <2> QED BY <1>1, <2>3, UpTo
<1> QED BY <1>1, <1>2, <1>4

\* The settings are those of the editors, and every rule comes from a file of the chain.
LEMMA PackFacts ==
  ASSUME NEW packs \in InitFiles, NEW lang \in Langs
  PROVE  LET pack == LoadPackSet(packs, FALSE, lang) IN
         /\ pack.settings = GetEffectiveSettings(packs, lang)
         /\ pack.rules \in Seq(ChainRules(packs, lang))
         /\ pack.dicts = PackDicts(packs, FALSE, lang)
<1> DEFINE layers == Layers(packs, FALSE, Chain(lang))
           set == ChainRules(packs, lang)
<1>1. LayerOf(layers, set, GetEffectiveSettings(packs, lang))
  BY LayersFacts
<1> HIDE DEF layers, set
<1>2. /\ Skipped(layers).settings = layers.settings
      /\ Skipped(layers).rules = Kept(layers.skips, layers.rules)
  BY <1>1 DEF Skipped, LayerOf
<1>3. Kept(layers.skips, layers.rules) \in Seq(set)
  BY <1>1, KeptFacts DEF LayerOf
<1> QED BY <1>1, <1>2, <1>3 DEF LoadPackSet, LayeredLang, LayerOf, layers, set

-----------------------------------------------------------------------------
(* The operations on a handle.                                             *)

\* The dictionaries and settings of a language, in the files.
Disk(l) == PackDicts(files, FALSE, l)
DiskSettings(l) == LoadPackSet(files, FALSE, l).settings

LEMMA DiskFacts ==
  ASSUME NEW l
  PROVE  /\ Disk(l) = [k \in Kinds |-> Disk(l)[k]]
         /\ Disk(l)["pronounce"] = [w \in DOMAIN Disk(l)["pronounce"] |-> Disk(l)["pronounce"][w]]
<1> DEFINE main == MainDict(files, FALSE, l, "pronounce", TRUE)
           dicts == Disk(l)
<1>1. dicts["pronounce"] = WithUserDict(files, FALSE, l, main)
  BY DEF PackDicts, Kinds, Disk
<1>2. \E upper, lower : WithUserDict(files, FALSE, l, main) = Over(upper, lower)
  BY Zenon DEF WithUserDict, LoadPronDict
<1>3. dicts = [k \in Kinds |-> dicts[k]]
  BY DEF PackDicts, Disk
<1> HIDE DEF dicts, main
<1>4. PICK upper, lower : dicts["pronounce"] = Over(upper, lower)
  BY <1>1, <1>2
<1>5. dicts["pronounce"] = [w \in DOMAIN dicts["pronounce"] |-> dicts["pronounce"][w]]
  BY <1>4 DEF Over
<1> QED BY <1>3, <1>5 DEF dicts

\* A language is loaded: the pack as it is in the files, and no listing.
LEMMA SetLanguageFacts ==
  ASSUME NEW hd, Handle(hd), NEW l
  PROVE  LET new == SetLanguage(hd, l) IN
         /\ Handle(new) /\ new.lang = l /\ new.off = hd.off /\ new.cache = None
         /\ new.dicts = Disk(l) /\ new.settings = DiskSettings(l)
<1> DEFINE pack == LoadPackSet(files, FALSE, l)
           new == SetLanguage(hd, l)
<1>1. pack.dicts = Disk(l) /\ pack.settings = DiskSettings(l)
  BY DEF LoadPackSet, Disk, DiskSettings
<1>2. new = [hd EXCEPT !.lang = l, !.dicts = pack.dicts, !.settings = pack.settings,
                       !.cache = None]
  BY Zenon DEF SetLanguage
<1> HIDE DEF pack, new
<1>3. new = [lang |-> l, dicts |-> pack.dicts, settings |-> pack.settings,
             cache |-> None, off |-> hd.off]
  BY <1>2 DEF Handle
<1>4. Handle(new)
  BY <1>1, <1>3, DiskFacts DEF Handle
<1>5. /\ Handle(new) /\ new.lang = l /\ new.off = hd.off /\ new.cache = None
      /\ new.dicts = Disk(l) /\ new.settings = DiskSettings(l)
  BY <1>1, <1>3, <1>4
<1> QED BY <1>5, Zenon DEF new

LEMMA SetSettingsFacts ==
  ASSUME NEW hd, Handle(hd), NEW l, NEW changes
  PROVE  LET new == SetSettings(hd, l, changes) IN
         /\ Handle(new) /\ new.lang = hd.lang /\ new.off = hd.off /\ new.dicts = hd.dicts
         /\ new.cache = None
         /\ hd.lang = l => new.settings = Over(changes, hd.settings)
<1> DEFINE settings == IF hd.lang = l THEN Over(changes, hd.settings) ELSE hd.settings
           new == SetSettings(hd, l, changes)
<1>0. new = [hd EXCEPT !.settings = settings, !.cache = None]
  BY Zenon DEF SetSettings
<1>2. hd.lang = l => settings = Over(changes, hd.settings)
  OBVIOUS
<1> HIDE DEF settings, new
<1>1. new = [lang |-> hd.lang, dicts |-> hd.dicts, settings |-> settings,
             cache |-> None, off |-> hd.off]
  BY <1>0 DEF Handle
<1>3. Handle(new)
  BY <1>1 DEF Handle
<1> QED BY <1>1, <1>2, <1>3 DEF new

\* A query makes a fresh listing, or keeps the one that is there.
LEMMA QueryDataFacts ==
  ASSUME NEW hd, Handle(hd), Fresh(hd), NEW kind, NEW l
  PROVE  LET new == QueryData(hd, kind, l) IN
         /\ Handle(new) /\ new.lang = hd.lang /\ new.off = hd.off /\ new.dicts = hd.dicts
         /\ Fresh(new)
<1> DEFINE new == QueryData(hd, kind, l)
           listing == [kind |-> kind, lang |-> l, list |-> GetDictRefs(hd, kind, l)]
<1>1. CASE new = hd
  BY <1>1
<1>2. CASE new = [hd EXCEPT !.cache = listing]
  <2>0. listing.kind = kind /\ listing.lang = l /\ listing.list = GetDictRefs(hd, kind, l)
    OBVIOUS
  <2> HIDE DEF listing, new
  <2>1. new = [lang |-> hd.lang, dicts |-> hd.dicts, settings |-> hd.settings,
               cache |-> listing, off |-> hd.off]
    BY <1>2 DEF Handle
  <2>2. Handle(new)
    BY <2>1 DEF Handle
  <2>3. GetDictRefs(new, kind, l) = GetDictRefs(hd, kind, l)
    BY <2>1 DEF GetDictRefs
  <2>4. Fresh(new)
    BY <2>0, <2>1, <2>3 DEF Fresh
  <2> QED BY <2>1, <2>2, <2>4 DEF new
<1>3. new = hd \/ new = [hd EXCEPT !.cache = listing]
  BY Zenon DEF QueryData
<1> QED BY <1>1, <1>2, <1>3

\* What is switched off is added to, nothing else.
LEMMA SwitchOffFacts ==
  ASSUME storedOff \in [Langs -> SUBSET Kinds], NEW hd, Handle(hd), NEW l \in Langs
  PROVE  LET new == SwitchOff(hd, l) IN
         /\ Handle(new) /\ new.lang = hd.lang /\ new.dicts = hd.dicts
         /\ new.settings = hd.settings /\ new.cache = hd.cache
         /\ new.off = [hd.off EXCEPT ![l] = @ \cup storedOff[l]]
<1> DEFINE new == SwitchOff(hd, l)
           off == [hd.off EXCEPT ![l] = @ \cup storedOff[l]]
<1>1. off \in [Langs -> SUBSET Kinds]
  <2>1. hd.off[l] \cup storedOff[l] \in SUBSET Kinds
    BY DEF Handle
  <2> QED BY <2>1 DEF Handle
<1>2. new = [lang |-> hd.lang, dicts |-> hd.dicts, settings |-> hd.settings,
             cache |-> hd.cache, off |-> off]
  BY DEF Handle, SwitchOff
<1> HIDE DEF new, off
<1>3. Handle(new)
  BY <1>1, <1>2 DEF Handle
<1>4. /\ new.lang = hd.lang /\ new.dicts = hd.dicts /\ new.settings = hd.settings
      /\ new.cache = hd.cache /\ new.off = off
  BY <1>2
<1> QED BY <1>3, <1>4, Zenon DEF new, off

OffOf(hd) == \A l \in Langs : hd.off[l] \subseteq storedOff[l]

\* Changes of a dictionary and what is switched off in a language, as the application
\* applies them to whatever is loaded.
LEMMA AppliedFacts ==
  ASSUME storedOff \in [Langs -> SUBSET Kinds],
         NEW hd, Handle(hd), OffOf(hd), Fresh(hd), NEW l \in Langs,
         NEW changes, IsFiniteSet(DOMAIN changes)
  PROVE  LET all == SetAll(hd, "pronounce", changes)
             new == SwitchOff(all, l)
         IN  /\ Handle(new) /\ new.lang = hd.lang /\ new.settings = hd.settings
             /\ OffOf(new) /\ new.off[l] = storedOff[l] /\ Fresh(new)
             /\ new.dicts = all.dicts
             /\ \A k \in Kinds \ {"pronounce"} : new.dicts[k] = hd.dicts[k]
             /\ \A v : v \notin DOMAIN changes =>
                   SameAt(v, new.dicts["pronounce"], hd.dicts["pronounce"])
<1> DEFINE all == SetAll(hd, "pronounce", changes)
           new == SwitchOff(all, l)
<1>1. /\ OnlyDict(hd, "pronounce", all)
      /\ \A v : v \notin DOMAIN changes => SameAt(v, all.dicts["pronounce"], hd.dicts["pronounce"])
  BY SetAllFacts DEF Kinds
<1> HIDE DEF all
<1>2. /\ Handle(new) /\ new.lang = all.lang /\ new.dicts = all.dicts
      /\ new.settings = all.settings /\ new.cache = all.cache
      /\ new.off = [all.off EXCEPT ![l] = @ \cup storedOff[l]]
  BY <1>1, SwitchOffFacts DEF OnlyDict
<1> HIDE DEF new
<1>3. Fresh(new)
  BY <1>1, <1>2 DEF Fresh, OnlyDict, GetDictRefs
<1>4. OffOf(new) /\ new.off[l] = storedOff[l]
  BY <1>1, <1>2 DEF OffOf, OnlyDict, Handle
<1>5. /\ Handle(new) /\ new.lang = hd.lang /\ new.settings = hd.settings
      /\ new.dicts = all.dicts
      /\ \A k \in Kinds \ {"pronounce"} : new.dicts[k] = hd.dicts[k]
  BY <1>1, <1>2 DEF OnlyDict
<1>6. \A v : v \notin DOMAIN changes =>
         SameAt(v, new.dicts["pronounce"], hd.dicts["pronounce"])
  BY <1>1, <1>5
<1> QED BY <1>3, <1>4, <1>5, <1>6, Zenon DEF all, new

-----------------------------------------------------------------------------
(* The inductive invariant.                                                *)

\* The changes of a dictionary are finitely many.
StoredIsFinite ==
    /\ stored = [k \in Kinds |-> [l \in Langs |-> stored[k][l]]]
    /\ \A k \in Kinds, l \in Langs : IsFiniteSet(DOMAIN stored[k][l])

\* What is switched off in the handle is stored.
OffIsStored ==
    /\ storedOff \in [Langs -> SUBSET Kinds]
    /\ \A l \in Langs : h.off[l] \subseteq storedOff[l]

EditorOK ==
    editor # None =>
        /\ editor = [kind |-> editor.kind, lang |-> editor.lang, search |-> editor.search,
                     loaded |-> editor.loaded, total |-> editor.total, shown |-> editor.shown]
        /\ editor.kind \in Kinds /\ editor.lang \in Langs

DInv == /\ files \in InitFiles /\ selected \in Langs
        /\ Handle(h)
        /\ StoredIsFinite
        /\ OffIsStored
        /\ EditorOK
        /\ ListingIsFresh

\* A language is loaded and everything stored for it applied.
LEMMA ReloadFacts ==
  ASSUME files \in InitFiles, StoredIsFinite, storedOff \in [Langs -> SUBSET Kinds],
         NEW hd, Handle(hd), OffOf(hd), NEW l \in Langs, NEW changes
  PROVE  LET new == ReloadWith(hd, l, changes) IN
         /\ Handle(new) /\ Fresh(new) /\ OffOf(new) /\ new.lang = l
         /\ new.settings = Over(changes, GetEffectiveSettings(files, l))
         /\ new.dicts["pronounce"] = AsEdited(l)
         /\ new.off[l] = storedOff[l]
<1> DEFINE pack == SetLanguage(hd, l)
           set == SetSettings(pack, l, changes)
           texts == stored["pronounce"][l]
           all == SetAll(set, "pronounce", texts)
           new == SwitchOff(all, l)
           disk == Disk(l)["pronounce"]
<1>1. /\ Handle(pack) /\ pack.lang = l /\ pack.off = hd.off /\ pack.dicts = Disk(l)
      /\ pack.settings = GetEffectiveSettings(files, l)
  <2>1. DiskSettings(l) = GetEffectiveSettings(files, l)
    BY PackFacts DEF DiskSettings
  <2> QED BY <2>1, SetLanguageFacts
<1> HIDE DEF pack
<1>2. /\ Handle(set) /\ set.lang = l /\ set.off = hd.off /\ set.dicts = Disk(l)
      /\ set.cache = None /\ set.settings = Over(changes, GetEffectiveSettings(files, l))
  BY <1>1, SetSettingsFacts
<1> HIDE DEF set
<1>3. IsFiniteSet(DOMAIN texts)
  BY DEF StoredIsFinite, Kinds
<1>4. Fresh(set) /\ OffOf(set)
  BY <1>2 DEF Fresh, OffOf
<1> HIDE DEF texts
<1>5. /\ Handle(new) /\ new.lang = set.lang /\ new.settings = set.settings /\ Fresh(new)
      /\ OffOf(new) /\ new.off[l] = storedOff[l] /\ new.dicts = all.dicts
  BY <1>2, <1>3, <1>4, AppliedFacts
<1>6. set.dicts["pronounce"] = disk /\ disk = [x \in DOMAIN disk |-> disk[x]]
  BY <1>2, DiskFacts
<1> HIDE DEF disk
<1>7. all.dicts["pronounce"] = Edited(disk, texts, DOMAIN texts)
  BY <1>2, <1>3, <1>6, SetAllEdits
<1>8. Edited(disk, texts, DOMAIN texts) = AsEdited(l)
  BY Zenon DEF Edited, AsEdited, disk, texts, Disk
<1>9. ReloadWith(hd, l, changes) = new
  BY Zenon DEF ReloadWith, Reapply, pack, set, texts
<1> HIDE DEF new, all
<1> QED BY <1>2, <1>5, <1>7, <1>8, <1>9

\* The next text is spoken with the files and the stored changes.
LEMMA SpokenFacts == DInv => SpokenAsEdited
<1> SUFFICES ASSUME DInv PROVE SpokenAsEdited
  OBVIOUS
<1>1. /\ files \in InitFiles /\ StoredIsFinite /\ storedOff \in [Langs -> SUBSET Kinds]
      /\ Handle(h) /\ OffOf(h) /\ selected \in Langs
  BY DEF DInv, OffIsStored, OffOf
<1> DEFINE new == ReloadWith(h, selected, storedSettings[selected])
<1>2. new.dicts["pronounce"] = AsEdited(selected) /\ new.off[selected] = storedOff[selected]
  BY <1>1, ReloadFacts
<1> QED BY <1>2 DEF SpokenAsEdited, Reload

\* What the editors read for themselves is what is spoken.
LEMMA BrowsedFacts == DInv => BrowsedAsSpoken
<1> SUFFICES ASSUME DInv PROVE BrowsedAsSpoken
  OBVIOUS
<1>1. /\ files \in InitFiles /\ StoredIsFinite /\ storedOff \in [Langs -> SUBSET Kinds]
      /\ Handle(h) /\ OffOf(h) /\ selected \in Langs
  BY DEF DInv, OffIsStored, OffOf
<1>2. Reload(h, selected).settings =
          Over(storedSettings[selected], GetEffectiveSettings(files, selected))
  BY <1>1, ReloadFacts DEF Reload
<1>3. ASSUME NEW l \in Langs, NEW over \in BOOLEAN, NEW kind \in Kinds \ {"stress"}
      PROVE  LoadDictFiles(files, over, l)[kind] = PackDicts(files, over, l)[kind]
  <2>1. (kind # "stress") = TRUE
    BY <1>3
  <2>2. MainDict(files, over, l, kind, kind # "stress") = MainDict(files, over, l, kind, TRUE)
    BY <2>1, Zenon
  <2> QED BY <2>2 DEF LoadDictFiles, PackDicts
<1>4. ASSUME NEW l \in Langs, NEW rule \in ToSet(LoadPackSet(files, FALSE, l).rules),
             rule.to \in DOMAIN files.phonemes
      PROVE  rule.to \in DOMAIN BuildPhonemesCache(files, l)
  <2>1. LoadPackSet(files, FALSE, l).rules \in Seq(ChainRules(files, l))
    BY <1>1, PackFacts
  <2>2. rule \in ChainRules(files, l)
    <3> DEFINE rules == LoadPackSet(files, FALSE, l).rules
               set == ChainRules(files, l)
    <3>1. rules \in Seq(set) /\ rule \in ToSet(rules)
      BY <2>1
    <3> HIDE DEF rules, set
    <3> QED BY <3>1 DEF ToSet, set
  <2>3. PICK name \in ToSet(Chain(l)) : rule \in RulesOf(files, name)
    BY <2>2 DEF ChainRules
  <2>4. rule.to \in CollectReplacementTargets(files, l)
    BY <2>3 DEF RulesOf, CollectReplacementTargets
  <2> QED BY <1>4, <2>4 DEF BuildPhonemesCache
<1> QED BY <1>2, <1>3, <1>4 DEF BrowsedAsSpoken

-----------------------------------------------------------------------------
(* Every step keeps the invariant.                                         *)

LEMMA InitDInv == Init => DInv
<1> SUFFICES ASSUME Init PROVE DInv
  OBVIOUS
<1>1. Handle(NewHandle)
  BY DEF Handle, NewHandle
<1>2. Handle(h) /\ h.cache = None /\ h.off = NewHandle.off
  BY <1>1, SetLanguageFacts DEF Init
<1>3. StoredIsFinite
  <2>1. DOMAIN Empty = {}
    BY DEF Empty
  <2>2. IsFiniteSet({})
    BY FS_EmptySet
  <2> QED BY <2>1, <2>2 DEF Init, StoredIsFinite
<1>4. OffIsStored
  BY <1>2 DEF Init, OffIsStored, NewHandle
<1>5. EditorOK /\ ListingIsFresh
  BY <1>2 DEF Init, EditorOK, ListingIsFresh
<1> QED BY <1>2, <1>3, <1>4, <1>5 DEF Init, DInv

\* What is left to show of a step: the handle, and what it changes of the rest.
LEMMA StepDInv ==
  ASSUME DInv, UNCHANGED files, selected' \in Langs, Handle(h'), Fresh(h'),
         StoredIsFinite', OffIsStored', EditorOK'
  PROVE  DInv'
<1>1. ListingIsFresh'
  BY DEF ListingIsFresh, Fresh, GetDictRefs
<1> QED BY <1>1 DEF DInv, Handle

\* A dictionary's changes are replaced by others.
Replaced(kind, l, new) == [stored EXCEPT ![kind][l] = new]

LEMMA StoreFacts ==
  ASSUME StoredIsFinite, NEW kind \in Kinds, NEW l \in Langs, NEW new,
         IsFiniteSet(DOMAIN new), stored' = Replaced(kind, l, new)
  PROVE  /\ StoredIsFinite'
         /\ stored'[kind][l] = new
         /\ \A k \in Kinds, m \in Langs : k # kind \/ m # l => stored'[k][m] = stored[k][m]
<1>1. \A k \in Kinds, m \in Langs :
         stored'[k][m] = IF k = kind /\ m = l THEN new ELSE stored[k][m]
  BY DEF StoredIsFinite, Replaced
<1>2. stored' = [k \in Kinds |-> [m \in Langs |-> stored'[k][m]]]
  BY DEF StoredIsFinite, Replaced
<1>3. \A k \in Kinds, m \in Langs : IsFiniteSet(DOMAIN stored'[k][m])
  BY <1>1 DEF StoredIsFinite
<1> QED BY <1>1, <1>2, <1>3 DEF StoredIsFinite

LEMMA OverIsFinite ==
  ASSUME NEW upper, NEW lower, IsFiniteSet(DOMAIN upper), IsFiniteSet(DOMAIN lower)
  PROVE  IsFiniteSet(DOMAIN Over(upper, lower))
<1>1. DOMAIN Over(upper, lower) = DOMAIN upper \cup DOMAIN lower
  BY DEF Over
<1> QED BY <1>1, FS_Union

\* The screen lists what the handle holds.
LEMMA RelistFacts ==
  ASSUME DInv, editor # None, NEW hd, Handle(hd), Fresh(hd), Relist(hd)
  PROVE  /\ Handle(h') /\ Fresh(h') /\ h'.lang = hd.lang /\ h'.off = hd.off
         /\ h'.dicts = hd.dicts
         /\ EditorOK'
<1>1. h' = QueryData(hd, editor.kind, editor.lang)
  BY DEF Relist
<1>2. EditorOK'
  <2>1. PICK total, shown : editor' = [editor EXCEPT !.total = total, !.shown = shown]
    BY DEF Relist
  <2> QED BY <2>1 DEF DInv, EditorOK
<1> QED BY <1>1, <1>2, QueryDataFacts

\* A language loaded anew, with what is left of its changes.
LEMMA RevertedFacts ==
  ASSUME DInv, StoredIsFinite', NEW l \in Langs
  PROVE  LET new == Reverted(l) IN
         /\ Handle(new) /\ Fresh(new) /\ OffOf(new) /\ new.lang = l
         /\ \A k \in Kinds : \A v : v \notin DOMAIN stored'[k][l] =>
               SameAt(v, new.dicts[k], Disk(l)[k])
<1> DEFINE pack == SetLanguage(h, l)
           left == stored'["pronounce"][l]
           new == SwitchOff(SetAll(pack, "pronounce", left), l)
<1>1. /\ Handle(pack) /\ pack.lang = l /\ pack.off = h.off /\ pack.cache = None
      /\ pack.dicts = Disk(l)
  BY SetLanguageFacts DEF DInv
<1> HIDE DEF pack
<1>2. IsFiniteSet(DOMAIN left) /\ storedOff \in [Langs -> SUBSET Kinds]
  BY DEF StoredIsFinite, Kinds, DInv, OffIsStored
<1>3. Fresh(pack) /\ OffOf(pack)
  BY <1>1 DEF Fresh, OffOf, DInv, OffIsStored
<1> HIDE DEF left
<1>4. /\ Handle(new) /\ new.lang = l /\ Fresh(new) /\ OffOf(new)
      /\ \A k \in Kinds \ {"pronounce"} : new.dicts[k] = pack.dicts[k]
      /\ \A v : v \notin DOMAIN left =>
            SameAt(v, new.dicts["pronounce"], pack.dicts["pronounce"])
  BY <1>1, <1>2, <1>3, AppliedFacts
<1>5. Reverted(l) = new
  BY Zenon DEF Reverted, pack, left
<1> HIDE DEF new
<1>6. ASSUME NEW k \in Kinds, NEW v, v \notin DOMAIN stored'[k][l]
      PROVE  SameAt(v, new.dicts[k], Disk(l)[k])
  BY <1>1, <1>4, <1>6 DEF SameAt, left
<1> QED BY <1>4, <1>5, <1>6

\* Steps that leave what is stored alone.
LEMMA HandleStep ==
  ASSUME DInv, UNCHANGED <<files, prefs>>, selected' \in Langs,
         Handle(h'), Fresh(h'), OffOf(h'), EditorOK'
  PROVE  DInv'
<1>1. StoredIsFinite' /\ OffIsStored'
  BY DEF DInv, StoredIsFinite, OffIsStored, OffOf, prefs
<1> QED BY <1>1, StepDInv

LEMMA HandleOfDInv ==
  ASSUME DInv
  PROVE  /\ Handle(h) /\ Fresh(h) /\ OffOf(h) /\ files \in InitFiles /\ selected \in Langs
         /\ StoredIsFinite /\ storedOff \in [Langs -> SUBSET Kinds]
         /\ \A l \in Langs : IsFiniteSet(DOMAIN stored["pronounce"][l])
BY DEF DInv, Fresh, ListingIsFresh, OffOf, OffIsStored, StoredIsFinite, Kinds

\* Loading: what was in the handle before does not matter but for what is switched off.
LEMMA LoadingDInv ==
  ASSUME DInv, Restart \/ OnLanguageSelected \/ Speak PROVE DInv'
<1>1. /\ Handle(h) /\ OffOf(h) /\ files \in InitFiles /\ selected \in Langs
      /\ StoredIsFinite /\ storedOff \in [Langs -> SUBSET Kinds]
  BY HandleOfDInv
<1>2. Handle(NewHandle) /\ OffOf(NewHandle)
  BY DEF Handle, NewHandle, OffOf
<1>3. CASE Restart
  <2>1. Handle(h') /\ Fresh(h') /\ OffOf(h')
    BY <1>1, <1>2, <1>3, ReloadFacts DEF Restart, Reload
  <2> QED BY <1>1, <1>3, <2>1, HandleStep DEF Restart, EditorOK, prefs
<1>4. CASE OnLanguageSelected
  <2>0. selected' \in Langs
    BY <1>4 DEF OnLanguageSelected
  <2>1. Handle(h') /\ Fresh(h') /\ OffOf(h')
    BY <1>1, <1>4, <2>0, ReloadFacts DEF OnLanguageSelected, Reload
  <2> QED BY <1>4, <2>0, <2>1, HandleStep DEF OnLanguageSelected, EditorOK, prefs
<1>5. CASE Speak
  <2>1. Handle(h') /\ Fresh(h') /\ OffOf(h')
    BY <1>1, <1>5, ReloadFacts DEF Speak, Reload
  <2>2. EditorOK'
    BY <1>5 DEF Speak, EditorOK, DInv
  <2> QED BY <1>1, <1>5, <2>1, <2>2, HandleStep DEF Speak, prefs
<1> QED BY <1>3, <1>4, <1>5

LEMMA OpenDictionaryDInv == ASSUME DInv, OpenDictionary PROVE DInv'
<1>1. PICK kind \in Kinds, l \in Langs, search \in Searches :
         LET q == QueryData(Reapply(h, l), kind, l) IN
         /\ h' = q
         /\ editor' = [kind |-> kind, lang |-> l, search |-> search, loaded |-> Page,
                       total |-> CountDictionaryMatches(q.cache.list, search),
                       shown |-> SerializeDictionary(q.cache.list, search, 0)]
  BY DEF OpenDictionary
<1>2. Handle(Reapply(h, l)) /\ Fresh(Reapply(h, l)) /\ OffOf(Reapply(h, l))
  BY HandleOfDInv, AppliedFacts DEF Reapply
<1>3. Handle(h') /\ Fresh(h') /\ OffOf(h')
  BY <1>1, <1>2, QueryDataFacts DEF OffOf
<1>4. EditorOK'
  BY <1>1 DEF EditorOK
<1>5. UNCHANGED <<files, prefs, selected>>
  BY DEF OpenDictionary
<1> QED BY <1>3, <1>4, <1>5, HandleStep DEF DInv

LEMMA LoadMoreDInv == ASSUME DInv, LoadMore PROVE DInv'
<1>1. Handle(h') /\ Fresh(h') /\ OffOf(h')
  BY HandleOfDInv, QueryDataFacts DEF LoadMore, OffOf
<1>2. EditorOK'
  <2>1. PICK loaded, total, shown :
           editor' = [editor EXCEPT !.loaded = loaded, !.total = total, !.shown = shown]
    BY DEF LoadMore
  <2> QED BY <2>1 DEF DInv, EditorOK, LoadMore
<1>3. UNCHANGED <<files, prefs, selected>>
  BY DEF LoadMore
<1> QED BY <1>1, <1>2, <1>3, HandleStep DEF DInv

\* A change of a dictionary: what is stored, and the handle the screen lists.
LEMMA EditDInv ==
  ASSUME DInv, editor # None, UNCHANGED <<files, storedOff, selected>>,
         NEW hd, Handle(hd), Fresh(hd), OffOf(hd), Relist(hd), StoredIsFinite'
  PROVE  DInv'
<1>1. Handle(h') /\ Fresh(h') /\ h'.off = hd.off /\ EditorOK'
  BY RelistFacts
<1>2. OffIsStored'
  BY <1>1 DEF OffIsStored, OffOf, DInv
<1> QED BY <1>1, <1>2, StepDInv DEF DInv

\* Changes that are stored and made in the loaded pack.
LEMMA StoreDInv ==
  ASSUME DInv, editor # None, UNCHANGED <<files, storedOff, selected>>,
         NEW hd, Handle(hd), Fresh(hd), OffOf(hd), Relist(hd),
         NEW changes, IsFiniteSet(DOMAIN changes), Store(changes)
  PROVE  DInv'
<1>1. editor.kind \in Kinds /\ editor.lang \in Langs
  BY DEF DInv, EditorOK
<1> DEFINE old == stored[editor.kind][editor.lang]
<1>2. IsFiniteSet(DOMAIN Over(changes, old))
  BY <1>1, OverIsFinite DEF DInv, StoredIsFinite
<1>3. stored' = Replaced(editor.kind, editor.lang, Over(changes, old))
  BY DEF Store, Replaced
<1>4. StoredIsFinite'
  <2> HIDE DEF old
  <2> QED BY <1>1, <1>2, <1>3, StoreFacts DEF DInv
<1> QED BY <1>4, EditDInv

LEMMA OnlyDictKeeps ==
  ASSUME NEW hd, Handle(hd), Fresh(hd), OffOf(hd), NEW kind, NEW new, OnlyDict(hd, kind, new)
  PROVE  Handle(new) /\ Fresh(new) /\ OffOf(new)
BY DEF OnlyDict, Fresh, OffOf

\* The changes the screen makes are finitely many.
LEMMA FewChanges ==
  /\ \A w, change : IsFiniteSet(DOMAIN One(w, change))
  /\ \A ws \in SUBSET Words : \A change : IsFiniteSet(DOMAIN [w \in ws |-> change])
<1>1. \A w, change : DOMAIN One(w, change) = {w}
  BY DEF One
<1>2. \A ws \in SUBSET Words : IsFiniteSet(ws)
  BY DataAssumption, FS_Subset
<1>3. \A ws, change : DOMAIN [w \in ws |-> change] = ws
  OBVIOUS
<1>4. \A w : IsFiniteSet({w})
  BY FS_Singleton
<1>5. \A w, change : IsFiniteSet(DOMAIN One(w, change))
  BY <1>1, <1>4, Zenon
<1>6. \A ws \in SUBSET Words : \A change : IsFiniteSet(DOMAIN [w \in ws |-> change])
  BY <1>2, <1>3, Zenon
<1> QED BY <1>5, <1>6

LEMMA AddEntryDInv == ASSUME DInv, AddEntry PROVE DInv'
<1>1. PICK w \in Words, t \in Texts :
         Store(One(w, Text(t))) /\ Relist(SetDictionary(h, editor.kind, w, Text(t)))
  BY DEF AddEntry
<1> DEFINE hd == SetDictionary(h, editor.kind, w, Text(t))
<1>2. editor # None /\ UNCHANGED <<files, storedOff, selected>> /\ editor.kind \in Kinds
  BY DEF AddEntry, Edit, DInv, EditorOK
<1>3. Handle(hd) /\ Fresh(hd) /\ OffOf(hd)
  BY <1>2, HandleOfDInv, SetDictionaryFacts, OnlyDictKeeps
<1> HIDE DEF hd
<1>4. Relist(hd)
  BY <1>1 DEF hd
<1> QED BY <1>1, <1>2, <1>3, <1>4, FewChanges, StoreDInv

LEMMA MaskEntryDInv == ASSUME DInv, MaskEntry PROVE DInv'
<1>1. PICK w, change : Store(One(w, change)) /\ Relist(SetDictionary(h, editor.kind, w, change))
  BY DEF MaskEntry
<1> DEFINE hd == SetDictionary(h, editor.kind, w, change)
<1>2. editor # None /\ UNCHANGED <<files, storedOff, selected>> /\ editor.kind \in Kinds
  BY DEF MaskEntry, Edit, DInv, EditorOK
<1>3. Handle(hd) /\ Fresh(hd) /\ OffOf(hd)
  BY <1>2, HandleOfDInv, SetDictionaryFacts, OnlyDictKeeps
<1> HIDE DEF hd
<1>4. Relist(hd)
  BY <1>1 DEF hd
<1> QED BY <1>1, <1>2, <1>3, <1>4, FewChanges, StoreDInv

LEMMA MaskCategoryDInv == ASSUME DInv, MaskCategory PROVE DInv'
<1>1. PICK changes : /\ IsFiniteSet(DOMAIN changes)
                     /\ Store(changes) /\ Relist(SetAll(h, "pronounce", changes))
  <2>1. PICK masked \in BOOLEAN, category \in (SUBSET Words) \ {{}} :
           LET ws == Shown(LAMBDA e : e.masked # masked) \cap category
               changes == [w \in ws |-> Mask(masked)]
           IN  Store(changes) /\ Relist(SetAll(h, "pronounce", changes))
    BY DEF MaskCategory
  <2> DEFINE ws == Shown(LAMBDA e : e.masked # masked) \cap category
  <2>2. ws \in SUBSET Words
    OBVIOUS
  <2> HIDE DEF ws
  <2>3. IsFiniteSet(DOMAIN [w \in ws |-> Mask(masked)])
    BY <2>2, FewChanges
  <2> QED BY <2>1, <2>3 DEF ws
<1> DEFINE hd == SetAll(h, "pronounce", changes)
<1>2. editor # None /\ UNCHANGED <<files, storedOff, selected>>
  BY DEF MaskCategory, Edit
<1>3. Handle(hd) /\ Fresh(hd) /\ OffOf(hd)
  <2>1. OnlyDict(h, "pronounce", hd)
    BY <1>1, HandleOfDInv, SetAllFacts DEF Kinds
  <2> HIDE DEF hd
  <2> QED BY <2>1, HandleOfDInv, OnlyDictKeeps
<1> HIDE DEF hd
<1>4. Relist(hd)
  BY <1>1 DEF hd
<1> QED BY <1>1, <1>2, <1>3, <1>4, StoreDInv

-----------------------------------------------------------------------------
(* Changes that are forgotten.                                             *)

\* What a step forgets, the loaded pack has as the files do.
Reverts ==
    \A l \in Langs, kind \in Kinds :
        \A w \in DOMAIN stored[kind][l] \ DOMAIN stored'[kind][l] :
            h'.lang = l /\ SameAt(w, h'.dicts[kind], Disk(l)[kind])

\* The changes of one dictionary are replaced by new ones, those of some words left out.
LEMMA ForgetFacts ==
  ASSUME DInv, editor # None, NEW ws, NEW new, IsFiniteSet(DOMAIN new),
         DOMAIN stored[editor.kind][editor.lang] \ ws \subseteq DOMAIN new,
         stored' = Replaced(editor.kind, editor.lang, new)
  PROVE  /\ StoredIsFinite'
         /\ \A k \in Kinds, l \in Langs : \A w :
               w \in DOMAIN stored[k][l] /\ w \notin DOMAIN stored'[k][l] =>
                  k = editor.kind /\ l = editor.lang /\ w \in ws /\ w \notin DOMAIN new
<1>1. editor.kind \in Kinds /\ editor.lang \in Langs
  BY DEF DInv, EditorOK
<1>2. StoredIsFinite
  BY DEF DInv
<1>3. /\ StoredIsFinite' /\ stored'[editor.kind][editor.lang] = new
      /\ \A k \in Kinds, l \in Langs :
            k # editor.kind \/ l # editor.lang => stored'[k][l] = stored[k][l]
  BY <1>1, <1>2, StoreFacts
<1>4. ASSUME NEW k \in Kinds, NEW l \in Langs, NEW w \in DOMAIN stored[k][l],
             w \notin DOMAIN stored'[k][l]
      PROVE  k = editor.kind /\ l = editor.lang /\ w \in ws /\ w \notin DOMAIN new
  <2>1. k = editor.kind /\ l = editor.lang
    BY <1>3, <1>4
  <2> QED BY <1>3, <1>4, <2>1
<1> QED BY <1>3, <1>4

\* A step that forgets changes loads the language anew, unless there are none.
LEMMA ForgetStep ==
  ASSUME DInv, editor # None, UNCHANGED <<files, storedOff, selected>>,
         NEW ws, NEW new, IsFiniteSet(DOMAIN new),
         DOMAIN stored[editor.kind][editor.lang] \ ws \subseteq DOMAIN new,
         stored' = Replaced(editor.kind, editor.lang, new),
         NEW hd, Handle(hd), Fresh(hd), OffOf(hd), Relist(hd),
         ws # {} => hd.lang = editor.lang,
         \A v : ws # {} /\ v \notin DOMAIN new =>
             SameAt(v, hd.dicts[editor.kind], Disk(editor.lang)[editor.kind])
  PROVE  DInv' /\ Reverts
<1>1. /\ StoredIsFinite'
      /\ \A k \in Kinds, l \in Langs : \A w :
            w \in DOMAIN stored[k][l] /\ w \notin DOMAIN stored'[k][l] =>
               k = editor.kind /\ l = editor.lang /\ w \in ws /\ w \notin DOMAIN new
  BY ForgetFacts
<1>2. DInv'
  BY <1>1, EditDInv
<1>3. h'.lang = hd.lang /\ h'.dicts = hd.dicts
  BY RelistFacts
<1>4. ASSUME NEW l \in Langs, NEW k \in Kinds,
             NEW w \in DOMAIN stored[k][l] \ DOMAIN stored'[k][l]
      PROVE  h'.lang = l /\ SameAt(w, h'.dicts[k], Disk(l)[k])
  <2>1. k = editor.kind /\ l = editor.lang /\ ws # {} /\ w \notin DOMAIN new
    BY <1>1
  <2>2. hd.lang = l /\ SameAt(w, hd.dicts[k], Disk(l)[k])
    BY <2>1
  <2> QED BY <1>3, <2>2
<1>5. Reverts
  BY <1>4 DEF Reverts
<1> QED BY <1>2, <1>5

\* What is left of the changes of the screen's dictionary.
Left(ws) == LET old == stored[editor.kind][editor.lang] IN [w \in DOMAIN old \ ws |-> old[w]]

LEMMA LeftFacts ==
  ASSUME DInv, editor # None, NEW ws
  PROVE  /\ editor.kind \in Kinds /\ editor.lang \in Langs
         /\ DOMAIN Left(ws) = DOMAIN stored[editor.kind][editor.lang] \ ws
         /\ IsFiniteSet(DOMAIN Left(ws))
<1> DEFINE old == DOMAIN stored[editor.kind][editor.lang]
<1>1. editor.kind \in Kinds /\ editor.lang \in Langs
  BY DEF DInv, EditorOK
<1>2. IsFiniteSet(old)
  BY <1>1 DEF DInv, StoredIsFinite
<1>3. DOMAIN Left(ws) = old \ ws
  BY DEF Left
<1> HIDE DEF old
<1>4. IsFiniteSet(old \ ws)
  BY <1>2, FS_Subset
<1> QED BY <1>1, <1>3, <1>4 DEF old

LEMMA DeleteEntryStep == ASSUME DInv, DeleteEntry PROVE DInv' /\ Reverts
<1>0. editor # None /\ UNCHANGED <<files, storedOff, selected>>
  BY DEF DeleteEntry, Edit
<1>1. PICK w : /\ stored' = [stored EXCEPT ![editor.kind][editor.lang] =
                                [v \in DOMAIN @ \ {w} |-> @[v]]]
               /\ Relist(Reverted(editor.lang))
  BY DEF DeleteEntry, DeleteEntries
<1> DEFINE new == Left({w})
           hd == Reverted(editor.lang)
<1>2. stored' = Replaced(editor.kind, editor.lang, new)
  BY <1>1 DEF Left, Replaced
<1>3. /\ editor.kind \in Kinds /\ editor.lang \in Langs
      /\ DOMAIN new = DOMAIN stored[editor.kind][editor.lang] \ {w} /\ IsFiniteSet(DOMAIN new)
  BY <1>0, LeftFacts
<1> HIDE DEF new
<1>4. StoredIsFinite' /\ stored'[editor.kind][editor.lang] = new
  BY <1>2, <1>3, StoreFacts DEF DInv
<1>5. /\ Handle(hd) /\ Fresh(hd) /\ OffOf(hd) /\ hd.lang = editor.lang
      /\ \A v : v \notin DOMAIN new =>
            SameAt(v, hd.dicts[editor.kind], Disk(editor.lang)[editor.kind])
  BY <1>3, <1>4, RevertedFacts
<1>6. Relist(hd)
  BY <1>1
<1> HIDE DEF hd
<1>7. DOMAIN stored[editor.kind][editor.lang] \ {w} \subseteq DOMAIN new
  BY <1>3
<1> QED BY <1>0, <1>2, <1>3, <1>5, <1>6, <1>7, ForgetStep

LEMMA RenameEntryStep == ASSUME DInv, RenameEntry PROVE DInv' /\ Reverts
<1>0. editor # None /\ UNCHANGED <<files, storedOff, selected>>
  BY DEF RenameEntry, Edit
<1>1. PICK v, w, change :
         /\ stored' = [stored EXCEPT ![editor.kind][editor.lang] =
               Over(One(w, change), [x \in DOMAIN @ \ {v} |-> @[x]])]
         /\ Relist(SetDictionary(Reverted(editor.lang), editor.kind, w, change))
  BY DEF RenameEntry
<1> DEFINE new == Over(One(w, change), Left({v}))
           back == Reverted(editor.lang)
           hd == SetDictionary(back, editor.kind, w, change)
<1>2. stored' = Replaced(editor.kind, editor.lang, new)
  BY <1>1 DEF Left, Replaced
<1>3. /\ editor.kind \in Kinds /\ editor.lang \in Langs
      /\ DOMAIN Left({v}) = DOMAIN stored[editor.kind][editor.lang] \ {v}
      /\ IsFiniteSet(DOMAIN Left({v}))
  BY <1>0, LeftFacts
<1>4. IsFiniteSet(DOMAIN new)
  BY <1>3, FewChanges, OverIsFinite
<1>5. DOMAIN new = {w} \cup DOMAIN Left({v})
  BY DEF Over, One
<1> HIDE DEF new
<1>6. StoredIsFinite' /\ stored'[editor.kind][editor.lang] = new
  BY <1>2, <1>3, <1>4, StoreFacts DEF DInv
<1>7. /\ Handle(back) /\ Fresh(back) /\ OffOf(back) /\ back.lang = editor.lang
      /\ \A x : x \notin DOMAIN new =>
            SameAt(x, back.dicts[editor.kind], Disk(editor.lang)[editor.kind])
  BY <1>3, <1>6, RevertedFacts
<1> HIDE DEF back
<1>8. OnlyDict(back, editor.kind, hd)
  BY <1>3, <1>7, SetDictionaryFacts
<1>9. \A x : x # w => SameAt(x, hd.dicts[editor.kind], back.dicts[editor.kind])
  BY <1>3, <1>7, OtherWordStays
<1>10. Relist(hd)
  BY <1>1 DEF back
<1> HIDE DEF hd
<1>11. Handle(hd) /\ Fresh(hd) /\ OffOf(hd) /\ hd.lang = editor.lang
  BY <1>7, <1>8, OnlyDictKeeps DEF OnlyDict
<1>12. \A x : x \notin DOMAIN new =>
          SameAt(x, hd.dicts[editor.kind], Disk(editor.lang)[editor.kind])
  BY <1>5, <1>7, <1>9 DEF SameAt
<1>13. DOMAIN stored[editor.kind][editor.lang] \ {v} \subseteq DOMAIN new
  BY <1>3, <1>5
<1> QED BY <1>0, <1>2, <1>4, <1>10, <1>11, <1>12, <1>13, ForgetStep

LEMMA RemoveChangedStep == ASSUME DInv, RemoveChanged PROVE DInv' /\ Reverts
<1>0. editor # None /\ UNCHANGED <<files, storedOff, selected>>
  BY DEF RemoveChanged, Edit
<1>1. PICK users, changes :
         /\ IsFiniteSet(DOMAIN changes)
         /\ stored' = [stored EXCEPT ![editor.kind][editor.lang] =
               Over(changes, [w \in DOMAIN @ \ users |-> @[w]])]
         /\ Relist(SetAll(IF users = {} THEN h ELSE Reverted(editor.lang),
                          editor.kind, changes))
  <2> DEFINE us == Shown(LAMBDA e : e.source = "user")
             ms == Shown(LAMBDA e : e.source = "main" /\ e.masked)
             cs == [w \in ms |-> Mask(FALSE)]
  <2>1. IsFiniteSet(DOMAIN cs)
    <3>1. ms \in SUBSET Words
      BY DEF Shown
    <3> HIDE DEF ms
    <3> QED BY <3>1, FewChanges
  <2>2. /\ stored' = [stored EXCEPT ![editor.kind][editor.lang] =
               Over(cs, [w \in DOMAIN @ \ us |-> @[w]])]
        /\ Relist(SetAll(IF us = {} THEN h ELSE Reverted(editor.lang), editor.kind, cs))
    BY Zenon DEF RemoveChanged
  <2> HIDE DEF us, ms, cs
  <2> QED BY <2>1, <2>2
<1> DEFINE new == Over(changes, Left(users))
           back == IF users = {} THEN h ELSE Reverted(editor.lang)
           hd == SetAll(back, editor.kind, changes)
<1>2. stored' = Replaced(editor.kind, editor.lang, new)
  BY <1>1 DEF Left, Replaced
<1>3. /\ editor.kind \in Kinds /\ editor.lang \in Langs
      /\ DOMAIN Left(users) = DOMAIN stored[editor.kind][editor.lang] \ users
      /\ IsFiniteSet(DOMAIN Left(users))
  BY <1>0, LeftFacts
<1>4. IsFiniteSet(DOMAIN new)
  BY <1>1, <1>3, OverIsFinite
<1>5. DOMAIN new = DOMAIN changes \cup DOMAIN Left(users)
  BY DEF Over
<1> HIDE DEF new
<1>6. StoredIsFinite' /\ stored'[editor.kind][editor.lang] = new
  BY <1>2, <1>3, <1>4, StoreFacts DEF DInv
<1>7. /\ Handle(back) /\ Fresh(back) /\ OffOf(back)
      /\ users # {} => back.lang = editor.lang
      /\ \A x : users # {} /\ x \notin DOMAIN new =>
            SameAt(x, back.dicts[editor.kind], Disk(editor.lang)[editor.kind])
  <2>1. CASE users = {}
    BY <2>1, HandleOfDInv
  <2>2. CASE users # {}
    <3>1. back = Reverted(editor.lang)
      BY <2>2
    <3> HIDE DEF back
    <3> QED BY <3>1, <1>3, <1>6, RevertedFacts
  <2> QED BY <2>1, <2>2
<1> HIDE DEF back
<1>8. /\ OnlyDict(back, editor.kind, hd)
      /\ \A x : x \notin DOMAIN changes =>
            SameAt(x, hd.dicts[editor.kind], back.dicts[editor.kind])
  BY <1>1, <1>3, <1>7, SetAllFacts
<1>9. Relist(hd)
  BY <1>1 DEF back
<1> HIDE DEF hd
<1>10. Handle(hd) /\ Fresh(hd) /\ OffOf(hd) /\ hd.lang = back.lang
  BY <1>7, <1>8, OnlyDictKeeps DEF OnlyDict
<1>11. \A x : users # {} /\ x \notin DOMAIN new =>
          SameAt(x, hd.dicts[editor.kind], Disk(editor.lang)[editor.kind])
  BY <1>5, <1>7, <1>8 DEF SameAt
<1>12. DOMAIN stored[editor.kind][editor.lang] \ users \subseteq DOMAIN new
  BY <1>3, <1>5
<1>13. users # {} => hd.lang = editor.lang
  BY <1>7, <1>10
<1> QED BY <1>0, <1>2, <1>4, <1>9, <1>10, <1>11, <1>12, <1>13, ForgetStep

\* The other changes of a dictionary forget none.
LEMMA StoreReverts == ASSUME DInv, AddEntry \/ MaskEntry \/ MaskCategory PROVE Reverts
<1>1. PICK changes : Store(changes)
  BY DEF AddEntry, MaskEntry, MaskCategory
<1>2. editor.kind \in Kinds /\ editor.lang \in Langs
  BY DEF DInv, EditorOK, AddEntry, MaskEntry, MaskCategory, Edit
<1> DEFINE new == Over(changes, stored[editor.kind][editor.lang])
<1>3. stored' = [stored EXCEPT ![editor.kind][editor.lang] = new]
  BY <1>1 DEF Store
<1>4. DOMAIN stored[editor.kind][editor.lang] \subseteq DOMAIN new
  BY DEF Over
<1> HIDE DEF new
<1>5. ASSUME NEW k \in Kinds, NEW l \in Langs
      PROVE  DOMAIN stored[k][l] \subseteq DOMAIN stored'[k][l]
  <2>1. stored'[k][l] = IF k = editor.kind /\ l = editor.lang THEN new ELSE stored[k][l]
    BY <1>2, <1>3 DEF DInv, StoredIsFinite
  <2> QED BY <1>4, <2>1
<1> QED BY <1>5 DEF Reverts

\* A dictionary is switched on or off, in the handle and in what is stored.
LEMMA SetDictTypeEnabledDInv == ASSUME DInv, SetDictTypeEnabled PROVE DInv'
<1>0. editor.kind \in Kinds /\ editor.lang \in Langs
      /\ UNCHANGED <<files, stored, selected, editor>>
  BY DEF DInv, EditorOK, SetDictTypeEnabled, Edit
<1>1. PICK enabled \in BOOLEAN :
         /\ h' = SetTypeEnabled(h, editor.lang, editor.kind, enabled)
         /\ storedOff' = [storedOff EXCEPT ![editor.lang] =
                IF enabled THEN @ \ {editor.kind} ELSE @ \cup {editor.kind}]
  BY DEF SetDictTypeEnabled
<1> DEFINE off == [h.off EXCEPT ![editor.lang] =
                      IF enabled THEN @ \ {editor.kind} ELSE @ \cup {editor.kind}]
<1>2. Handle(h) /\ h.off \in [Langs -> SUBSET Kinds] /\ storedOff \in [Langs -> SUBSET Kinds]
      /\ \A l \in Langs : h.off[l] \subseteq storedOff[l]
  BY DEF DInv, Handle, OffIsStored
<1>3. h' = [lang |-> h.lang, dicts |-> h.dicts, settings |-> h.settings,
            cache |-> h.cache, off |-> off]
  BY <1>1, <1>2 DEF Handle, SetTypeEnabled
<1>4. off \in [Langs -> SUBSET Kinds] /\ storedOff' \in [Langs -> SUBSET Kinds]
  BY <1>0, <1>1, <1>2
<1>5. \A l \in Langs : off[l] \subseteq storedOff'[l]
  BY <1>0, <1>1, <1>2
<1> HIDE DEF off
<1>6. Handle(h') /\ OffIsStored'
  BY <1>2, <1>3, <1>4, <1>5 DEF Handle, OffIsStored
<1>7. Fresh(h')
  BY <1>3 DEF DInv, ListingIsFresh, Fresh, GetDictRefs
<1>8. StoredIsFinite' /\ EditorOK'
  BY <1>0 DEF DInv, StoredIsFinite, EditorOK
<1> QED BY <1>0, <1>6, <1>7, <1>8, StepDInv DEF DInv

\* Settings are set in what is loaded.
LEMMA SettingsDInv ==
  ASSUME DInv, UNCHANGED <<files, stored, storedOff, selected, editor>>,
         NEW hd, Handle(hd), OffOf(hd), NEW l, NEW changes, h' = SetSettings(hd, l, changes)
  PROVE  DInv'
<1>1. Handle(h') /\ h'.off = hd.off /\ h'.cache = None
  BY SetSettingsFacts
<1>2. Fresh(h') /\ OffIsStored'
  BY <1>1 DEF Fresh, OffOf, OffIsStored, DInv
<1>3. StoredIsFinite' /\ EditorOK'
  BY DEF DInv, StoredIsFinite, EditorOK
<1> QED BY <1>1, <1>2, <1>3, StepDInv DEF DInv

LEMMA EditorSettingsDInv ==
  ASSUME DInv, \/ SetEditorOverride \/ RemoveEditorOverride \/ ResetAllEditorOverrides
               \/ LoadEditorSettings
  PROVE  DInv' /\ UNCHANGED stored
<1>1. ASSUME NEW l, NEW changes, SaveOverrides(l, changes) PROVE DInv' /\ UNCHANGED stored
  <2> DEFINE hd == ReloadWith(h, selected, storedSettings'[selected])
  <2>1. Handle(hd) /\ OffOf(hd)
    BY HandleOfDInv, ReloadFacts
  <2>2. h' = SetSettings(hd, l, changes)
        /\ UNCHANGED <<files, stored, storedOff, selected, editor>>
    BY <1>1, Zenon DEF SaveOverrides
  <2> HIDE DEF hd
  <2> QED BY <2>1, <2>2, SettingsDInv
<1>2. CASE LoadEditorSettings
  <2>1. PICK l : h' = SetSettings(h, l, storedSettings[l])
    BY <1>2 DEF LoadEditorSettings
  <2>2. UNCHANGED <<files, stored, storedOff, selected, editor>>
    BY <1>2 DEF LoadEditorSettings, prefs
  <2> QED BY <2>1, <2>2, HandleOfDInv, SettingsDInv
<1>3. CASE SetEditorOverride
  BY <1>1, <1>3, Zenon DEF SetEditorOverride
<1>4. CASE RemoveEditorOverride
  BY <1>1, <1>4, Zenon DEF RemoveEditorOverride
<1>5. CASE ResetAllEditorOverrides
  BY <1>1, <1>5, Zenon DEF ResetAllEditorOverrides
<1> QED BY <1>2, <1>3, <1>4, <1>5

\* A step keeps the invariant, and has what it forgets as the files do.
LEMMA NextStep == ASSUME DInv, [Next]_vars PROVE DInv' /\ Reverts
<1>0. ASSUME UNCHANGED stored PROVE Reverts
  BY <1>0 DEF Reverts
<1>1. CASE Restart \/ OnLanguageSelected \/ Speak
  <2>1. UNCHANGED stored
    BY <1>1 DEF Restart, OnLanguageSelected, Speak, prefs
  <2> QED BY <1>0, <1>1, <2>1, LoadingDInv
<1>2. CASE OpenDictionary
  <2>1. UNCHANGED stored
    BY <1>2 DEF OpenDictionary, prefs
  <2> QED BY <1>0, <1>2, <2>1, OpenDictionaryDInv
<1>3. CASE LoadMore
  <2>1. UNCHANGED stored
    BY <1>3 DEF LoadMore, prefs
  <2> QED BY <1>0, <1>3, <2>1, LoadMoreDInv
<1>4. CASE AddEntry
  BY <1>4, AddEntryDInv, StoreReverts
<1>5. CASE MaskEntry
  BY <1>5, MaskEntryDInv, StoreReverts
<1>6. CASE MaskCategory
  BY <1>6, MaskCategoryDInv, StoreReverts
<1>7. CASE RenameEntry
  BY <1>7, RenameEntryStep
<1>8. CASE DeleteEntry
  BY <1>8, DeleteEntryStep
<1>9. CASE RemoveChanged
  BY <1>9, RemoveChangedStep
<1>10. CASE SetDictTypeEnabled
  <2>1. UNCHANGED stored
    BY <1>10 DEF SetDictTypeEnabled
  <2> QED BY <1>0, <1>10, <2>1, SetDictTypeEnabledDInv
<1>11. CASE \/ SetEditorOverride \/ RemoveEditorOverride \/ ResetAllEditorOverrides
            \/ LoadEditorSettings
  BY <1>0, <1>11, EditorSettingsDInv
<1>12. CASE UNCHANGED vars
  <2>1. UNCHANGED <<files, prefs, selected, stored>>
    BY <1>12 DEF vars, prefs
  <2>2. Handle(h') /\ Fresh(h') /\ OffOf(h')
    BY <1>12, HandleOfDInv DEF vars
  <2>3. EditorOK'
    BY <1>12 DEF vars, EditorOK, DInv
  <2> QED BY <1>0, <2>1, <2>2, <2>3, HandleStep DEF DInv
<1> QED BY <1>1, <1>2, <1>3, <1>4, <1>5, <1>6, <1>7, <1>8, <1>9, <1>10, <1>11, <1>12 DEF Next

-----------------------------------------------------------------------------
(* The theorems.                                                           *)

\* Type correctness of what the steps depend on, and the listing's freshness.
THEOREM DInvHolds == Spec => []DInv
<1>1. Init => DInv
  BY InitDInv
<1>2. DInv /\ [Next]_vars => DInv'
  BY NextStep
<1> QED BY <1>1, <1>2, PTL DEF Spec

\* Whatever was edited, forgotten or looked at before, the next text is spoken with the
\* files and the stored changes of its own language, in whatever order the changes are
\* made and however many files the chain has (TgsbViewModel.kt:182-185).
THEOREM SpokenAsEditedHolds == Spec => []SpokenAsEdited
<1>1. DInv => SpokenAsEdited
  BY SpokenFacts
<1> QED BY <1>1, DInvHolds, PTL

\* The listing an editor is answered from is the dictionary it stands for, and what the
\* editors read from the files, settings, dictionaries and shared phonemes, is what the
\* language is spoken with (frontend_data_api.cpp:318, pack.cpp:2395, data_query.cpp:338).
THEOREM EditorsSeeThePackHolds == Spec => []EditorsSeeThePack
<1>1. DInv => EditorsSeeThePack
  BY BrowsedFacts DEF EditorsSeeThePack, DInv
<1> QED BY <1>1, DInvHolds, PTL

\* When a change is forgotten, alone, renamed or with others, the loaded pack has the
\* word as the files do (TgsbViewModel.kt:952-954).
THEOREM RemovedEntryRevertsHolds == Spec => RemovedEntryReverts
<1>1. DInv /\ [Next]_vars => Reverts
  BY NextStep
<1>2. Reverts =>
         \A l \in Langs, kind \in Kinds :
            \A w \in DOMAIN stored[kind][l] \ DOMAIN stored'[kind][l] :
               LET disk == PackDicts(files, FALSE, l)[kind] IN
               /\ h'.lang = l
               /\ (w \in DOMAIN h'.dicts[kind]) = (w \in DOMAIN disk)
               /\ w \in DOMAIN disk => h'.dicts[kind][w] = disk[w]
  <2>1. ASSUME NEW w, NEW dict, NEW disk, SameAt(w, dict, disk)
        PROVE  (w \in DOMAIN dict) = (w \in DOMAIN disk)
               /\ (w \in DOMAIN disk => dict[w] = disk[w])
    BY <2>1 DEF SameAt
  <2>2. ASSUME Reverts, NEW l \in Langs, NEW kind \in Kinds,
               NEW w \in DOMAIN stored[kind][l] \ DOMAIN stored'[kind][l]
        PROVE  LET disk == PackDicts(files, FALSE, l)[kind] IN
               /\ h'.lang = l
               /\ (w \in DOMAIN h'.dicts[kind]) = (w \in DOMAIN disk)
               /\ w \in DOMAIN disk => h'.dicts[kind][w] = disk[w]
    <3>1. h'.lang = l /\ SameAt(w, h'.dicts[kind], Disk(l)[kind])
      BY <2>2, Zenon DEF Reverts
    <3>2. /\ (w \in DOMAIN h'.dicts[kind]) = (w \in DOMAIN Disk(l)[kind])
          /\ w \in DOMAIN Disk(l)[kind] => h'.dicts[kind][w] = Disk(l)[kind][w]
      BY <2>1, <3>1
    <3> QED BY <3>1, <3>2, Zenon DEF Disk
  <2> QED BY <2>2
<1> QED BY <1>1, <1>2, DInvHolds, PTL DEF Spec, RemovedEntryReverts
==============================================================================
