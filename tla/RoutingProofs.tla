--------------------------- MODULE RoutingProofs ---------------------------
(***************************************************************************)
(* Proofs about Containment and Routing, for every file system, every      *)
(* setting of the flags and paths of any depth.                            *)
(*                                                                         *)
(* Resolve and Clean are folds, of which the provers know nothing: the     *)
(* first part shows that they go one name at a time.  Induction is over    *)
(* sets of numbers: one that is not empty has a least member (WFMin).      *)
(***************************************************************************)
EXTENDS Routing, WellFoundedInduction, SequenceTheorems, TLAPS

(* Names are strings.  Of a literal the provers cannot tell that it is in  *)
(* STRING, so the two that become names of a path are put in.              *)
Name == STRING \cup {Index, "not resolved"}
Path == Seq(Name)

LEMMA PathsAreNames ==
  /\ Dirs \cap Files = {}
  /\ URLs \subseteq Path /\ <<>> \in URLs
  /\ \A named \in Aliases : named.at \in Path /\ named.on \in Path
  /\ \A l \in Links : l.at \in Path /\ l.to \in Path
  /\ Settings \subseteq [static : Path, cgi : Path, script : Path]
<1>1. STRING \subseteq Name
  BY DEF Name
<1>2. ASSUME NEW q \in Seq(STRING)
      PROVE  q \in Path
  BY <1>1, SeqMonotonic DEF Path
<1> QED
  BY <1>2, PathsOK

-----------------------------------------------------------------------------
(* Numbers and sequences.                                                  *)

LEMMA NaturalsAreWellFounded ==
  IsWellFoundedOn({p \in Nat \X Nat : p[1] < p[2]}, Nat)
BY NatLessThanWellFounded DEF OpToRel

LEMMA LeastExists ==
  ASSUME NEW T, T \subseteq Nat, T # {}
  PROVE  \E x \in T : \A y \in T : x <= y
<1> DEFINE R == {p \in Nat \X Nat : p[1] < p[2]}
<1>1. IsWellFoundedOn(R, Nat)
  BY NaturalsAreWellFounded
<1> HIDE DEF R
<1>2. PICK x \in T : \A y \in T : <<y, x>> \notin R
  BY <1>1, WFMin
<1>3. \A y \in T : ~(y < x)
  BY <1>2 DEF R
<1> QED
  BY <1>2, <1>3

LEMMA MinIsLeast ==
  ASSUME NEW T, T \subseteq Nat, T # {}
  PROVE  Min(T) \in T /\ \A y \in T : Min(T) <= y
BY LeastExists DEF Min

LEMMA MaxIsLast ==
  ASSUME NEW n \in Nat, NEW s \in SUBSET (1..n), n \in s
  PROVE  Max(s) = n
<1>1. \E x \in s : \A y \in s : x >= y
  <2>1. \A y \in s : n >= y
    OBVIOUS
  <2> QED
    BY <2>1
<1>2. Max(s) \in s /\ \A y \in s : Max(s) >= y
  BY <1>1, Zenon DEF Max
<1>3. Max(s) >= n /\ Max(s) \in 1..n
  BY <1>2
<1> QED
  BY <1>3

LEMMA AppendIsLonger ==
  ASSUME NEW S, NEW q \in Seq(S), NEW e \in S
  PROVE  /\ Append(q, e) \in Seq(S)
         /\ Len(q) \in Nat /\ Len(Append(q, e)) = Len(q) + 1
         /\ Append(q, e)[Len(q) + 1] = e
         /\ \A i \in 1..Len(q) : Append(q, e)[i] = q[i]
OBVIOUS

LEMMA RestProperties ==
  ASSUME NEW S, NEW q \in Seq(S), NEW k \in 0..Len(q)
  PROVE  /\ SubSeq(q, k + 1, Len(q)) \in Seq(S)
         /\ Len(SubSeq(q, k + 1, Len(q))) = Len(q) - k
         /\ \A i \in 1..(Len(q) - k) : SubSeq(q, k + 1, Len(q))[i] = q[i + k]
OBVIOUS

LEMMA SameSequence ==
  ASSUME NEW S, NEW q \in Seq(S), NEW r \in Seq(S), Len(q) = Len(r),
         \A i \in 1..Len(q) : q[i] = r[i]
  PROVE  q = r
OBVIOUS

LEMMA LongerPath ==
  ASSUME NEW q \in Path, NEW name \in Name
  PROVE  /\ Append(q, name) \in Path
         /\ Len(q) \in Nat /\ Len(Append(q, name)) = Len(q) + 1
         /\ Append(q, name)[Len(q) + 1] = name
         /\ \A i \in 1..Len(q) : Append(q, name)[i] = q[i]
         /\ Append(q, name) # <<>>
<1>1. \A S : \A r \in Seq(S), e \in S :
        /\ Append(r, e) \in Seq(S)
        /\ Len(r) \in Nat /\ Len(Append(r, e)) = Len(r) + 1
        /\ Append(r, e)[Len(r) + 1] = e
        /\ \A i \in 1..Len(r) : Append(r, e)[i] = r[i]
        /\ Append(r, e) # <<>>
  BY AppendIsLonger
<1> QED
  BY <1>1, ZenonT(60) DEF Path

(* The first n names of a path. *)
Start(p, n) == SubSeq(p, 1, n)

LEMMA StartProperties ==
  ASSUME NEW p \in Path, NEW n \in 0..Len(p)
  PROVE  /\ Start(p, n) \in Path
         /\ Len(Start(p, n)) = n
         /\ \A i \in 1..n : Start(p, n)[i] = p[i]
         /\ Start(p, Len(p)) = p
BY DEF Start, Path

-----------------------------------------------------------------------------
(* Folds.                                                                  *)

(* What one more name does, in a fold of either kind. *)
Step(fold, q, name) == IF fold = "resolve" THEN Enter(q, name) ELSE CleanStep(q, name)

(* g folds every part of the first n names of p. *)
Folds(fold, g, p, n) ==
  g = [s \in SUBSET (1..n) |->
         IF s = {} THEN <<>> ELSE Step(fold, g[s \ {Max(s)}], p[Max(s)])]

LEMMA FoldExists ==
  ASSUME NEW fold, NEW p
  PROVE  \A n \in Nat : \E g : Folds(fold, g, p, n)
<1> DEFINE Bad == {n \in Nat : ~\E g : Folds(fold, g, p, n)}
<1> SUFFICES ASSUME Bad # {} PROVE FALSE
  OBVIOUS
<1>1. PICK n \in Bad : \A m \in Bad : n <= m
  BY LeastExists
<1>2. CASE n = 0
  <2> DEFINE g == [s \in SUBSET (1..0) |-> <<>>]
  <2>1. \A s \in SUBSET (1..0) : s = {}
    OBVIOUS
  <2>2. Folds(fold, g, p, 0)
    BY <2>1 DEF Folds
  <2> QED
    BY <1>2, <2>2
<1>3. CASE n # 0
  <2>1. n \in Nat /\ n - 1 \in Nat /\ ~(n <= n - 1)
    BY <1>3
  <2>2. n - 1 \notin Bad
    BY <1>1, <2>1
  <2>3. PICK g : Folds(fold, g, p, n - 1)
    BY <2>1, <2>2
  <2> DEFINE h == [s \in SUBSET (1..n) |->
                     IF n \in s THEN Step(fold, g[s \ {n}], p[n]) ELSE g[s]]
  <2>4. ASSUME NEW s \in SUBSET (1..n)
        PROVE  h[s] = IF s = {} THEN <<>> ELSE Step(fold, h[s \ {Max(s)}], p[Max(s)])
    <3>1. CASE n \in s
      <4>1. Max(s) = n
        BY <2>1, <3>1, MaxIsLast
      <4>2. s \ {n} \in SUBSET (1..n) /\ n \notin s \ {n}
        OBVIOUS
      <4>3. h[s \ {n}] = g[s \ {n}]
        BY <4>2
      <4> QED
        BY <3>1, <4>1, <4>3
    <3>2. CASE n \notin s
      <4>1. s \in SUBSET (1..(n - 1))
        BY <2>1, <3>2
      <4>2. h[s] = g[s]
        BY <3>2
      <4>3. s \ {Max(s)} \in SUBSET (1..n) /\ n \notin s \ {Max(s)}
        BY <3>2
      <4>4. h[s \ {Max(s)}] = g[s \ {Max(s)}]
        BY <4>3
      <4>5. g[s] = IF s = {} THEN <<>> ELSE Step(fold, g[s \ {Max(s)}], p[Max(s)])
        BY <2>3, <4>1 DEF Folds
      <4> QED
        BY <4>2, <4>4, <4>5
    <3> QED
      BY <3>1, <3>2
  <2>5. Folds(fold, h, p, n)
    BY <2>4 DEF Folds
  <2> QED
    BY <2>5
<1> QED
  BY <1>2, <1>3

(* The value of a fold of p after n names. *)
After(fold, p, n) == (CHOOSE g : Folds(fold, g, p, n))[1..n]

(* A fold goes from the first name to the last. *)
LEMMA FoldGoesOn ==
  ASSUME NEW fold, NEW p, NEW n \in Nat, NEW g, Folds(fold, g, p, n)
  PROVE  /\ g[1..0] = <<>>
         /\ \A m \in 1..n : g[1..m] = Step(fold, g[1..(m - 1)], p[m])
<1>1. g[1..0] = <<>>
  <2>1. 1..0 = {} /\ 1..0 \in SUBSET (1..n)
    OBVIOUS
  <2> QED
    BY <2>1 DEF Folds
<1>2. ASSUME NEW m \in 1..n
      PROVE  g[1..m] = Step(fold, g[1..(m - 1)], p[m])
  <2>1. 1..m \in SUBSET (1..n) /\ m \in 1..m /\ 1..m # {}
    OBVIOUS
  <2>2. Max(1..m) = m
    BY <2>1, MaxIsLast
  <2>3. (1..m) \ {m} = 1..(m - 1)
    OBVIOUS
  <2>4. g[1..m] = Step(fold, g[(1..m) \ {Max(1..m)}], p[Max(1..m)])
    BY <2>1 DEF Folds
  <2> QED
    BY <2>2, <2>3, <2>4
<1> QED
  BY <1>1, <1>2

(* So it is determined by the names up to there. *)
LEMMA FoldIsDetermined ==
  ASSUME NEW fold, NEW p, NEW q, NEW n \in Nat, NEW l \in Nat, n <= l,
         \A i \in 1..n : p[i] = q[i],
         NEW g, Folds(fold, g, p, n), NEW h, Folds(fold, h, q, l)
  PROVE  g[1..n] = h[1..n]
<1> DEFINE Bad == {m \in 0..n : g[1..m] # h[1..m]}
<1>1. SUFFICES ASSUME Bad # {} PROVE FALSE
  <2>1. n \in 0..n
    OBVIOUS
  <2> QED
    BY <2>1
<1>2. PICK m \in Bad : \A k \in Bad : m <= k
  <2>1. Bad \subseteq Nat
    OBVIOUS
  <2> HIDE DEF Bad
  <2> QED
    BY <1>1, <2>1, LeastExists
<1>3. g[1..0] = <<>> /\ h[1..0] = <<>>
  BY FoldGoesOn
<1>4. m \in 1..n
  BY <1>3
<1>5. m - 1 \in 0..n /\ ~(m <= m - 1)
  BY <1>4
<1>6. g[1..(m - 1)] = h[1..(m - 1)]
  BY <1>2, <1>5
<1>7. g[1..m] = Step(fold, g[1..(m - 1)], p[m])
  <2>1. \A k \in 1..n : g[1..k] = Step(fold, g[1..(k - 1)], p[k])
    BY FoldGoesOn
  <2> QED
    BY <1>4, <2>1
<1>8. h[1..m] = Step(fold, h[1..(m - 1)], q[m])
  <2>1. m \in 1..l
    BY <1>4
  <2> QED
    BY <2>1, FoldGoesOn
<1> QED
  BY <1>4, <1>6, <1>7, <1>8

LEMMA AfterStart ==
  ASSUME NEW fold, NEW p \in Path
  PROVE  /\ After(fold, Start(p, 0), 0) = <<>>
         /\ \A m \in 1..Len(p) :
              After(fold, Start(p, m), m)
                = Step(fold, After(fold, Start(p, m - 1), m - 1), p[m])
<1>1. ASSUME NEW q, NEW n \in Nat
      PROVE  \E g : Folds(fold, g, q, n) /\ After(fold, q, n) = g[1..n]
  BY FoldExists DEF After
<1>2. After(fold, Start(p, 0), 0) = <<>>
  <2>1. PICK g : Folds(fold, g, Start(p, 0), 0) /\ After(fold, Start(p, 0), 0) = g[1..0]
    BY <1>1
  <2>2. 0 \in Nat
    OBVIOUS
  <2>3. g[1..0] = <<>>
    BY <2>1, <2>2, FoldGoesOn, ZenonT(60)
  <2> QED
    BY <2>1, <2>3
<1>3. ASSUME NEW m \in 1..Len(p)
      PROVE  After(fold, Start(p, m), m)
               = Step(fold, After(fold, Start(p, m - 1), m - 1), p[m])
  <2>1. m \in Nat /\ m - 1 \in Nat /\ m - 1 <= m /\ m \in 0..Len(p) /\ m - 1 \in 0..Len(p)
    OBVIOUS
  <2>2. PICK g : Folds(fold, g, Start(p, m), m) /\ After(fold, Start(p, m), m) = g[1..m]
    BY <1>1, <2>1
  <2>3. PICK h : /\ Folds(fold, h, Start(p, m - 1), m - 1)
                 /\ After(fold, Start(p, m - 1), m - 1) = h[1..(m - 1)]
    BY <1>1, <2>1
  <2>4. \A i \in 1..(m - 1) : Start(p, m - 1)[i] = Start(p, m)[i]
    BY <2>1, StartProperties
  <2>5. h[1..(m - 1)] = g[1..(m - 1)]
    BY <2>1, <2>2, <2>3, <2>4, FoldIsDetermined
  <2>6. m \in Nat /\ Folds(fold, g, Start(p, m), m)
    BY <2>1, <2>2
  <2>7. g[1..m] = Step(fold, g[1..(m - 1)], Start(p, m)[m])
    <3>1. \A k \in 1..m : g[1..k] = Step(fold, g[1..(k - 1)], Start(p, m)[k])
      BY <2>6, FoldGoesOn
    <3>2. m \in 1..m
      OBVIOUS
    <3> QED
      BY <3>1, <3>2
  <2>8. Start(p, m)[m] = p[m]
    BY <2>1, StartProperties
  <2> QED
    BY <2>2, <2>3, <2>5, <2>7, <2>8
<1> QED
  BY <1>2, <1>3

(* Resolve and Clean are such folds. *)
LEMMA ResolveIsFold ==
  ASSUME NEW p \in Path
  PROVE  Resolve(p) = After("resolve", p, Len(p))
<1> DEFINE Resolves(g) ==
      g = [s \in SUBSET DOMAIN p |->
             IF s = {} THEN <<>> ELSE Enter(g[s \ {Max(s)}], p[Max(s)])]
<1>1. Resolve(p) = (CHOOSE g : Resolves(g))[DOMAIN p]
  BY DEF Resolve, FoldLeft, MapThenFoldSet
<1>2. DOMAIN p = 1..Len(p) /\ Len(p) \in Nat
  BY DEF Path
<1>3. \A g : Resolves(g) <=> Folds("resolve", g, p, Len(p))
  BY <1>2 DEF Folds, Step
<1> HIDE DEF Resolves
<1>4. (CHOOSE g : Resolves(g)) = (CHOOSE g : Folds("resolve", g, p, Len(p)))
  BY <1>3
<1> QED
  BY <1>1, <1>2, <1>4 DEF After

LEMMA CleanIsFold ==
  ASSUME NEW p \in Path
  PROVE  Clean(p) = After("clean", p, Len(p))
<1> DEFINE Cleans(g) ==
      g = [s \in SUBSET DOMAIN p |->
             IF s = {} THEN <<>> ELSE CleanStep(g[s \ {Max(s)}], p[Max(s)])]
<1>1. Clean(p) = (CHOOSE g : Cleans(g))[DOMAIN p]
  BY DEF Clean, FoldLeft, MapThenFoldSet
<1>2. DOMAIN p = 1..Len(p) /\ Len(p) \in Nat
  BY DEF Path
<1>3. \A g : Cleans(g) <=> Folds("clean", g, p, Len(p))
  BY <1>2 DEF Folds, Step
<1> HIDE DEF Cleans
<1>4. (CHOOSE g : Cleans(g)) = (CHOOSE g : Folds("clean", g, p, Len(p)))
  BY <1>3
<1> QED
  BY <1>1, <1>2, <1>4 DEF After

(* Resolve follows a path one name after the other. *)
LEMMA ResolveGoesOn ==
  ASSUME NEW p \in Path
  PROVE  /\ Resolve(Start(p, 0)) = <<>>
         /\ \A n \in 1..Len(p) :
              Resolve(Start(p, n)) = Enter(Resolve(Start(p, n - 1)), p[n])
<1>1. \A n \in 0..Len(p) : Resolve(Start(p, n)) = After("resolve", Start(p, n), n)
  BY StartProperties, ResolveIsFold
<1>2. 0 \in 0..Len(p) /\ \A n \in 1..Len(p) : n \in 0..Len(p) /\ n - 1 \in 0..Len(p)
  BY DEF Path
<1> QED
  BY <1>1, <1>2, AfterStart DEF Step

LEMMA CleanGoesOn ==
  ASSUME NEW p \in Path
  PROVE  /\ Clean(Start(p, 0)) = <<>>
         /\ \A n \in 1..Len(p) :
              Clean(Start(p, n)) = CleanStep(Clean(Start(p, n - 1)), p[n])
<1>1. \A n \in 0..Len(p) : Clean(Start(p, n)) = After("clean", Start(p, n), n)
  BY StartProperties, CleanIsFold
<1>2. 0 \in 0..Len(p) /\ \A n \in 1..Len(p) : n \in 0..Len(p) /\ n - 1 \in 0..Len(p)
  BY DEF Path
<1> QED
  BY <1>1, <1>2, AfterStart DEF Step

-----------------------------------------------------------------------------
(* What Node, Resolve and Clean return.                                    *)

TreeOK == link \in Links /\ alias \in Aliases

LEMMA NodeIsPath ==
  ASSUME TreeOK, NEW q \in Path
  PROVE  /\ Node(q) \in Path
         /\ SameDepth => Len(Node(q)) = Len(q)
<1>1. alias.at \in Path /\ alias.on \in Path /\ (SameDepth => Len(alias.at) = Len(alias.on))
  BY PathsAreNames DEF TreeOK, SameDepth
<1>2. CASE IsPrefix(alias.at, q)
  <2>1. Len(alias.at) \in 0..Len(q) /\ Len(q) \in Nat
    BY <1>1, <1>2 DEF IsPrefix, Path
  <2> DEFINE rest == SubSeq(q, Len(alias.at) + 1, Len(q))
  <2>2. rest \in Path /\ Len(rest) = Len(q) - Len(alias.at)
    BY <2>1, RestProperties DEF Path
  <2>3. Node(q) = alias.on \o rest
    BY <1>2 DEF Node, NamedUnder
  <2> HIDE DEF rest
  <2> QED
    BY <1>1, <2>1, <2>2, <2>3 DEF Path
<1>3. CASE ~IsPrefix(alias.at, q)
  BY <1>3 DEF Node, NamedUnder
<1> QED
  BY <1>2, <1>3

LEMMA EnterIsPath ==
  ASSUME TreeOK, NEW q \in Path, NEW name \in Name
  PROVE  /\ Enter(q, name) \in Path
         /\ NotTheRoot => Enter(q, name) # <<>>
<1>1. link.to \in Path /\ (NotTheRoot => link.to # <<>>)
  BY PathsAreNames DEF TreeOK, NotTheRoot
<1>2. Append(q, name) \in Path /\ Append(q, name) # <<>>
  BY LongerPath
<1> QED
  BY <1>1, <1>2 DEF Enter

LEMMA ResolveIsPath ==
  ASSUME TreeOK, NEW p \in Path
  PROVE  /\ Resolve(p) \in Path
         /\ NotTheRoot /\ p # <<>> => Resolve(p) # <<>>
<1> DEFINE Bad == {n \in 0..Len(p) : Resolve(Start(p, n)) \notin Path}
<1>1. Bad = {}
  <2> SUFFICES ASSUME Bad # {} PROVE FALSE
    OBVIOUS
  <2>1. PICK n \in Bad : \A m \in Bad : n <= m
    <3>1. Bad \subseteq Nat
      OBVIOUS
    <3> HIDE DEF Bad
    <3> QED
      BY <3>1, LeastExists
  <2>2. <<>> \in Path
    BY DEF Path
  <2>3. n \in 1..Len(p)
    BY <2>2, ResolveGoesOn
  <2>4. n - 1 \in 0..Len(p) /\ ~(n <= n - 1) /\ p[n] \in Name
    BY <2>3 DEF Path
  <2>5. Resolve(Start(p, n - 1)) \in Path
    BY <2>1, <2>4
  <2>6. Resolve(Start(p, n)) = Enter(Resolve(Start(p, n - 1)), p[n])
    BY <2>3, ResolveGoesOn
  <2> QED
    BY <2>1, <2>4, <2>5, <2>6, EnterIsPath
<1>2. Len(p) \in 0..Len(p) /\ Start(p, Len(p)) = p
  BY StartProperties DEF Path
<1>3. Resolve(p) \in Path
  BY <1>1, <1>2
<1>4. ASSUME NotTheRoot, p # <<>>
      PROVE  Resolve(p) # <<>>
  <2>1. Len(p) \in 1..Len(p) /\ Len(p) - 1 \in 0..Len(p) /\ p[Len(p)] \in Name
    BY <1>4 DEF Path
  <2>2. Resolve(p) = Enter(Resolve(Start(p, Len(p) - 1)), p[Len(p)])
    BY <1>2, <2>1, ResolveGoesOn
  <2>3. Resolve(Start(p, Len(p) - 1)) \in Path
    BY <1>1, <2>1
  <2> QED
    BY <1>4, <2>1, <2>2, <2>3, EnterIsPath
<1> QED
  BY <1>3, <1>4

LEMMA CleanIsPath ==
  ASSUME NEW p \in Path
  PROVE  Clean(p) \in Path
<1> DEFINE Bad == {n \in 0..Len(p) : Clean(Start(p, n)) \notin Path}
<1>1. Bad = {}
  <2> SUFFICES ASSUME Bad # {} PROVE FALSE
    OBVIOUS
  <2>1. PICK n \in Bad : \A m \in Bad : n <= m
    <3>1. Bad \subseteq Nat
      OBVIOUS
    <3> HIDE DEF Bad
    <3> QED
      BY <3>1, LeastExists
  <2>2. <<>> \in Path
    BY DEF Path
  <2>3. n \in 1..Len(p)
    BY <2>2, CleanGoesOn
  <2>4. n - 1 \in 0..Len(p) /\ ~(n <= n - 1) /\ p[n] \in Name
    BY <2>3 DEF Path
  <2>5. Clean(Start(p, n - 1)) \in Path
    BY <2>1, <2>4
  <2>6. Clean(Start(p, n)) = CleanStep(Clean(Start(p, n - 1)), p[n])
    BY <2>3, CleanGoesOn
  <2>7. ASSUME NEW q \in Path
        PROVE  CleanStep(q, p[n]) \in Path
    <3>1. Append(q, p[n]) \in Path
      BY <2>4, LongerPath
    <3>2. ASSUME q # <<>>
          PROVE  Front(q) \in Path
      BY <3>2 DEF Front, Path
    <3>3. <<>> \in Path
      BY DEF Path
    <3> QED
      BY <3>1, <3>2, <3>3 DEF CleanStep
  <2> QED
    BY <2>1, <2>5, <2>6, <2>7
<1>2. Len(p) \in 0..Len(p) /\ Start(p, Len(p)) = p
  BY StartProperties DEF Path
<1> QED
  BY <1>1, <1>2

(* One more name is one more step. *)
LEMMA ResolveAppend ==
  ASSUME NEW p \in Path, NEW name \in Name
  PROVE  Resolve(Append(p, name)) = Enter(Resolve(p), name)
<1> DEFINE longer == Append(p, name)
<1>1. /\ longer \in Path /\ Len(longer) = Len(p) + 1 /\ Len(p) \in Nat
      /\ longer[Len(longer)] = name
  <2>1. Len(longer) = Len(p) + 1
    BY LongerPath
  <2>2. longer[Len(p) + 1] = name /\ longer \in Path /\ Len(p) \in Nat
    BY LongerPath
  <2> QED
    BY <2>1, <2>2
<1>2. Start(longer, Len(longer)) = longer
  <2> HIDE DEF longer
  <2>1. Len(longer) \in 0..Len(longer)
    BY <1>1
  <2> QED
    BY <1>1, <2>1, StartProperties
<1>3. Start(longer, Len(longer) - 1) = p
  <2>1. Len(p) \in 0..Len(longer)
    BY <1>1
  <2>2. /\ Start(longer, Len(p)) \in Path /\ Len(Start(longer, Len(p))) = Len(p)
        /\ \A i \in 1..Len(p) : Start(longer, Len(p))[i] = longer[i]
    BY <1>1, <2>1, StartProperties
  <2>3. \A i \in 1..Len(p) : longer[i] = p[i]
    BY LongerPath
  <2>4. Len(longer) - 1 = Len(p)
    BY <1>1
  <2> HIDE DEF longer
  <2>5. Start(longer, Len(p)) = p
    BY <2>2, <2>3, SameSequence DEF Path
  <2> QED
    BY <2>4, <2>5
<1>4. Len(longer) \in 1..Len(longer)
  BY <1>1
<1> HIDE DEF longer
<1> QED
  BY <1>1, <1>2, <1>3, <1>4, ResolveGoesOn DEF longer

(* What follows a path does not depend on how the path was spelled. *)
LEMMA ResolveConcat ==
  ASSUME NEW p \in Path, NEW q \in Path, NEW r \in Path, Resolve(p) = Resolve(q)
  PROVE  Resolve(p \o r) = Resolve(q \o r)
<1> DEFINE Bad == {n \in 0..Len(r) : Resolve(p \o Start(r, n)) # Resolve(q \o Start(r, n))}
<1>0. ASSUME NEW t \in Path
      PROVE  /\ t \o Start(r, 0) = t
             /\ \A n \in 1..Len(r) :
                  /\ t \o Start(r, n - 1) \in Path
                  /\ t \o Start(r, n) = Append(t \o Start(r, n - 1), r[n])
  <2>1. t \o Start(r, 0) = t
    BY DEF Start, Path
  <2>2. ASSUME NEW n \in 1..Len(r)
        PROVE  /\ t \o Start(r, n - 1) \in Path
               /\ t \o Start(r, n) = Append(t \o Start(r, n - 1), r[n])
    <3>1. Start(r, n) = Append(Start(r, n - 1), r[n]) /\ Start(r, n - 1) \in Path
      BY DEF Start, Path
    <3> HIDE DEF Bad
    <3>2. r[n] \in Name
      BY DEF Path
    <3>3. \A u \in Path : t \o u \in Path /\ t \o Append(u, r[n]) = Append(t \o u, r[n])
      BY <3>2 DEF Path
    <3> QED
      BY <3>1, <3>3
  <2> QED
    BY <2>1, <2>2
<1>1. Bad = {}
  <2> SUFFICES ASSUME Bad # {} PROVE FALSE
    OBVIOUS
  <2>1. PICK n \in Bad : \A m \in Bad : n <= m
    <3>1. Bad \subseteq Nat
      OBVIOUS
    <3> HIDE DEF Bad
    <3> QED
      BY <3>1, LeastExists
  <2>2. n \in 1..Len(r)
    <3>1. p \o Start(r, 0) = p /\ q \o Start(r, 0) = q
      BY <1>0
    <3>2. 0 \notin Bad
      BY <3>1
    <3> QED
      BY <2>1, <3>2
  <2>3. n - 1 \in 0..Len(r) /\ ~(n <= n - 1) /\ r[n] \in Name
    BY <2>2 DEF Path
  <2>4. Resolve(p \o Start(r, n - 1)) = Resolve(q \o Start(r, n - 1))
    BY <2>1, <2>3
  <2>5. /\ p \o Start(r, n) = Append(p \o Start(r, n - 1), r[n])
        /\ q \o Start(r, n) = Append(q \o Start(r, n - 1), r[n])
        /\ p \o Start(r, n - 1) \in Path /\ q \o Start(r, n - 1) \in Path
    BY <1>0, <2>2
  <2>6. Resolve(p \o Start(r, n)) = Resolve(q \o Start(r, n))
    BY <2>3, <2>4, <2>5, ResolveAppend
  <2> QED
    BY <2>1, <2>6
<1>2. Len(r) \in 0..Len(r) /\ Start(r, Len(r)) = r
  BY StartProperties DEF Path
<1> QED
  BY <1>1, <1>2

(* A resolved path has no link left in it. *)
LEMMA LinkIsReal ==
  ASSUME TreeOK
  PROVE  Resolve(link.to) = link.to
<1> DEFINE to == link.to
<1>1. to \in Path
  BY PathsAreNames DEF TreeOK
<1>2. \A n \in 1..Len(to) : Node(Start(to, n)) # link.at
  BY LinksLeadToReal DEF TreeOK, Node, Start
<1> HIDE DEF to
<1> DEFINE Bad == {n \in 0..Len(to) : Resolve(Start(to, n)) # Start(to, n)}
<1>3. Bad = {}
  <2> SUFFICES ASSUME Bad # {} PROVE FALSE
    OBVIOUS
  <2>1. PICK n \in Bad : \A m \in Bad : n <= m
    <3>1. Bad \subseteq Nat
      OBVIOUS
    <3> HIDE DEF Bad
    <3> QED
      BY <3>1, LeastExists
  <2>2. Start(to, 0) = <<>>
    BY <1>1 DEF Start, Path
  <2>3. n \in 1..Len(to)
    BY <1>1, <2>2, ResolveGoesOn
  <2>4. n - 1 \in 0..Len(to) /\ ~(n <= n - 1)
    BY <2>3
  <2>5. Resolve(Start(to, n - 1)) = Start(to, n - 1)
    BY <2>1, <2>4
  <2>6. Append(Start(to, n - 1), to[n]) = Start(to, n)
    BY <1>1, <2>3 DEF Start, Path
  <2>7. Resolve(Start(to, n)) = Enter(Start(to, n - 1), to[n])
    BY <1>1, <2>3, <2>5, ResolveGoesOn
  <2> QED
    BY <1>2, <2>1, <2>3, <2>6, <2>7 DEF Enter
<1>4. Len(to) \in 0..Len(to) /\ Start(to, Len(to)) = to
  BY <1>1, StartProperties DEF Path
<1> QED
  BY <1>3, <1>4 DEF to

LEMMA ResolveAgain ==
  ASSUME TreeOK, NEW p \in Path
  PROVE  Resolve(Resolve(p)) = Resolve(p)
<1> DEFINE Bad == {n \in 0..Len(p) : Resolve(Resolve(Start(p, n))) # Resolve(Start(p, n))}
<1>1. Bad = {}
  <2> SUFFICES ASSUME Bad # {} PROVE FALSE
    OBVIOUS
  <2>1. PICK n \in Bad : \A m \in Bad : n <= m
    <3>1. Bad \subseteq Nat
      OBVIOUS
    <3> HIDE DEF Bad
    <3> QED
      BY <3>1, LeastExists
  <2>2. Resolve(<<>>) = <<>> /\ Resolve(Start(p, 0)) = <<>>
    <3>1. Start(p, 0) = <<>>
      BY DEF Start, Path
    <3> QED
      BY <3>1, ResolveGoesOn
  <2>3. n \in 1..Len(p)
    BY <2>2
  <2>4. n - 1 \in 0..Len(p) /\ ~(n <= n - 1) /\ p[n] \in Name
    BY <2>3 DEF Path
  <2> DEFINE before == Resolve(Start(p, n - 1))
  <2>5. Resolve(before) = before
    BY <2>1, <2>4
  <2>6. before \in Path
    BY <2>4, StartProperties, ResolveIsPath
  <2>7. Resolve(Start(p, n)) = Enter(before, p[n])
    BY <2>3, ResolveGoesOn
  <2> HIDE DEF before
  <2>8. Resolve(Append(before, p[n])) = Enter(before, p[n])
    BY <2>4, <2>5, <2>6, ResolveAppend
  <2>9. Resolve(Enter(before, p[n])) = Enter(before, p[n])
    <3>1. CASE Node(Append(before, p[n])) = link.at
      <4>1. Enter(before, p[n]) = link.to
        BY <3>1 DEF Enter
      <4> QED
        BY <4>1, LinkIsReal
    <3>2. CASE Node(Append(before, p[n])) # link.at
      <4>1. Enter(before, p[n]) = Append(before, p[n])
        BY <3>2 DEF Enter
      <4> QED
        BY <2>8, <4>1
    <3> QED
      BY <3>1, <3>2
  <2> QED
    BY <2>1, <2>7, <2>9
<1>2. Len(p) \in 0..Len(p) /\ Start(p, Len(p)) = p
  BY StartProperties DEF Path
<1> QED
  BY <1>1, <1>2

-----------------------------------------------------------------------------
(* Containment.                                                            *)

(* An ancestor of a path is a prefix of it. *)
LEMMA UpLength ==
  ASSUME NEW q \in Path, NEW k \in 0..Len(q)
  PROVE  Up(q, k) \in Path /\ Len(Up(q, k)) = Len(q) - k
BY DEF Up, Path

(* The answer is "inside" just when the bounded walk meets the directory.  *)
LEMMA InsideIffMet ==
  ASSUME NEW q, NEW d
  PROVE  DirRelationResolved(q, d).answer = "inside" <=>
           \E k \in 0..Len(q) :
             Separators(q) >= Separators(d) + k /\ Node(Up(q, k)) = Node(d)
<1> DEFINE found ==
      {k \in 0..Len(q) : Separators(q) >= Separators(d) + k /\ Node(Up(q, k)) = Node(d)}
<1>1. CASE found = {}
  <2>1. DirRelationResolved(q, d) = Outside
    BY <1>1 DEF DirRelationResolved
  <2> QED
    BY <1>1, <2>1 DEF Outside
<1>2. CASE found # {}
  <2>1. DirRelationResolved(q, d) = Inside(SubSeq(q, Len(q) - Min(found) + 1, Len(q)))
    BY <1>2 DEF DirRelationResolved
  <2>2. DirRelationResolved(q, d).answer = "inside"
    BY <2>1 DEF Inside
  <2> QED
    BY <1>2, <2>2
<1> QED
  BY <1>1, <1>2

(* "Anything it accepts, the walk below accepts too" (checkPathBoundary,   *)
(* of its prefix test): the fast path is no second policy.                 *)
THEOREM FastPathImpliesWalk ==
  ASSUME NEW q \in Path, NEW d \in Path, HasPrefix(q, d)
  PROVE  DirRelationResolved(q, d).answer = "inside"
<1>1. CASE q = d
  <2>1. Separators(q) \in Nat /\ Separators(q) >= Separators(d) + 0
    BY <1>1 DEF Separators, Path
  <2>2. Up(q, 0) = q
    BY DEF Up, Path
  <2>3. 0 \in 0..Len(q)
    BY DEF Path
  <2> QED
    BY <1>1, <2>1, <2>2, <2>3, InsideIffMet
<1>2. CASE d # <<>> /\ IsPrefix(d, q)
  <2>1. Len(d) \in Nat \ {0} /\ Len(q) \in Nat /\ Len(d) <= Len(q)
    BY <1>2 DEF IsPrefix, Path
  <2>2. Separators(d) = Len(d) /\ Separators(q) = Len(q)
    BY <1>2, <2>1 DEF Separators
  <2>3. Up(q, Len(q) - Len(d)) = d
    BY <1>2, <2>1 DEF Up, IsPrefix, Path
  <2>4. Len(q) - Len(d) \in 0..Len(q)
    BY <2>1
  <2>5. Separators(q) >= Separators(d) + (Len(q) - Len(d))
    BY <2>1, <2>2
  <2> QED
    BY <2>3, <2>4, <2>5, InsideIffMet
<1> QED
  BY <1>1, <1>2 DEF HasPrefix

(* dirRelationResolved never claims too much: what it finds inside a       *)
(* directory has that directory among its ancestors.                       *)
THEOREM InsideIsBeneath ==
  ASSUME NEW q, NEW d, DirRelationResolved(q, d).answer = "inside"
  PROVE  Beneath(q, d)
BY InsideIffMet DEF Beneath

(* What checkPathBoundary accepts, by either route, lies beneath the       *)
(* boundary once every link is resolved.                                   *)
THEOREM AcceptedIsBeneath ==
  ASSUME TreeOK, NEW p \in Path, NEW boundary \in Path, CheckPathBoundary(p, boundary)
  PROVE  Beneath(Resolve(p), Resolve(boundary))
<1>1. Resolve(p) \in Path /\ Resolve(boundary) \in Path
  BY ResolveIsPath
<1>2. DirRelationResolved(Resolve(p), Resolve(boundary)).answer = "inside"
  <2>1. CASE HasPrefix(Resolve(p), Resolve(boundary))
    BY <1>1, <2>1, FastPathImpliesWalk
  <2> QED
    BY <2>1 DEF CheckPathBoundary
<1> QED
  BY <1>2, InsideIsBeneath

(* An ancestor that is the directory is as far up as their depths say, and *)
(* within the bound of the walk.                                           *)
LEMMA WhereItIsMet ==
  ASSUME TreeOK, SameDepth, NEW q \in Path, NEW d \in Path, d # <<>>,
         NEW k \in 0..Len(q), Node(Up(q, k)) = Node(d)
  PROVE  k = Len(q) - Len(d) /\ Separators(q) >= Separators(d) + k
<1>1. Up(q, k) \in Path /\ Len(Up(q, k)) = Len(q) - k
  BY UpLength
<1>2. Len(q) - k = Len(d)
  BY <1>1, NodeIsPath
<1>3. Len(d) \in Nat \ {0} /\ Len(q) \in Nat
  BY DEF Path
<1>4. Len(q) # 0
  BY <1>2, <1>3
<1>5. q # <<>>
  BY <1>4
<1>6. Separators(d) = Len(d) /\ Separators(q) = Len(q)
  BY <1>5 DEF Separators
<1> QED
  BY <1>2, <1>3, <1>6

(* Nor too little, where names are as deep as the README says: everything  *)
(* beneath a directory other than the root is found inside it.             *)
THEOREM BeneathIsInside ==
  ASSUME TreeOK, SameDepth, NEW q \in Path, NEW d \in Path, d # <<>>, Beneath(q, d)
  PROVE  DirRelationResolved(q, d).answer = "inside"
<1>1. PICK k \in 0..Len(q) : Node(Up(q, k)) = Node(d)
  BY DEF Beneath
<1> QED
  BY <1>1, WhereItIsMet, InsideIffMet

(* dirRelation, for a directory and a path that exist. *)
LEMMA DirRelationIsWalk ==
  ASSUME NEW p, NEW d, IsDir(d), Exists(p)
  PROVE  DirRelation(p, d) = DirRelationResolved(Resolve(p), Resolve(d))
<1>1. Exists(d) /\ ~IsFile(d)
  BY PathsAreNames DEF Exists, IsDir, IsFile
<1> QED
  BY <1>1 DEF DirRelation

LEMMA DirRelationSound ==
  ASSUME NEW p, NEW d, DirRelation(p, d).answer = "inside"
  PROVE  Beneath(Resolve(p), Resolve(d))
<1>1. Unknown.answer # "inside" /\ Outside.answer # "inside"
  BY DEF Unknown, Outside
<1>2. DirRelation(p, d) \in {Unknown, Outside, DirRelationResolved(Resolve(p), Resolve(d))}
  BY DEF DirRelation
<1>3. DirRelationResolved(Resolve(p), Resolve(d)).answer = "inside"
  BY <1>1, <1>2
<1> QED
  BY <1>3, InsideIsBeneath

LEMMA DirRelationComplete ==
  ASSUME TreeOK, SameDepth, NotTheRoot, NEW p \in Path, NEW d \in Path, d # <<>>,
         IsDir(d), Exists(p)
  PROVE  DirRelation(p, d).answer = "inside" <=> Beneath(Resolve(p), Resolve(d))
<1>1. Resolve(p) \in Path /\ Resolve(d) \in Path /\ Resolve(d) # <<>>
  BY ResolveIsPath
<1> QED
  BY <1>1, BeneathIsInside, DirRelationSound, DirRelationIsWalk

-----------------------------------------------------------------------------
(* Routing: the invariant.                                                 *)

(* A prefix that was resolved is still the prefix, until the link moves.   *)
PrefixInv ==
  /\ prefix \in Path
  /\ prefix # NotResolved /\ ~moved => prefix = CgiMountPrefix

RInv == TypeOK /\ PrefixInv

(* What TypeOK says of the paths. *)
LEMMA StatePaths ==
  ASSUME TypeOK
  PROVE  /\ TreeOK
         /\ static \in Path /\ cgi \in Path /\ script \in Path
         /\ NotTheRoot => <<>> \notin {static, cgi, script}
         /\ url \in Path /\ Clean(url) \in Path
<1>1. [static |-> static, cgi |-> cgi, script |-> script] \in Settings
  BY DEF TypeOK
<1>2. Settings \subseteq [static : Path, cgi : Path, script : Path]
  BY PathsAreNames
<1>3. static \in Path /\ cgi \in Path /\ script \in Path
  BY <1>1, <1>2
<1>4. NotTheRoot => <<>> \notin {static, cgi, script}
  BY <1>1 DEF NotTheRoot
<1>5. url \in Path
  BY PathsAreNames DEF TypeOK
<1> QED
  BY <1>3, <1>4, <1>5, CleanIsPath DEF TypeOK, TreeOK

(* A path below another. *)
LEMMA JoinedPath ==
  ASSUME NEW p \in Path, NEW q \in Path
  PROVE  p \o q \in Path
BY DEF Path

LEMMA EmptyPath == <<>> \in Path
BY DEF Path

(* The last names of a path are a suffix of it. *)
LEMMA LastNames ==
  ASSUME NEW q \in Path, NEW k \in 0..Len(q)
  PROVE  IsSuffix(SubSeq(q, Len(q) - k + 1, Len(q)), q)
<1> DEFINE t == SubSeq(q, Len(q) - k + 1, Len(q))
<1>1. Len(q) \in Nat /\ Len(q) - k \in 0..Len(q)
  BY DEF Path
<1>2. /\ t \in Path /\ Len(t) = k
      /\ \A i \in 1..k : t[i] = q[i + (Len(q) - k)]
  BY <1>1, RestProperties DEF Path
<1> HIDE DEF t
<1>3. /\ Reverse(t) \in Path /\ Len(Reverse(t)) = k
      /\ \A i \in 1..k : Reverse(t)[i] = t[k - i + 1]
  BY <1>2 DEF Reverse, Path
<1>4. /\ Reverse(q) \in Path /\ Len(Reverse(q)) = Len(q)
      /\ \A i \in 1..Len(q) : Reverse(q)[i] = q[Len(q) - i + 1]
  BY DEF Reverse, Path
<1>5. \A i \in 1..k : Reverse(t)[i] = Reverse(q)[i]
  <2> TAKE i \in 1..k
  <2>1. k - i + 1 \in 1..k /\ (k - i + 1) + (Len(q) - k) = Len(q) - i + 1 /\ i \in 1..Len(q)
    BY <1>1
  <2> QED
    BY <1>2, <1>3, <1>4, <2>1
<1>6. Start(Reverse(t), k) = Start(Reverse(q), k)
  <2>1. k \in 0..Len(Reverse(t)) /\ k \in 0..Len(Reverse(q))
    BY <1>3, <1>4
  <2>2. /\ Start(Reverse(t), k) \in Path /\ Start(Reverse(q), k) \in Path
        /\ Len(Start(Reverse(t), k)) = k /\ Len(Start(Reverse(q), k)) = k
        /\ \A i \in 1..k : Start(Reverse(t), k)[i] = Reverse(t)[i]
        /\ \A i \in 1..k : Start(Reverse(q), k)[i] = Reverse(q)[i]
    BY <1>3, <1>4, <2>1, StartProperties
  <2> QED
    BY <1>5, <2>2, SameSequence DEF Path
<1> QED
  BY <1>1, <1>3, <1>4, <1>6 DEF IsSuffix, IsPrefix, Start, t

LEMMA MountIsSuffix ==
  ASSUME TypeOK
  PROVE  CgiMountPrefix \in Path /\ IsSuffix(CgiMountPrefix, Resolve(cgi))
<1> DEFINE home == Resolve(cgi)
           top == Resolve(static)
           found == {k \in 0..Len(home) :
                       Separators(home) >= Separators(top) + k /\ Node(Up(home, k)) = Node(top)}
<1>1. home \in Path /\ Len(home) \in Nat
  <2>1. home \in Path
    BY StatePaths, ResolveIsPath
  <2> QED
    BY <2>1 DEF Path
<1>2. IsSuffix(<<>>, home)
  <2>1. SubSeq(home, Len(home) - 0 + 1, Len(home)) = <<>> /\ 0 \in 0..Len(home)
    <3> HIDE DEF home
    <3> QED
      BY <1>1 DEF Path
  <2> QED
    BY <1>1, <2>1, LastNames
<1>3. CASE CgiMountPrefix = <<>>
  BY <1>2, <1>3, EmptyPath
<1>4. CASE CgiMountPrefix # <<>>
  <2>1. CgiMountPrefix = DirRelation(cgi, static).rel
    BY <1>4 DEF CgiMountPrefix
  <2>2. DirRelation(cgi, static) \in {Unknown, Outside, DirRelationResolved(home, top)}
    BY DEF DirRelation
  <2>3. Unknown.rel = <<>> /\ Outside.rel = <<>>
    BY DEF Unknown, Outside
  <2>4. CgiMountPrefix = DirRelationResolved(home, top).rel
    BY <1>4, <2>1, <2>2, <2>3
  <2>5. found # {}
    <3>1. SUFFICES ASSUME found = {} PROVE FALSE
      OBVIOUS
    <3>2. DirRelationResolved(home, top) = Outside
      BY <3>1 DEF DirRelationResolved
    <3> QED
      BY <1>4, <2>3, <2>4, <3>2
  <2>6. DirRelationResolved(home, top)
          = Inside(SubSeq(home, Len(home) - Min(found) + 1, Len(home)))
    BY <2>5 DEF DirRelationResolved
  <2>7. CgiMountPrefix = SubSeq(home, Len(home) - Min(found) + 1, Len(home))
    <3>1. \A rel : Inside(rel).rel = rel
      BY DEF Inside
    <3> HIDE DEF found
    <3> QED
      BY <2>4, <2>6, <3>1
  <2>8. Min(found) \in 0..Len(home)
    <3>1. found \subseteq Nat /\ found \subseteq 0..Len(home)
      BY <1>1
    <3> HIDE DEF found
    <3> QED
      BY <2>5, <3>1, MinIsLeast
  <2>9. CgiMountPrefix \in Path
    <3> HIDE DEF home, found
    <3> QED
      BY <1>1, <2>7, <2>8 DEF Path
  <2> QED
    BY <1>1, <2>7, <2>8, <2>9, LastNames
<1> QED
  BY <1>3, <1>4

(* What only the tree and the flags decide. *)
LEMMA SameTree ==
  ASSUME UNCHANGED <<tree, flags>>
  PROVE  Resolve(cgi)' = Resolve(cgi) /\ CgiMountPrefix' = CgiMountPrefix
<1>1. link' = link /\ alias' = alias /\ static' = static /\ cgi' = cgi
  BY DEF tree, flags
<1>2. Resolve(cgi)' = Resolve(cgi)
  BY <1>1 DEF Resolve, FoldLeft, MapThenFoldSet, Enter, Node, NamedUnder
<1>3. DirRelation(cgi, static)' = DirRelation(cgi, static)
  BY <1>1, SMTT(30) DEF DirRelation, DirRelationResolved, Exists, IsDir, IsFile,
     Resolve, FoldLeft, MapThenFoldSet, Enter, Node, NamedUnder
<1>4. CgiMountPrefix' = CgiMountPrefix
  BY <1>1, <1>3 DEF CgiMountPrefix
<1> QED
  BY <1>2, <1>4

LEMMA RInvInit == Init => RInv
<1> SUFFICES ASSUME Init PROVE RInv
  OBVIOUS
<1>1. [static |-> static, cgi |-> cgi, script |-> script] \in Settings
  <2>1. PICK s \in Settings : static = s.static /\ cgi = s.cgi /\ script = s.script
    BY DEF Init
  <2>2. s = [static |-> s.static, cgi |-> s.cgi, script |-> s.script]
    BY PathsAreNames
  <2> QED
    BY <2>1, <2>2
<1>2. NotResolved \in Path
  <2>1. \A S : \A x \in S : <<x>> \in Seq(S)
    OBVIOUS
  <2>2. "not resolved" \in Name
    BY DEF Name
  <2> QED
    BY <2>1, <2>2, Zenon DEF NotResolved, Path
<1> QED
  BY <1>1, <1>2, PathsAreNames DEF Init, RInv, TypeOK, PrefixInv

LEMMA RInvNext == RInv /\ [Next]_vars => RInv'
<1> SUFFICES ASSUME RInv, [Next]_vars PROVE RInv'
  OBVIOUS
<1> USE DEF RInv, TypeOK, PrefixInv
<1>1. CASE Arrive
  BY <1>1, SameTree DEF Arrive, flags, tree
<1>2. CASE Flip
  BY <1>2 DEF Flip, flags
<1>3. CASE ServeWebSocket
  <2>1. UNCHANGED <<tree, flags, prefix, moved, url, upgrade>> /\ stage = "websocket"
    BY <1>3 DEF ServeWebSocket
  <2>2. \/ stage' = "cgi" /\ UNCHANGED <<how, file>>
        \/ stage' = "idle" /\ how' \in {"accept", "refuse"}
    BY <1>3 DEF ServeWebSocket, GetURLInfo, Answer, Refuse
  <2> QED
    BY <2>1, <2>2, SameTree DEF flags, tree
<1>4. CASE ServeCGI
  <2>1. UNCHANGED <<tree, flags, moved, url, upgrade>> /\ stage = "cgi"
    BY <1>4 DEF ServeCGI
  <2>2. \/ stage' = "static" /\ UNCHANGED <<how, file>>
        \/ stage' = "idle" /\ how' = "run"
    BY <1>4 DEF ServeCGI, Answer
  <2>3. prefix' = prefix \/ prefix' = CgiMount
    BY <1>4 DEF ServeCGI
  <2>4. prefix' = prefix \/ (prefix = NotResolved /\ prefix' = CgiMountPrefix)
    BY <2>3 DEF CgiMount
  <2>5. Resolve(cgi)' = Resolve(cgi) /\ CgiMountPrefix' = CgiMountPrefix
    BY <2>1, SameTree
  <2>6. CgiMountPrefix \in Path /\ IsSuffix(CgiMountPrefix, Resolve(cgi))
    BY MountIsSuffix
  <2>7. PrefixInv'
    BY <2>1, <2>4, <2>5, <2>6
  <2>8. (prefix = NotResolved \/ IsSuffix(prefix, Resolve(cgi)) \/ moved)'
    BY <2>1, <2>4, <2>5, <2>6
  <2> QED
    BY <2>1, <2>2, <2>7, <2>8 DEF flags, tree
<1>5. CASE ServeStatic
  <2>1. UNCHANGED <<tree, flags, prefix, moved, url, upgrade>>
    BY <1>5 DEF ServeStatic
  <2>2. stage' = "idle" /\ how' \in {"serve", "refuse"}
    BY <1>5 DEF ServeStatic, Answer, Refuse
  <2> QED
    BY <2>1, <2>2, SameTree DEF flags, tree
<1>6. CASE UNCHANGED vars
  BY <1>6, SameTree DEF vars, flags, tree
<1> QED
  BY <1>1, <1>2, <1>3, <1>4, <1>5, <1>6 DEF Next

LEMMA AlwaysRInv == Spec => []RInv
<1>1. Init => RInv
  BY RInvInit
<1>2. RInv /\ [Next]_vars => RInv'
  BY RInvNext
<1> QED
  BY <1>1, <1>2, PTL DEF Spec

(* Type correctness: among others, that a request is answered once and     *)
(* that the cached prefix names the end of the CGI directory's path.       *)
THEOREM TypeCorrect == Spec => []TypeOK
<1>1. RInv => TypeOK
  BY DEF RInv
<1> QED
  BY <1>1, AlwaysRInv, PTL

(* Whatever names lead to them, dirRelation tells whether a path lies in a *)
(* configured directory (comment of dirRelation), if second names are as   *)
(* deep as the first and no directory is the root.                         *)
THEOREM ContainmentIsByIdentity ==
  ASSUME SameDepth, NotTheRoot
  PROVE  Spec => []ContainmentByIdentity
<1>1. RInv => ContainmentByIdentity
  <2> SUFFICES ASSUME RInv,
                      NEW d \in {static, cgi, script},
                      NEW p \in {static, cgi, script, static \o Clean(url)},
                      IsDir(d), Exists(p)
               PROVE  DirRelation(p, d).answer = "inside" <=> Beneath(Resolve(p), Resolve(d))
    BY DEF ContainmentByIdentity
  <2>1. TypeOK
    BY DEF RInv
  <2>2. TreeOK /\ d \in Path /\ d # <<>> /\ p \in Path
    BY <2>1, StatePaths, JoinedPath
  <2> QED
    BY <2>2, DirRelationComplete
<1> QED
  BY <1>1, AlwaysRInv, PTL

-----------------------------------------------------------------------------
(* Routing: what is done with a file.                                      *)

(* The first name of a URL that is no directory. *)
LEMMA AcceptedInside ==
  ASSUME TypeOK, GetURLInfo, how' = "accept"
  PROVE  Beneath(Resolve(file'), Resolve(script))
<1> DEFINE At(i) == Clean(script \o SubSeq(url, 1, i))
           stops == {i \in 1..Len(url) : ~IsDir(At(i))}
<1>1. /\ stops # {} /\ CheckPathBoundary(At(Min(stops)), script)
      /\ file' = At(Min(stops))
  BY DEF GetURLInfo, Answer, Refuse
<1>2. Min(stops) \in 1..Len(url)
  <2>1. stops \subseteq 1..Len(url) /\ stops \subseteq Nat
    OBVIOUS
  <2> HIDE DEF stops
  <2> QED
    BY <1>1, <2>1, MinIsLeast
<1>3. TreeOK /\ script \in Path /\ url \in Path
  BY StatePaths
<1>4. ASSUME NEW i \in 1..Len(url)
      PROVE  At(i) \in Path
  <2>1. i \in 0..Len(url)
    OBVIOUS
  <2>2. SubSeq(url, 1, i) \in Path
    BY <1>3, <2>1, StartProperties DEF Start
  <2> QED
    BY <1>3, <2>2, JoinedPath, CleanIsPath
<1> QED
  BY <1>1, <1>2, <1>3, <1>4, AcceptedIsBeneath

(* The names a CGI script is looked for under. *)
LEMMA CandidatesArePaths ==
  ASSUME NEW path \in Path, NEW mount \in Path
  PROVE  /\ DOMAIN Candidates(path, mount) \subseteq {1, 2}
         /\ \A i \in DOMAIN Candidates(path, mount) : Candidates(path, mount)[i] \in Path
<1> DEFINE rest == SubSeq(path, Len(mount) + 1, Len(path))
<1>1. ASSUME IsPrefix(mount, path)
      PROVE  rest \in Path
  <2>1. Len(mount) \in 0..Len(path)
    BY <1>1 DEF IsPrefix, Path
  <2> QED
    BY <2>1, RestProperties DEF Path
<1>2. CASE mount # <<>> /\ IsPrefix(mount, path)
  <2>1. Candidates(path, mount) = <<path, rest>>
    BY <1>2 DEF Candidates
  <2> HIDE DEF rest
  <2> QED
    BY <1>1, <1>2, <2>1
<1>3. CASE ~(mount # <<>> /\ IsPrefix(mount, path))
  <2>1. Candidates(path, mount) = <<path>>
    BY <1>3 DEF Candidates
  <2> QED
    BY <2>1
<1> QED
  BY <1>2, <1>3

LEMMA RunInside ==
  ASSUME RInv, ServeCGI, how' = "run", how = "none"
  PROVE  Beneath(Resolve(file'), Resolve(cgi))
<1> DEFINE names == Candidates(Clean(url), CgiMount)
           fits == {i \in DOMAIN names : Runnable(names[i])}
<1>1. fits # {} /\ file' = cgi \o names[Min(fits)]
  BY DEF ServeCGI, Answer
<1>2. TreeOK /\ cgi \in Path /\ Clean(url) \in Path
  BY StatePaths DEF RInv
<1>0. CgiMount \in Path
  BY MountIsSuffix DEF CgiMount, RInv, PrefixInv
<1>3. DOMAIN names \subseteq {1, 2} /\ \A i \in DOMAIN names : names[i] \in Path
  BY <1>0, <1>2, CandidatesArePaths
<1>4. Min(fits) \in fits
  <2>1. fits \subseteq Nat
    BY <1>3
  <2> HIDE DEF fits
  <2> QED
    BY <1>1, <2>1, MinIsLeast
<1>5. names[Min(fits)] \in Path /\ CheckPathBoundary(cgi \o names[Min(fits)], cgi)
  BY <1>3, <1>4 DEF Runnable
<1> HIDE DEF names, fits
<1> QED
  BY <1>1, <1>2, <1>5, JoinedPath, AcceptedIsBeneath

(* A page is a file of the static directory that may be opened. *)
LEMMA PageIsPath ==
  ASSUME NEW path \in Path
  PROVE  Page(path) \in Path
<1>1. ASSUME path # <<>>
      PROVE  Front(path) \in Path
  BY <1>1 DEF Front, Path
<1> DEFINE named == IF path # <<>> /\ Last(path) = Index THEN Front(path) ELSE path
<1>2. named \in Path
  BY <1>1
<1> HIDE DEF named
<1>3. Append(named, Index) \in Path
  <2>1. Index \in Name
    BY DEF Name
  <2> QED
    BY <1>2, <2>1, LongerPath, Zenon
<1> QED
  BY <1>2, <1>3 DEF Page, named

LEMMA ServedIsOpen ==
  ASSUME TypeOK, ServeStatic, how' = "serve"
  PROVE  \E path \in Path : static # NoDir /\ MayOpen(path) /\ file' = static \o path
<1>1. Page(Clean(url)) \in Path
  BY StatePaths, PageIsPath
<1> QED
  BY <1>1 DEF ServeStatic, Answer, Refuse

(* Only one handler gives each answer. *)
LEMMA WhoAnswers ==
  ASSUME Next, how = "none", how' # "none"
  PROVE  \/ how' = "accept" /\ GetURLInfo
         \/ how' = "run" /\ ServeCGI
         \/ how' = "serve" /\ ServeStatic
         \/ how' = "refuse"
<1>1. CASE Arrive
  BY <1>1 DEF Arrive
<1>2. CASE Flip
  BY <1>2 DEF Flip
<1>3. CASE ServeWebSocket
  BY <1>3 DEF ServeWebSocket, GetURLInfo, Answer, Refuse
<1>4. CASE ServeCGI
  BY <1>4 DEF ServeCGI, Answer
<1>5. CASE ServeStatic
  BY <1>5 DEF ServeStatic, Answer, Refuse
<1> QED
  BY <1>1, <1>2, <1>3, <1>4, <1>5 DEF Next

(* What is run, accepted or served lies in the directory its handler is    *)
(* configured with, past every link and "..": whatever second names there  *)
(* are, and though the link may be flipped between any two handlers.       *)
THEOREM AnswersStayInside == Spec => StaysInside
<1>1. ASSUME RInv, [Next]_vars,
             NEW home \in {<<"run", cgi>>, <<"accept", script>>, <<"serve", static>>},
             how = "none", how' = home[1]
      PROVE  Beneath(Resolve(file'), Resolve(home[2]))
  <2>0. home = <<"run", cgi>> \/ home = <<"accept", script>> \/ home = <<"serve", static>>
    BY <1>1
  <2>1. how' \in {"run", "accept", "serve"}
    BY <1>1, <2>0
  <2>2. Next /\ TypeOK
    BY <1>1, <2>1 DEF vars, RInv
  <2>3. \/ how' = "accept" /\ GetURLInfo
        \/ how' = "run" /\ ServeCGI
        \/ how' = "serve" /\ ServeStatic
    BY <1>1, <2>1, <2>2, WhoAnswers
  <2>4. CASE home = <<"accept", script>>
    <3>1. how' = "accept" /\ home[2] = script
      BY <1>1, <2>4
    <3> QED
      BY <2>2, <2>3, <3>1, AcceptedInside
  <2>5. CASE home = <<"run", cgi>>
    <3>1. how' = "run" /\ home[2] = cgi
      BY <1>1, <2>5
    <3> QED
      BY <1>1, <2>3, <3>1, RunInside
  <2>6. CASE home = <<"serve", static>>
    <3>1. how' = "serve" /\ home[2] = static
      BY <1>1, <2>6
    <3>2. PICK path \in Path : MayOpen(path) /\ file' = static \o path
      BY <2>2, <2>3, <3>1, ServedIsOpen
    <3>3. TreeOK /\ static \in Path /\ static \o path \in Path
      BY <2>2, StatePaths, JoinedPath
    <3> QED
      BY <3>1, <3>2, <3>3, AcceptedIsBeneath DEF MayOpen
  <2> QED
    BY <2>0, <2>4, <2>5, <2>6
<1>2. RInv /\ [Next]_vars =>
        [\A home \in {<<"run", cgi>>, <<"accept", script>>, <<"serve", static>>} :
           how = "none" /\ how' = home[1] => Beneath(Resolve(file'), Resolve(home[2]))]_vars
  BY <1>1
<1> QED
  BY <1>2, AlwaysRInv, PTL DEF Spec, StaysInside

(* No file of a directory that is configured for execution is served as    *)
(* static content, whatever its URL, unless the static root lies in that   *)
(* directory itself.                                                       *)
THEOREM SourceStaysHidden ==
  ASSUME SameDepth, NotTheRoot
  PROVE  Spec => SourceNotServed
<1>1. ASSUME RInv, [Next]_vars, how = "none", how' = "serve",
             NEW d \in {cgi, script} \ {NoDir},
             IsDir(d), Beneath(Resolve(file'), Resolve(d))
      PROVE  Beneath(Resolve(static), Resolve(d))
  <2>1. Next /\ TypeOK
    BY <1>1 DEF vars, RInv
  <2>2. ServeStatic
    BY <1>1, <2>1, WhoAnswers
  <2>3. PICK path \in Path : MayOpen(path) /\ file' = static \o path
    BY <1>1, <2>1, <2>2, ServedIsOpen
  <2>4. TreeOK /\ static \o path \in Path /\ d \in Path /\ d # <<>>
    BY <1>1, <2>1, StatePaths, JoinedPath
  <2>5. Exists(static \o path)
    BY <2>3 DEF MayOpen
  <2>6. DirRelation(static \o path, d).answer = "inside"
    BY <1>1, <2>3, <2>4, <2>5, DirRelationComplete
  <2>7. d \notin ExecDirs
    BY <2>3, <2>6 DEF MayOpen
  <2>8. DirRelation(static, d).answer = "inside"
    BY <1>1, <2>7 DEF ExecDirs
  <2> QED
    BY <2>8, DirRelationSound
<1>2. RInv /\ [Next]_vars =>
        [how = "none" /\ how' = "serve" =>
           \A d \in {cgi, script} \ {NoDir} :
             IsDir(d) /\ Beneath(Resolve(file'), Resolve(d)) =>
               Beneath(Resolve(static), Resolve(d))]_vars
  BY <1>1
<1> QED
  BY <1>2, AlwaysRInv, PTL DEF Spec, SourceNotServed

(* The mount prefix is what the CGI directory's path has below the static  *)
(* root.                                                                   *)
LEMMA MountIsWhatIsBelow ==
  ASSUME TypeOK, SameDepth, NotTheRoot,
         NoDir \notin {cgi, static}, IsDir(cgi), IsDir(static),
         NEW k \in 1..Len(Resolve(cgi)), Node(Up(Resolve(cgi), k)) = Node(Resolve(static))
  PROVE  CgiMountPrefix
           = SubSeq(Resolve(cgi), Len(Resolve(cgi)) - k + 1, Len(Resolve(cgi)))
<1> DEFINE home == Resolve(cgi)
           top == Resolve(static)
           found == {j \in 0..Len(home) :
                       Separators(home) >= Separators(top) + j /\ Node(Up(home, j)) = Node(top)}
<1>1. TreeOK /\ home \in Path /\ top \in Path /\ top # <<>>
  BY StatePaths, ResolveIsPath
<1>2. k \in 0..Len(home) /\ Len(home) \in Nat /\ Len(top) \in Nat
  <2> HIDE DEF top
  <2> QED
    BY <1>1 DEF Path
<1>3. \A j \in 0..Len(home) : Node(Up(home, j)) = Node(top) =>
        j = Len(home) - Len(top) /\ Separators(home) >= Separators(top) + j
  BY <1>1, WhereItIsMet
<1>4. found = {k}
  <2>1. k \in found
    BY <1>2, <1>3
  <2>2. \A j \in found : j = k
    BY <1>2, <1>3
  <2> HIDE DEF found
  <2> QED
    BY <2>1, <2>2
<1>5. Min(found) = k
  <2>1. found \subseteq Nat
    BY <1>2, <1>4
  <2> HIDE DEF found
  <2> QED
    BY <1>4, <2>1, MinIsLeast
<1>6. DirRelationResolved(home, top)
        = Inside(SubSeq(home, Len(home) - Min(found) + 1, Len(home)))
  BY <1>4 DEF DirRelationResolved
<1>7. DirRelation(cgi, static) = DirRelationResolved(home, top)
  BY DirRelationIsWalk DEF Exists
<1> HIDE DEF found
<1>8. DirRelation(cgi, static) = Inside(SubSeq(home, Len(home) - k + 1, Len(home)))
  BY <1>5, <1>6, <1>7
<1> QED
  BY <1>8 DEF CgiMountPrefix, Inside

(* A script of a CGI directory inside the static tree is run at its path   *)
(* there, however the two flags are spelled.                               *)
THEOREM NaturalURLIsRun ==
  ASSUME SameDepth, NotTheRoot
  PROVE  Spec => NaturalURLRuns
<1> DEFINE home == Resolve(cgi)
           path == Clean(url)
           mount(k) == SubSeq(home, Len(home) - k + 1, Len(home))
           rest(k) == SubSeq(path, k + 1, Len(path))
           Natural(k) ==
             /\ Node(Up(home, k)) = Node(Resolve(static))
             /\ IsStrictPrefix(mount(k), path)
             /\ IsFile(home \o rest(k)) /\ Resolve(home \o rest(k)) = home \o rest(k)
<1>1. ASSUME RInv, [Next]_vars, stage = "cgi", stage' # stage, ~moved,
             NoDir \notin {cgi, static}, IsDir(cgi), IsDir(static),
             NEW k \in 1..Len(home), Natural(k)
      PROVE  how' = "run"
  <2>1. TypeOK /\ ServeCGI
    BY <1>1 DEF RInv, vars, Next, Arrive, Flip, ServeWebSocket, ServeStatic
  <2>2. TreeOK /\ cgi \in Path /\ path \in Path
    BY <2>1, StatePaths
  <2>3. home \in Path /\ Resolve(home) = home
    BY <2>2, ResolveIsPath, ResolveAgain
  <2> HIDE DEF path
  <2>4. CgiMount = mount(k)
    <3>1. CgiMountPrefix = mount(k)
      BY <1>1, <2>1, MountIsWhatIsBelow
    <3> QED
      BY <1>1, <3>1 DEF CgiMount, RInv, PrefixInv
  <2>5. mount(k) \in Path /\ Len(mount(k)) = k
    <3> HIDE DEF home
    <3>1. Len(home) - k \in 0..Len(home)
      BY <1>1, <2>3 DEF Path
    <3> QED
      BY <1>1, <2>3, <3>1, RestProperties DEF Path
  <2>6. IsPrefix(mount(k), path) /\ mount(k) # path
    BY <1>1 DEF IsStrictPrefix
  <2> HIDE DEF home
  <2>7. k \in 0..Len(path) /\ k < Len(path)
    <3>1. k <= Len(path) /\ SubSeq(mount(k), 1, k) = SubSeq(path, 1, k)
      BY <2>5, <2>6 DEF IsPrefix
    <3>2. k \in 0..Len(path) /\ Len(path) \in Nat
      BY <1>1, <2>2, <2>3, <3>1 DEF Path
    <3>3. SubSeq(mount(k), 1, Len(mount(k))) = mount(k) /\ SubSeq(path, 1, Len(path)) = path
      BY <2>2, <2>5 DEF Path
    <3>4. k # Len(path)
      BY <2>5, <2>6, <3>1, <3>3
    <3> QED
      BY <3>2, <3>4
  <2>8. rest(k) \in Path /\ rest(k) # <<>>
    <3>1. rest(k) \in Path /\ Len(rest(k)) = Len(path) - k
      BY <2>2, <2>7, RestProperties DEF Path
    <3>2. Len(path) \in Nat
      BY <2>2 DEF Path
    <3>3. Len(rest(k)) # 0
      BY <2>7, <3>1, <3>2
    <3> HIDE DEF rest
    <3> QED
      BY <3>1, <3>3
  <2>9. mount(k) # <<>>
    <3> HIDE DEF mount
    <3>1. Len(mount(k)) # 0
      BY <1>1, <2>5
    <3> QED
      BY <3>1
  <2>10. Candidates(path, CgiMount) = <<path, rest(k)>>
    BY <2>4, <2>5, <2>6, <2>9 DEF Candidates
  <2> HIDE DEF mount, rest
  <2>11. Resolve(cgi \o rest(k)) = home \o rest(k)
    <3>1. Resolve(cgi) = Resolve(home)
      BY <2>3 DEF home
    <3> QED
      BY <1>1, <2>2, <2>3, <2>8, <3>1, ResolveConcat
  <2>12. IsFile(cgi \o rest(k))
    BY <1>1, <2>11 DEF IsFile
  <2>13. CheckPathBoundary(cgi \o rest(k), cgi)
    <3>1. Exists(cgi \o rest(k)) /\ Exists(cgi)
      BY <1>1, <2>12 DEF Exists
    <3>2. IsPrefix(home, home \o rest(k)) /\ home # <<>>
      BY <1>1, <2>3, <2>8 DEF IsPrefix, Path
    <3> QED
      BY <2>11, <3>1, <3>2 DEF CheckPathBoundary, HasPrefix, home
  <2>14. Runnable(rest(k))
    BY <2>8, <2>12, <2>13 DEF Runnable
  <2>15. {i \in DOMAIN Candidates(path, CgiMount) :
            Runnable(Candidates(path, CgiMount)[i])} # {}
    <3>1. /\ 2 \in DOMAIN Candidates(path, CgiMount)
          /\ Candidates(path, CgiMount)[2] = rest(k)
      BY <2>10
    <3> QED
      BY <2>14, <3>1
  <2> QED
    BY <1>1, <2>1, <2>15 DEF ServeCGI, Answer, path
<1>2. RInv /\ [Next]_vars =>
        [/\ stage = "cgi" /\ stage' # stage /\ ~moved
         /\ NoDir \notin {cgi, static} /\ IsDir(cgi) /\ IsDir(static)
         => \A k \in 1..Len(home) : Natural(k) => how' = "run"]_vars
  BY <1>1
<1> QED
  BY <1>2, AlwaysRInv, PTL DEF Spec, NaturalURLRuns
=============================================================================
