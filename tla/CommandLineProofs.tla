--------------------------- MODULE CommandLineProofs ---------------------------
(***************************************************************************)
(* The inductive invariants of the four parts of CommandLine, and what the  *)
(* composition promises: the writes of project information stand, the last *)
(* layer of an environment wins, what is validated is what starts, a key    *)
(* acts on the row that is marked, the rows are the first in the order that *)
(* is asked for, and the two front ends come to the same.                   *)
(***************************************************************************)
EXTENDS CommandLine, FiniteSetTheorems, SequenceTheorems, WellFoundedInduction, TLAPS

-----------------------------------------------------------------------------
(* Induction on the natural numbers, and layers *)

\* A set of natural numbers that is not empty has a least one: what fails for some layer fails
\* for a first one.
LEMMA LeastOf ==
    ASSUME NEW T \in SUBSET Nat, T # {}
    PROVE  \E m \in T : \A n \in T : m =< n
<1>1. PICK x \in T : \A y \in T : ~(<<y, x>> \in OpToRel(<, Nat))
  BY NatLessThanWellFounded, WFMin
<1>2. \A y \in T : ~(y < x)
  BY <1>1 DEF OpToRel
<1> QED
  BY <1>2

\* A set of layers that is not empty has a last one.
LEMMA MaxOf ==
    ASSUME NEW n \in Nat, NEW S \in SUBSET (1 .. n), S # {}
    PROVE  Max(S) \in S /\ \A y \in S : y =< Max(S)
<1> DEFINE T == {m \in Nat : \A x \in S : x =< m}
<1>1. n \in T
  OBVIOUS
<1>2. PICK m \in T : \A l \in T : m =< l
  BY <1>1, LeastOf
<1>3. m \in S
  <2>1. SUFFICES ASSUME m \notin S PROVE FALSE
    OBVIOUS
  <2>2. \A x \in S : x =< m - 1 /\ x >= 1
    BY <1>2, <2>1
  <2>3. PICK x \in S : TRUE
    OBVIOUS
  <2>4. m - 1 \in T
    BY <1>2, <2>2, <2>3
  <2> QED
    BY <1>2, <2>4
<1>4. \A x \in S : (\A y \in S : x >= y) => x = m
  BY <1>2, <1>3
<1>5. Max(S) = m
  BY <1>2, <1>3, <1>4 DEF Max
<1> QED
  BY <1>2, <1>3, <1>5

\* Some layer says something of the key.
Mentions(layers, k) == \E i \in DOMAIN layers : k \in DOMAIN layers[i]

\* Layer i is the last of n that mentions k.
LastAt(layers, n, i, k) ==
    i \in 1 .. n /\ k \in DOMAIN layers[i] /\ \A j \in (i + 1) .. n : k \notin DOMAIN layers[j]

\* The last word on a key is what the last layer that mentions it says.
LEMMA LastWordIs ==
    ASSUME NEW n \in Nat, NEW layers, DOMAIN layers = 1 .. n, NEW k
    PROVE  /\ ~Mentions(layers, k) => LastWord(layers, k) = "inherited"
           /\ Mentions(layers, k) => \E i : LastAt(layers, n, i, k)
           /\ \A i : LastAt(layers, n, i, k) => LastWord(layers, k) = layers[i][k]
<1> DEFINE said == {i \in DOMAIN layers : k \in DOMAIN layers[i]}
<1>1. LastWord(layers, k) = IF said = {} THEN "inherited" ELSE layers[Max(said)][k]
  BY DEF LastWord
<1>2. Mentions(layers, k) <=> said # {}
  BY DEF Mentions
<1>3. ASSUME said # {}
      PROVE  /\ LastAt(layers, n, Max(said), k)
             /\ \A i : LastAt(layers, n, i, k) => i = Max(said)
  <2> DEFINE m == Max(said)
  <2>1. said \in SUBSET (1 .. n)
    OBVIOUS
  <2>2. m \in said /\ \A y \in said : y =< m
    <3> HIDE DEF said
    <3> QED
      BY <1>3, <2>1, MaxOf
  <2> HIDE DEF m
  <2>3. LastAt(layers, n, m, k)
    <3>1. m \in 1 .. n /\ k \in DOMAIN layers[m]
      BY <2>2
    <3>2. \A j \in (m + 1) .. n : j \notin said /\ j \in 1 .. n
      BY <2>2, <3>1
    <3> QED
      BY <3>1, <3>2 DEF LastAt
  <2>4. ASSUME NEW i, LastAt(layers, n, i, k)
        PROVE  i = m
    <3>1. i \in 1 .. n /\ i \in said /\ \A j \in (i + 1) .. n : j \notin said
      BY <2>4 DEF LastAt
    <3>2. m \in 1 .. n /\ i =< m
      BY <2>2, <3>1
    <3>3. ~(m > i)
      BY <2>2, <3>1, <3>2
    <3> QED
      BY <3>1, <3>2, <3>3
  <2> QED
    BY <2>3, <2>4 DEF m
<1>4. ASSUME NEW i, LastAt(layers, n, i, k)
      PROVE  said # {}
  BY <1>4 DEF LastAt
<1> HIDE DEF said
<1> QED
  BY <1>1, <1>2, <1>3, <1>4

\* The layers of a worker: what each sets or, with "unset", removes.
Layer == (UNION {[ks -> Settings \union {"unset"}] : ks \in SUBSET Keys}) \union {Failed}

\* The layers on top have the last word on what they mention.
LEMMA LastWordOfTwo ==
    ASSUME NEW s \in Seq(Layer), NEW t \in Seq(Layer), NEW k
    PROVE  /\ Mentions(s \o t, k) <=> Mentions(s, k) \/ Mentions(t, k)
           /\ LastWord(s \o t, k) = IF Mentions(t, k) THEN LastWord(t, k) ELSE LastWord(s, k)
<1> DEFINE m == Len(s)
           n == Len(t)
           st == s \o t
<1>1. /\ m \in Nat /\ n \in Nat /\ DOMAIN s = 1 .. m /\ DOMAIN t = 1 .. n
      /\ DOMAIN st = 1 .. (m + n)
      /\ \A i \in 1 .. m : st[i] = s[i]
      /\ \A i \in 1 .. n : st[m + i] = t[i]
  OBVIOUS
<1> HIDE DEF m, n, st
<1>2. \A i \in 1 .. (m + n) : i \in 1 .. m \/ (i - m \in 1 .. n /\ i = m + (i - m))
  BY <1>1
<1>3. Mentions(st, k) <=> Mentions(s, k) \/ Mentions(t, k)
  <2>1. ASSUME NEW i \in 1 .. m, k \in DOMAIN s[i] PROVE Mentions(st, k)
    BY <2>1, <1>1 DEF Mentions
  <2>2. ASSUME NEW i \in 1 .. n, k \in DOMAIN t[i] PROVE Mentions(st, k)
    <3>1. m + i \in 1 .. (m + n)
      BY <1>1
    <3> QED
      BY <2>2, <3>1, <1>1 DEF Mentions
  <2>3. ASSUME NEW i \in 1 .. (m + n), k \in DOMAIN st[i] PROVE Mentions(s, k) \/ Mentions(t, k)
    BY <2>3, <1>1, <1>2 DEF Mentions
  <2> QED
    BY <2>1, <2>2, <2>3, <1>1 DEF Mentions
<1>4. CASE Mentions(t, k)
  <2>1. PICK i : LastAt(t, n, i, k)
    BY <1>1, <1>4, LastWordIs
  <2>2. i \in 1 .. n /\ k \in DOMAIN t[i] /\ \A j \in (i + 1) .. n : k \notin DOMAIN t[j]
    BY <2>1 DEF LastAt
  <2>3. \A j \in ((m + i) + 1) .. (m + n) : j - m \in (i + 1) .. n /\ j = m + (j - m) /\ j - m \in 1 .. n
    BY <1>1, <2>2
  <2>4. \A j \in ((m + i) + 1) .. (m + n) : k \notin DOMAIN st[j]
    BY <1>1, <2>2, <2>3
  <2>5. m + i \in 1 .. (m + n) /\ st[m + i] = t[i]
    BY <1>1, <2>2
  <2>6. LastAt(st, m + n, m + i, k)
    BY <2>2, <2>4, <2>5 DEF LastAt
  <2>7. LastWord(st, k) = t[i][k]
    BY <2>5, <2>6, <1>1, LastWordIs
  <2>8. LastWord(t, k) = t[i][k]
    BY <2>1, <1>1, LastWordIs
  <2> QED
    BY <1>3, <1>4, <2>7, <2>8 DEF st
<1>5. CASE ~Mentions(t, k) /\ Mentions(s, k)
  <2>1. PICK i : LastAt(s, m, i, k)
    BY <1>1, <1>5, LastWordIs
  <2>2. i \in 1 .. m /\ k \in DOMAIN s[i] /\ \A j \in (i + 1) .. m : k \notin DOMAIN s[j]
    BY <2>1 DEF LastAt
  <2>3. ASSUME NEW j \in (i + 1) .. (m + n) PROVE k \notin DOMAIN st[j]
    <3>1. j \in 1 .. (m + n)
      BY <1>1, <2>2
    <3>2. CASE j \in 1 .. m
      <4>1. j \in (i + 1) .. m
        BY <3>2, <2>2, <1>1
      <4> QED
        BY <4>1, <3>2, <2>2, <1>1
    <3>3. CASE j - m \in 1 .. n /\ j = m + (j - m)
      BY <3>3, <1>1, <1>5 DEF Mentions
    <3> QED
      BY <3>1, <3>2, <3>3, <1>2
  <2>4. LastAt(st, m + n, i, k) /\ st[i] = s[i]
    BY <1>1, <2>2, <2>3 DEF LastAt
  <2>5. LastWord(st, k) = s[i][k]
    BY <2>4, <1>1, LastWordIs
  <2>6. LastWord(s, k) = s[i][k]
    BY <2>1, <1>1, LastWordIs
  <2> QED
    BY <1>3, <1>5, <2>5, <2>6 DEF st
<1>6. CASE ~Mentions(t, k) /\ ~Mentions(s, k)
  <2>1. LastWord(st, k) = "inherited" /\ LastWord(s, k) = "inherited"
    BY <1>1, <1>3, <1>6, LastWordIs
  <2> QED
    BY <1>3, <1>6, <2>1 DEF st
<1> QED
  BY <1>4, <1>5, <1>6

\* One layer alone has the last word.
LEMMA LastWordOfOne ==
    ASSUME NEW f, NEW k
    PROVE  /\ Mentions(<<f>>, k) <=> k \in DOMAIN f
           /\ LastWord(<<f>>, k) = IF k \in DOMAIN f THEN f[k] ELSE "inherited"
<1>1. DOMAIN <<f>> = 1 .. 1 /\ <<f>>[1] = f
  OBVIOUS
<1>2. Mentions(<<f>>, k) <=> k \in DOMAIN f
  BY <1>1 DEF Mentions
<1>3. k \in DOMAIN f => LastAt(<<f>>, 1, 1, k)
  BY <1>1 DEF LastAt
<1> QED
  BY <1>1, <1>2, <1>3, LastWordIs

\* Without a layer everything is inherited.
LEMMA LastWordOfNone == \A k : ~Mentions(<<>>, k) /\ LastWord(<<>>, k) = "inherited"
<1>1. DOMAIN <<>> = 1 .. 0
  OBVIOUS
<1>2. \A k : ~Mentions(<<>>, k)
  BY <1>1 DEF Mentions
<1> QED
  BY <1>1, <1>2, LastWordIs

-----------------------------------------------------------------------------
(* Profiles: environments put together from layers *)

\* An environment over another one is an environment.
LEMMA EnvOver ==
    ASSUME NEW f \in EnvMaps, NEW g \in EnvMaps
    PROVE  /\ f ++ g \in EnvMaps
           /\ DOMAIN (f ++ g) = DOMAIN f \union DOMAIN g
           /\ \A k \in DOMAIN (f ++ g) : (f ++ g)[k] = IF k \in DOMAIN f THEN f[k] ELSE g[k]
<1>1. PICK ks \in SUBSET Keys : f \in [ks -> Settings]
  BY DEF EnvMaps
<1>2. PICK ls \in SUBSET Keys : g \in [ls -> Settings]
  BY DEF EnvMaps
<1>3. f ++ g \in [ks \union ls -> Settings] /\ ks \union ls \in SUBSET Keys
  BY <1>1, <1>2 DEF ++
<1> QED
  BY <1>1, <1>2, <1>3 DEF EnvMaps, ++

\* What one environment over another one is.
LiesOver(r, f, g) ==
    /\ r \in EnvMaps /\ DOMAIN r = DOMAIN f \union DOMAIN g
    /\ \A k \in DOMAIN r : r[k] = IF k \in DOMAIN f THEN f[k] ELSE g[k]

\* The same of any two.
LEMMA EnvsOver == \A f, g \in EnvMaps : LiesOver(f ++ g, f, g)
BY EnvOver DEF LiesOver

\* An environment is a layer, and its keys are keys.
LEMMA EnvDomain == \A e \in EnvMaps : DOMAIN e \in SUBSET Keys /\ e \in Layer
<1> SUFFICES ASSUME NEW e \in EnvMaps PROVE DOMAIN e \in SUBSET Keys /\ e \in Layer
  OBVIOUS
<1>1. PICK ks \in SUBSET Keys : e \in [ks -> Settings]
  BY DEF EnvMaps
<1>2. e \in [ks -> Settings \union {"unset"}]
  BY <1>1
<1> QED
  BY <1>1, <1>2 DEF Layer

\* The empty environment is one.
LEMMA NoKeysIsEnv == NoKeys \in EnvMaps /\ DOMAIN NoKeys = {}
<1>1. NoKeys \in [{} -> Settings]
  BY DEF NoKeys
<1> QED
  BY <1>1 DEF EnvMaps, NoKeys

\* A file that cannot be read counts as a layer.
LEMMA FailedIsLayer == Failed \in Layer
BY DEF Layer

\* The layer that removes keys.
LEMMA RemovingIs ==
    ASSUME NEW ks \in SUBSET Keys
    PROVE  Removing(ks) \in Layer /\ DOMAIN Removing(ks) = ks /\ \A k \in ks : Removing(ks)[k] = "unset"
<1>1. Removing(ks) \in [ks -> Settings \union {"unset"}]
  BY DEF Removing
<1> QED
  BY <1>1 DEF Removing, Layer

\* The layers up to one are put over one another.
Over(over, layers, env, n) ==
    over = [m \in 0..n |-> IF m = 0 THEN env ELSE layers[m] ++ over[m - 1]]

\* The recursive function of Layered exists: there is one for every number of layers.
LEMMA LayersCanBeLaid ==
    ASSUME NEW layers, NEW env, NEW n \in Nat
    PROVE  \E over : Over(over, layers, env, n)
<1> DEFINE T == {m \in Nat : ~\E over : Over(over, layers, env, m)}
<1> SUFFICES ASSUME T # {} PROVE FALSE
  OBVIOUS
<1>1. PICK m \in T : \A l \in T : m =< l
  BY LeastOf
<1>2. CASE m = 0
  <2> DEFINE over == [i \in 0..0 |-> env]
  <2>1. Over(over, layers, env, 0)
    BY DEF Over
  <2> QED
    BY <1>2, <2>1
<1>3. CASE m # 0
  <2>1. m \in Nat /\ m - 1 \in Nat /\ m - 1 \notin T
    BY <1>1, <1>3
  <2>2. PICK under : Over(under, layers, env, m - 1)
    BY <2>1
  <2>3. under = [i \in 0 .. (m - 1) |-> IF i = 0 THEN env ELSE layers[i] ++ under[i - 1]]
    BY <2>2 DEF Over
  <2> DEFINE over == [i \in 0..m |-> IF i = m THEN layers[m] ++ under[m - 1] ELSE under[i]]
  <2>4. \A i \in 0..m : over[i] = IF i = 0 THEN env ELSE layers[i] ++ over[i - 1]
    <3> SUFFICES ASSUME NEW i \in 0..m PROVE over[i] = IF i = 0 THEN env ELSE layers[i] ++ over[i - 1]
      OBVIOUS
    <3>1. CASE i = m
      <4>1. over[m] = layers[m] ++ under[m - 1] /\ over[m - 1] = under[m - 1]
        BY <2>1
      <4> QED
        BY <3>1, <4>1, <1>3
    <3>2. CASE i = 0
      BY <3>2, <2>1, <2>3, <1>3
    <3>3. CASE i # m /\ i # 0
      <4>1. i \in 0 .. (m - 1) /\ i - 1 \in 0 .. (m - 1) /\ i - 1 # m
        BY <3>3, <2>1
      <4>2. over[i] = under[i] /\ over[i - 1] = under[i - 1]
        BY <4>1, <3>3, <2>1
      <4>3. under[i] = layers[i] ++ under[i - 1]
        BY <4>1, <3>3, <2>3
      <4> QED
        BY <3>3, <4>2, <4>3
    <3> QED
      BY <3>1, <3>2, <3>3
  <2>5. over = [i \in 0..m |-> over[i]]
    OBVIOUS
  <2> HIDE DEF over
  <2>6. Over(over, layers, env, m)
    BY <2>4, <2>5 DEF Over
  <2> QED
    BY <2>6
<1> QED
  BY <1>2, <1>3

\* Layered is what that function says for all the layers.
LEMMA LayeredIsLaid ==
    ASSUME NEW layers, NEW env, Len(layers) \in Nat
    PROVE  \E over : Over(over, layers, env, Len(layers)) /\ Layered(layers, env) = over[Len(layers)]
<1> DEFINE laid == CHOOSE over : Over(over, layers, env, Len(layers))
<1>1. Layered(layers, env) = laid[Len(layers)]
  BY DEF Layered, Over
<1>2. Over(laid, layers, env, Len(layers))
  <2>1. \E over : Over(over, layers, env, Len(layers))
    BY LayersCanBeLaid
  <2> HIDE DEF Over
  <2> QED
    BY <2>1
<1> HIDE DEF laid
<1> QED
  BY <1>1, <1>2

\* What the first n layers have made of an environment.
Told(e, layers, env, n) ==
    /\ e \in EnvMaps
    /\ \A k \in Keys :
         /\ k \in DOMAIN e <=> k \in DOMAIN env \/ \E i \in 1 .. n : k \in DOMAIN layers[i]
         /\ \A i : LastAt(layers, n, i, k) => e[k] = layers[i][k]
         /\ k \in DOMAIN env /\ (\A i \in 1 .. n : k \notin DOMAIN layers[i]) => e[k] = env[k]

\* Before the first layer there is what was there.
LEMMA ToldNone ==
    ASSUME NEW layers, NEW env \in EnvMaps
    PROVE  Told(env, layers, env, 0)
BY DEF Told, LastAt

\* One more layer, over what the earlier ones have told.
LEMMA ToldNext ==
    ASSUME NEW layers, NEW env \in EnvMaps, NEW n \in Nat, n # 0, layers[n] \in EnvMaps,
           NEW e, Told(e, layers, env, n - 1)
    PROVE  Told(layers[n] ++ e, layers, env, n)
<1> DEFINE l == layers[n]
           r == l ++ e
<1>1. /\ e \in EnvMaps /\ l \in EnvMaps /\ r \in EnvMaps /\ DOMAIN r = DOMAIN l \union DOMAIN e
      /\ \A k \in DOMAIN r : r[k] = IF k \in DOMAIN l THEN l[k] ELSE e[k]
  <2>1. e \in EnvMaps /\ l \in EnvMaps
    BY DEF Told
  <2> HIDE DEF l
  <2> HIDE DEF r
  <2>2. LiesOver(r, l, e)
    BY <2>1, EnvsOver DEF r
  <2> QED
    BY <2>1, <2>2 DEF LiesOver
<1> HIDE DEF r
<1>2. 1 .. n = 1 .. (n - 1) \union {n} /\ n \notin 1 .. (n - 1)
  OBVIOUS
<1>3. ASSUME NEW k \in Keys
      PROVE  /\ k \in DOMAIN r <=> k \in DOMAIN env \/ \E i \in 1 .. n : k \in DOMAIN layers[i]
             /\ \A i : LastAt(layers, n, i, k) => r[k] = layers[i][k]
             /\ k \in DOMAIN env /\ (\A i \in 1 .. n : k \notin DOMAIN layers[i]) => r[k] = env[k]
  <2>1. /\ k \in DOMAIN e <=> k \in DOMAIN env \/ \E i \in 1 .. (n - 1) : k \in DOMAIN layers[i]
        /\ \A i : LastAt(layers, n - 1, i, k) => e[k] = layers[i][k]
        /\ k \in DOMAIN env /\ (\A i \in 1 .. (n - 1) : k \notin DOMAIN layers[i]) => e[k] = env[k]
    BY DEF Told
  <2>2. k \in DOMAIN r <=> k \in DOMAIN env \/ \E i \in 1 .. n : k \in DOMAIN layers[i]
    BY <1>1, <1>2, <2>1
  <2>3. ASSUME NEW i, LastAt(layers, n, i, k)
        PROVE  r[k] = layers[i][k]
    <3>1. i \in 1 .. n /\ k \in DOMAIN layers[i] /\ \A j \in (i + 1) .. n : k \notin DOMAIN layers[j]
      BY <2>3 DEF LastAt
    <3>2. CASE i = n
      BY <3>1, <3>2, <1>1
    <3>3. CASE i # n
      <4>1. i \in 1 .. (n - 1) /\ n \in (i + 1) .. n /\ \A j \in (i + 1) .. (n - 1) : j \in (i + 1) .. n
        BY <3>1, <3>3
      <4>2. LastAt(layers, n - 1, i, k) /\ k \notin DOMAIN l
        BY <3>1, <4>1 DEF LastAt
      <4>3. e[k] = layers[i][k] /\ k \in DOMAIN e
        BY <4>1, <4>2, <3>1, <2>1
      <4> QED
        BY <4>2, <4>3, <1>1
    <3> QED
      BY <3>2, <3>3
  <2>4. ASSUME k \in DOMAIN env, \A i \in 1 .. n : k \notin DOMAIN layers[i]
        PROVE  r[k] = env[k]
    <3>1. k \in DOMAIN e /\ k \notin DOMAIN l /\ e[k] = env[k]
      BY <2>1, <2>4, <1>2
    <3> QED
      BY <3>1, <1>1
  <2> QED
    BY <2>2, <2>3, <2>4
<1> QED
  BY <1>1, <1>3 DEF Told, r

\* The layers put over an environment: induction on how many there are.
LEMMA LayeredTold ==
    ASSUME NEW layers \in Seq(EnvMaps), NEW env \in EnvMaps
    PROVE  Told(Layered(layers, env), layers, env, Len(layers))
<1>1. Len(layers) \in Nat /\ \A n \in 1 .. Len(layers) : layers[n] \in EnvMaps
  OBVIOUS
<1>2. PICK over : Over(over, layers, env, Len(layers)) /\ Layered(layers, env) = over[Len(layers)]
  BY <1>1, LayeredIsLaid
<1>3. \A n \in 0 .. Len(layers) : over[n] = IF n = 0 THEN env ELSE layers[n] ++ over[n - 1]
  BY <1>2 DEF Over
<1> DEFINE T == {n \in 0 .. Len(layers) : ~Told(over[n], layers, env, n)}
<1>4. T = {}
  <2> SUFFICES ASSUME T # {} PROVE FALSE
    OBVIOUS
  <2>1. T \in SUBSET Nat
    BY <1>1
  <2>2. PICK n \in T : \A m \in T : n =< m
    BY <2>1, LeastOf
  <2>3. CASE n = 0
    BY <2>3, <1>1, <1>3, ToldNone
  <2>4. CASE n # 0
    <3>1. n \in Nat /\ n \in 1 .. Len(layers) /\ n - 1 \in 0 .. Len(layers) /\ n - 1 \notin T
      BY <2>2, <2>4, <1>1
    <3>2. Told(over[n - 1], layers, env, n - 1)
      BY <3>1
    <3>3. Told(layers[n] ++ over[n - 1], layers, env, n)
      BY <3>1, <3>2, <2>4, <1>1, ToldNext
    <3>4. over[n] = layers[n] ++ over[n - 1]
      BY <3>1, <2>4, <1>3
    <3> QED
      BY <3>3, <3>4
  <2> QED
    BY <2>3, <2>4
<1>5. Len(layers) \in 0 .. Len(layers)
  BY <1>1
<1> QED
  BY <1>2, <1>4, <1>5

\* Who has the last word of an environment and the layers over it.
LEMMA LayeredIs ==
    ASSUME NEW layers \in Seq(EnvMaps), NEW env \in EnvMaps
    PROVE  /\ Layered(layers, env) \in EnvMaps
           /\ \A k \in Keys :
                /\ k \in DOMAIN Layered(layers, env) <=> k \in DOMAIN env \/ Mentions(layers, k)
                /\ Mentions(layers, k) => Layered(layers, env)[k] = LastWord(layers, k)
                /\ k \in DOMAIN env /\ ~Mentions(layers, k) => Layered(layers, env)[k] = env[k]
<1> DEFINE e == Layered(layers, env)
           n == Len(layers)
<1>1. n \in Nat /\ DOMAIN layers = 1 .. n
  OBVIOUS
<1>2. Told(e, layers, env, n)
  BY LayeredTold
<1> HIDE DEF e, n
<1>3. ASSUME NEW k \in Keys
      PROVE  /\ k \in DOMAIN e <=> k \in DOMAIN env \/ Mentions(layers, k)
             /\ Mentions(layers, k) => e[k] = LastWord(layers, k)
             /\ k \in DOMAIN env /\ ~Mentions(layers, k) => e[k] = env[k]
  <2>1. Mentions(layers, k) => \E i : LastAt(layers, n, i, k) /\ LastWord(layers, k) = layers[i][k]
    BY <1>1, LastWordIs
  <2>2. Mentions(layers, k) <=> \E i \in 1 .. n : k \in DOMAIN layers[i]
    BY <1>1 DEF Mentions
  <2> QED
    BY <1>2, <2>1, <2>2 DEF Told
<1> QED
  BY <1>2, <1>3 DEF Told, e

-----------------------------------------------------------------------------
(* Profiles: files *)

\* A file that is parsed gives the layers of its lines, and an environment.
LEMMA ReadFileIs ==
    ASSUME text \in [EnvFiles -> Contents], NEW f \in EnvFiles
    PROVE  ReadFile(f) \in EnvMaps \union {Failed}
<1> DEFINE lines == text[f]
<1>1. lines \in Seq(EnvMaps \union {Garbled})
  BY ProfileAssumption
<1> HIDE DEF lines
<1>2. CASE Garbled \in Range(lines)
  BY <1>2 DEF ReadFile, ParseFile, lines
<1>3. CASE Garbled \notin Range(lines)
  <2>1. \A i \in 1 .. Len(lines) : lines[i] \in EnvMaps
    BY <1>1, <1>3 DEF Range
  <2>2. lines \in Seq(EnvMaps)
    BY <1>1, <2>1
  <2>3. Layered(lines, NoKeys) \in EnvMaps
    BY <2>2, NoKeysIsEnv, LayeredIs
  <2> QED
    BY <1>3, <2>3 DEF ReadFile, ParseFile, lines
<1> QED
  BY <1>2, <1>3

\* The layers of the files are layers.
LEMMA FileLayersAre ==
    ASSUME text \in [EnvFiles -> Contents], NEW fs \in Seq(EnvFiles)
    PROVE  /\ FileLayers(fs) \in Seq(EnvMaps \union {Failed})
           /\ FileLayers(fs) \in Seq(Layer)
           /\ Failed \notin Range(FileLayers(fs)) => FileLayers(fs) \in Seq(EnvMaps)
<1>1. /\ Len(fs) \in Nat /\ DOMAIN fs = 1 .. Len(fs)
      /\ \A i \in 1 .. Len(fs) : fs[i] \in EnvFiles
  OBVIOUS
<1> DEFINE ls == FileLayers(fs)
<1>2. ls = [i \in 1 .. Len(fs) |-> ReadFile(fs[i])]
  BY <1>1 DEF FileLayers
<1>3. \A i \in 1 .. Len(fs) : ls[i] \in EnvMaps \union {Failed}
  BY <1>1, <1>2, ReadFileIs
<1> HIDE DEF ls
<1>4. \A i \in 1 .. Len(fs) : ls[i] \in Layer
  BY <1>3, EnvDomain, FailedIsLayer
<1>5. ls \in Seq(EnvMaps \union {Failed}) /\ ls \in Seq(Layer)
  BY <1>1, <1>2, <1>3, <1>4
<1>6. ASSUME Failed \notin Range(ls) PROVE ls \in Seq(EnvMaps)
  <2>1. \A i \in 1 .. Len(fs) : ls[i] \in EnvMaps
    BY <1>2, <1>3, <1>6 DEF Range
  <2> QED
    BY <1>1, <1>2, <2>1
<1> QED
  BY <1>5, <1>6 DEF ls

\* The files over an environment, when all can be read.
LEMMA ReadFilesIs ==
    ASSUME text \in [EnvFiles -> Contents], NEW fs \in Seq(EnvFiles), NEW env \in EnvMaps,
           ReadFiles(fs, env) # Failed
    PROVE  /\ ReadFiles(fs, env) \in EnvMaps
           /\ \A k \in Keys :
                /\ k \in DOMAIN ReadFiles(fs, env) <=> k \in DOMAIN env \/ Mentions(FileLayers(fs), k)
                /\ Mentions(FileLayers(fs), k) => ReadFiles(fs, env)[k] = LastWord(FileLayers(fs), k)
                /\ k \in DOMAIN env /\ ~Mentions(FileLayers(fs), k) => ReadFiles(fs, env)[k] = env[k]
<1>1. Failed \notin Range(FileLayers(fs)) /\ ReadFiles(fs, env) = Layered(FileLayers(fs), env)
  BY DEF ReadFiles
<1>2. FileLayers(fs) \in Seq(EnvMaps)
  BY <1>1, FileLayersAre
<1> QED
  BY <1>1, <1>2, LayeredIs

\* Without files there is nothing to read, and no layer.
LEMMA NoFiles ==
    ASSUME text \in [EnvFiles -> Contents], NEW env \in EnvMaps
    PROVE  FileLayers(<<>>) = <<>> /\ ReadFiles(<<>>, env) = env
<1>1. <<>> \in Seq(EnvFiles) /\ Len(<<>>) = 0 /\ DOMAIN <<>> = {}
  OBVIOUS
<1>2. FileLayers(<<>>) = <<>>
  BY <1>1 DEF FileLayers
<1>3. Failed \notin Range(<<>>)
  BY <1>1 DEF Range
<1>4. PICK over : Over(over, <<>>, env, 0) /\ Layered(<<>>, env) = over[0]
  BY <1>1, LayeredIsLaid
<1>5. over[0] = env
  BY <1>4 DEF Over
<1> QED
  BY <1>2, <1>3, <1>4, <1>5 DEF ReadFiles

-----------------------------------------------------------------------------
(* Profiles: what a worker finds *)

\* What a session finds for a key in an environment from which some are removed.
Found(env, removes, k) ==
    IF k \in DOMAIN env THEN env[k] ELSE IF k \in removes THEN "unset" ELSE "inherited"

\* What is found agrees with the layers.
Agree(env, removes, layers) ==
    /\ env \in EnvMaps /\ layers \in Seq(Layer)
    /\ \A k \in Keys : Found(env, removes, k) = LastWord(layers, k)

\* Files, and settings on top of them: what they set is no longer removed.
LEMMA FilesAndSettings ==
    ASSUME text \in [EnvFiles -> Contents], NEW fs \in Seq(EnvFiles), NEW top \in EnvMaps,
           NEW env, NEW removes, NEW layers, Agree(env, removes, layers),
           ReadFiles(fs, env) # Failed
    PROVE  Agree(top ++ ReadFiles(fs, env),
                 RemoveEnvRemoveKeys(removes, top ++ ReadFiles(fs, env)),
                 layers \o FileLayers(fs) \o <<top>>)
<1> DEFINE files == FileLayers(fs)
           read == ReadFiles(fs, env)
           all == top ++ read
           left == RemoveEnvRemoveKeys(removes, all)
           middle == layers \o files
<1>1. env \in EnvMaps /\ layers \in Seq(Layer) /\ files \in Seq(Layer) /\ <<top>> \in Seq(Layer)
  BY FileLayersAre, EnvDomain DEF Agree
<1>2. /\ read \in EnvMaps
      /\ \A k \in Keys :
           /\ k \in DOMAIN read <=> k \in DOMAIN env \/ Mentions(files, k)
           /\ Mentions(files, k) => read[k] = LastWord(files, k)
           /\ k \in DOMAIN env /\ ~Mentions(files, k) => read[k] = env[k]
  BY <1>1, ReadFilesIs
<1> HIDE DEF files, read
<1>3. /\ all \in EnvMaps /\ DOMAIN all = DOMAIN top \union DOMAIN read
      /\ \A k \in DOMAIN all : all[k] = IF k \in DOMAIN top THEN top[k] ELSE read[k]
  <2>1. read \in EnvMaps
    BY <1>2
  <2>2. LiesOver(all, top, read)
    BY <2>1, EnvsOver
  <2> QED
    BY <2>2 DEF LiesOver
<1>4. left = removes \ DOMAIN all
  BY DEF RemoveEnvRemoveKeys
<1>5. middle \in Seq(Layer) /\ middle \o <<top>> \in Seq(Layer)
  BY <1>1
<1> HIDE DEF all, left
<1>6. ASSUME NEW k \in Keys
      PROVE  Found(all, left, k) = LastWord(middle \o <<top>>, k)
  <2>1. LastWord(middle, k) = IF Mentions(files, k) THEN LastWord(files, k) ELSE LastWord(layers, k)
    BY <1>1, LastWordOfTwo
  <2> HIDE DEF middle
  <2>2. LastWord(middle \o <<top>>, k) =
          IF Mentions(<<top>>, k) THEN LastWord(<<top>>, k) ELSE LastWord(middle, k)
    BY <1>1, <1>5, LastWordOfTwo
  <2>3. LastWord(middle \o <<top>>, k) = IF k \in DOMAIN top THEN top[k] ELSE LastWord(middle, k)
    BY <2>2, LastWordOfOne
  <2>4. Found(env, removes, k) = LastWord(layers, k)
    BY DEF Agree
  <2>5. CASE k \in DOMAIN top
    BY <2>3, <2>5, <1>3 DEF Found
  <2>6. CASE k \notin DOMAIN top /\ Mentions(files, k)
    BY <2>1, <2>3, <2>6, <1>2, <1>3 DEF Found
  <2>7. CASE k \notin DOMAIN top /\ ~Mentions(files, k) /\ k \in DOMAIN env
    BY <2>1, <2>3, <2>4, <2>7, <1>2, <1>3 DEF Found
  <2>8. CASE k \notin DOMAIN top /\ ~Mentions(files, k) /\ k \notin DOMAIN env
    <3>1. k \notin DOMAIN all /\ (k \in left <=> k \in removes)
      BY <2>8, <1>2, <1>3, <1>4
    <3> QED
      BY <3>1, <2>1, <2>3, <2>4, <2>8 DEF Found
  <2> QED
    BY <2>5, <2>6, <2>7, <2>8
<1>7. Agree(all, left, middle \o <<top>>)
  BY <1>3, <1>5, <1>6 DEF Agree
<1> QED
  BY <1>7 DEF all, left, read, files

\* Settings alone, over keys that are removed.
LEMMA SettingsAlone ==
    ASSUME NEW top \in EnvMaps, NEW removes \in SUBSET Keys
    PROVE  Agree(top, removes, <<Removing(removes)>> \o <<top>>)
<1> DEFINE r == Removing(removes)
<1>1. r \in Layer /\ DOMAIN r = removes /\ \A k \in removes : r[k] = "unset"
  BY RemovingIs
<1> HIDE DEF r
<1>2. <<r>> \in Seq(Layer) /\ <<top>> \in Seq(Layer) /\ <<r>> \o <<top>> \in Seq(Layer)
  BY <1>1, EnvDomain
<1>3. ASSUME NEW k \in Keys PROVE Found(top, removes, k) = LastWord(<<r>> \o <<top>>, k)
  <2>1. LastWord(<<r>> \o <<top>>, k) =
          IF Mentions(<<top>>, k) THEN LastWord(<<top>>, k) ELSE LastWord(<<r>>, k)
    BY <1>2, LastWordOfTwo
  <2>2. /\ Mentions(<<top>>, k) <=> k \in DOMAIN top
        /\ k \in DOMAIN top => LastWord(<<top>>, k) = top[k]
        /\ LastWord(<<r>>, k) = IF k \in DOMAIN r THEN r[k] ELSE "inherited"
    BY LastWordOfOne
  <2> QED
    BY <1>1, <2>1, <2>2 DEF Found
<1> QED
  BY <1>2, <1>3 DEF Agree, r

\* Keys that are removed, and nothing else.
LEMMA RemovingAlone ==
    ASSUME NEW removes \in SUBSET Keys
    PROVE  Agree(NoKeys, removes, <<Removing(removes)>>)
<1> DEFINE r == Removing(removes)
<1>1. r \in Layer /\ DOMAIN r = removes /\ \A k \in removes : r[k] = "unset"
  BY RemovingIs
<1> HIDE DEF r
<1>2. \A k \in Keys : Found(NoKeys, removes, k) = LastWord(<<r>>, k)
  BY <1>1, LastWordOfOne, NoKeysIsEnv DEF Found
<1> QED
  BY <1>1, <1>2, NoKeysIsEnv DEF Agree, r

\* Nothing is said of an empty environment.
LEMMA NothingSaid == Agree(NoKeys, {}, <<>>)
BY LastWordOfNone, NoKeysIsEnv DEF Agree, Found

-----------------------------------------------------------------------------
(* Profiles: specifications *)

\* The fields of a launch specification.
SpecFields == {"runtime", "entry", "args", "env", "removes", "files", "mode", "debug"}

\* A record of these fields.
IsSpec(s) == DOMAIN s = SpecFields /\ s = [f \in SpecFields |-> s[f]]

\* A specification that can be put together from layers.
Typed(s) == IsSpec(s) /\ s.env \in EnvMaps /\ s.removes \in SUBSET Keys /\ s.files \in Seq(EnvFiles)

\* Two specifications that start the same.
SameStart(s, t) ==
    s.runtime = t.runtime /\ s.entry = t.entry /\ s.mode = t.mode

\* A saved profile is a typed specification.
LEMMA SavedIsTyped == \A s \in LaunchSpecs : Typed(s)
BY DEF LaunchSpecs, Typed, IsSpec, SpecFields

\* A specification is never taken for a failure.
LEMMA NotFailed == \A s : IsSpec(s) => s # Failed
BY DEF IsSpec, SpecFields, Failed

\* The mode that a request asks for changes nothing else.
LEMMA ModeKept ==
    ASSUME NEW s, IsSpec(s), NEW mode, NEW t, t = InMode(s, mode)
    PROVE  /\ IsSpec(t) /\ t.env = s.env /\ t.removes = s.removes /\ t.files = s.files
           /\ mode = "as saved" => t = s
BY DEF IsSpec, SpecFields, InMode

\* A launch that asks for no more than another one.
AsksFor(t, s) == IsSpec(t) /\ t.env = s.env /\ t.removes = s.removes /\ t.files = s.files

\* The same of any launch and any mode.
LEMMA ModesKept == \A s, mode : IsSpec(s) => AsksFor(InMode(s, mode), s)
BY ModeKept DEF AsksFor

\* The files of a profile come between what it removes and what it sets.
LEMMA MaterializedAgrees ==
    ASSUME text \in [EnvFiles -> Contents], NEW s, Typed(s),
           NEW m, m = Materialized(s), m # Failed
    PROVE  /\ IsSpec(m) /\ SameStart(m, s)
           /\ Agree(m.env, m.removes, <<Removing(s.removes)>> \o FileLayers(s.files) \o <<s.env>>)
<1> DEFINE layers == <<Removing(s.removes)>> \o FileLayers(s.files) \o <<s.env>>
<1>1. IsSpec(s) /\ s.env \in EnvMaps /\ s.removes \in SUBSET Keys /\ s.files \in Seq(EnvFiles)
  BY DEF Typed
<1>2. CASE s.files = <<>>
  <2>1. m = s
    BY <1>2 DEF Materialized
  <2>2. FileLayers(s.files) = <<>>
    BY <1>1, <1>2, NoFiles
  <2>3. <<Removing(s.removes)>> \o <<>> = <<Removing(s.removes)>>
    OBVIOUS
  <2>4. Agree(s.env, s.removes, layers)
    BY <1>1, <2>2, <2>3, SettingsAlone
  <2> QED
    BY <1>1, <2>1, <2>4 DEF SameStart
<1>3. CASE s.files # <<>>
  <2> DEFINE read == ReadFiles(s.files, NoKeys)
             env == s.env ++ read
             removes == RemoveEnvRemoveKeys(s.removes, env)
  <2>1. read # Failed /\ m = [s EXCEPT !.env = env, !.removes = removes, !.files = <<>>]
    BY <1>3 DEF Materialized
  <2>2. Agree(NoKeys, s.removes, <<Removing(s.removes)>>)
    BY <1>1, RemovingAlone
  <2>3. Agree(env, removes, layers)
    BY <1>1, <2>1, <2>2, FilesAndSettings
  <2> HIDE DEF env, removes
  <2>4. IsSpec(m) /\ SameStart(m, s) /\ m.env = env /\ m.removes = removes
    BY <1>1, <2>1 DEF IsSpec, SpecFields, SameStart
  <2> QED
    BY <2>3, <2>4
<1> QED
  BY <1>2, <1>3

\* A saved profile that is run gets the environment its layers ask for.
LEMMA RunAgrees ==
    ASSUME text \in [EnvFiles -> Contents], NEW s \in LaunchSpecs, NEW o \in RunOptions,
           RunSpec(s, o) # Failed
    PROVE  IsSpec(RunSpec(s, o)) /\ Agree(RunSpec(s, o).env, RunSpec(s, o).removes, RunLayers(s, o))
<1> DEFINE base == InMode(s, o.mode)
           start == IF o.clear_env THEN [base EXCEPT !.env = NoKeys, !.files = <<>>, !.removes = {}]
                    ELSE Materialized(base)
           first == IF o.clear_env THEN <<>>
                    ELSE <<Removing(s.removes)>> \o FileLayers(s.files) \o <<s.env>>
           read == ReadFiles(o.files, start.env)
           env == o.env ++ read
           removes == RemoveEnvRemoveKeys(start.removes, env)
           r == RunSpec(s, o)
<1>1. o.files \in Seq(EnvFiles) /\ o.env \in EnvMaps
  BY ProfileAssumption DEF RunOptions
<1>2. Typed(s)
  BY SavedIsTyped
<1>3. IsSpec(base) /\ base.env = s.env /\ base.removes = s.removes /\ base.files = s.files
  <2>1. IsSpec(s)
    BY <1>2 DEF Typed
  <2>2. AsksFor(base, s)
    BY <2>1, ModesKept
  <2> HIDE DEF base
  <2> QED
    BY <2>2 DEF AsksFor
<1> HIDE DEF base
<1>4. start # Failed /\ read # Failed /\ r = [start EXCEPT !.env = env, !.removes = removes]
  BY DEF RunSpec, base
<1>5. IsSpec(start) /\ Agree(start.env, start.removes, first)
  <2>1. CASE o.clear_env
    <3>1. start = [base EXCEPT !.env = NoKeys, !.files = <<>>, !.removes = {}] /\ first = <<>>
      BY <2>1
    <3>2. IsSpec(start) /\ start.env = NoKeys /\ start.removes = {}
      BY <1>3, <3>1 DEF IsSpec, SpecFields
    <3> QED
      BY <3>1, <3>2, NothingSaid
  <2>2. CASE ~o.clear_env
    <3>1. Typed(base)
      BY <1>2, <1>3 DEF Typed
    <3>2. start = Materialized(base) /\ first = <<Removing(base.removes)>> \o FileLayers(base.files) \o <<base.env>>
      BY <2>2, <1>3
    <3> HIDE DEF start, first
    <3> QED
      BY <1>4, <3>1, <3>2, MaterializedAgrees
  <2> QED
    BY <2>1, <2>2
<1>6. RunLayers(s, o) = first \o FileLayers(o.files) \o <<o.env>>
  BY DEF RunLayers
<1> HIDE DEF start, first
<1>7. Agree(env, removes, first \o FileLayers(o.files) \o <<o.env>>)
  BY <1>1, <1>4, <1>5, FilesAndSettings
<1> HIDE DEF env, removes, r
<1>8. IsSpec(r) /\ r.env = env /\ r.removes = removes
  BY <1>4, <1>5 DEF IsSpec, SpecFields
<1> QED
  BY <1>6, <1>7, <1>8 DEF r

\* So does a start from the options of the command.
LEMMA StartAgrees ==
    ASSUME text \in [EnvFiles -> Contents], NEW o \in StartOptions, StartSpec(o) # Failed
    PROVE  IsSpec(StartSpec(o)) /\ Agree(StartSpec(o).env, StartSpec(o).removes, StartLayers(o))
<1> DEFINE read == ReadFiles(o.files, NoKeys)
           env == o.env ++ read
           r == StartSpec(o)
<1>1. o.files \in Seq(EnvFiles) /\ o.env \in EnvMaps
  BY ProfileAssumption
<1>2. read # Failed /\ r.env = env /\ r.removes = {} /\ IsSpec(r)
  BY DEF StartSpec, IsSpec, SpecFields
<1>3. Agree(env, RemoveEnvRemoveKeys({}, env), <<>> \o FileLayers(o.files) \o <<o.env>>)
  BY <1>1, <1>2, NothingSaid, FilesAndSettings
<1>4. RemoveEnvRemoveKeys({}, env) = {}
  BY DEF RemoveEnvRemoveKeys
<1>5. <<>> \o FileLayers(o.files) = FileLayers(o.files)
  BY <1>1, FileLayersAre
<1> HIDE DEF env, r
<1> QED
  BY <1>2, <1>3, <1>4, <1>5 DEF StartLayers, r

\* So does an entry of the launch file, with its own environment and interpreter.
LEMMA LaunchAgrees ==
    ASSUME text \in [EnvFiles -> Contents], NEW c \in LaunchConfigs, NEW mode,
           LaunchSpec(c, mode) # Failed
    PROVE  /\ IsSpec(LaunchSpec(c, mode))
           /\ Agree(LaunchSpec(c, mode).env, LaunchSpec(c, mode).removes, LaunchLayers(c))
<1> DEFINE fromFile == IF c.envFile = Nothing THEN NoKeys ELSE ReadFile(c.envFile)
           nulls == {k \in DOMAIN c.env : c.env[k] = "null"}
           named == [k \in DOMAIN c.env \ nulls |-> c.env[k]]
           python == IF c.python = Nothing THEN NoKeys ELSE [k \in {PythonBin} |-> c.python]
           kept == [k \in DOMAIN fromFile \ nulls |-> fromFile[k]]
           env == python ++ named ++ kept
           removes == nulls \ DOMAIN python
           r == LaunchSpec(c, mode)
           said == [k \in DOMAIN c.env |-> IF c.env[k] = "null" THEN "unset" ELSE c.env[k]]
           one == IF c.envFile = Nothing THEN <<>> ELSE <<ReadFile(c.envFile)>>
           three == IF c.python = Nothing THEN <<>> ELSE <<[k \in {PythonBin} |-> c.python]>>
<1>1. /\ c.env \in UNION {[ks -> Settings \union {"null"}] : ks \in SUBSET Keys}
      /\ c.envFile \in EnvFiles \union {Nothing} /\ c.python \in Settings \union {Nothing}
      /\ PythonBin \in Keys
  BY ProfileAssumption
<1>2. PICK ks \in SUBSET Keys : c.env \in [ks -> Settings \union {"null"}]
  BY <1>1
<1>3. fromFile # Failed /\ fromFile \in EnvMaps
  <2>1. fromFile # Failed
    BY DEF LaunchSpec
  <2>2. CASE c.envFile = Nothing
    <3>1. fromFile = NoKeys
      BY <2>2
    <3> HIDE DEF fromFile
    <3> QED
      BY <2>1, <3>1, NoKeysIsEnv
  <2>3. CASE c.envFile # Nothing
    BY <1>1, <2>1, <2>3, ReadFileIs
  <2> QED
    BY <2>1, <2>2, <2>3
<1>4. IsSpec(r) /\ r.env = env /\ r.removes = removes
  <2> DEFINE plain == [runtime |-> c.type, entry |-> c.program, args |-> FALSE,
                       env |-> env, removes |-> removes,
                       files |-> <<>>, mode |-> mode, debug |-> FALSE]
  <2>1. r = InMode(plain, IF c.request = "debug" THEN "debug" ELSE mode)
    BY <1>3 DEF LaunchSpec
  <2> HIDE DEF env, removes
  <2>2. IsSpec(plain) /\ plain.env = env /\ plain.removes = removes
    BY DEF IsSpec, SpecFields
  <2> HIDE DEF plain, r
  <2>3. IsSpec(r) /\ r.env = plain.env /\ r.removes = plain.removes
    <3>1. AsksFor(r, plain)
      BY <2>1, <2>2, ModesKept
    <3> QED
      BY <3>1 DEF AsksFor
  <2> QED
    BY <2>2, <2>3
<1>5. python \in EnvMaps /\ named \in EnvMaps /\ kept \in EnvMaps
  <2>1. python \in EnvMaps
    <3>1. CASE c.python = Nothing
      BY <3>1, NoKeysIsEnv
    <3>2. CASE c.python # Nothing
      <4>1. python \in [{PythonBin} -> Settings] /\ {PythonBin} \in SUBSET Keys
        BY <1>1, <3>2
      <4> QED
        BY <4>1 DEF EnvMaps
    <3> QED
      BY <3>1, <3>2
  <2>2. named \in EnvMaps
    <3>1. DOMAIN c.env \ nulls \in SUBSET Keys /\ named \in [DOMAIN c.env \ nulls -> Settings]
      BY <1>2
    <3> QED
      BY <3>1 DEF EnvMaps
  <2>3. kept \in EnvMaps
    <3> HIDE DEF fromFile
    <3>1. PICK ls \in SUBSET Keys : fromFile \in [ls -> Settings]
      BY <1>3 DEF EnvMaps
    <3>2. ls \ nulls \in SUBSET Keys /\ kept \in [ls \ nulls -> Settings]
      BY <3>1
    <3> QED
      BY <3>2 DEF EnvMaps
  <2> QED
    BY <2>1, <2>2, <2>3
<1>6. said \in Layer /\ DOMAIN said = DOMAIN c.env
  <2>1. said \in [ks -> Settings \union {"unset"}]
    BY <1>2
  <2> QED
    BY <2>1, <1>2 DEF Layer
<1>7. one \in Seq(Layer) /\ <<said>> \in Seq(Layer) /\ three \in Seq(Layer) /\ one \o <<said>> \in Seq(Layer)
  <2>1. one \in Seq(Layer)
    <3>1. CASE c.envFile = Nothing
      BY <3>1
    <3>2. CASE c.envFile # Nothing
      <4>1. ReadFile(c.envFile) \in Layer
        BY <1>3, <3>2, EnvDomain
      <4> QED
        BY <3>2, <4>1
    <3> QED
      BY <3>1, <3>2
  <2>2. three \in Seq(Layer)
    <3>1. CASE c.python = Nothing
      BY <3>1
    <3>2. CASE c.python # Nothing
      <4>1. [k \in {PythonBin} |-> c.python] \in Layer
        BY <1>5, <3>2, EnvDomain
      <4> QED
        BY <3>2, <4>1
    <3> QED
      BY <3>1, <3>2
  <2> HIDE DEF one, said, three
  <2> QED
    BY <2>1, <2>2, <1>6
<1>8. ASSUME NEW k \in Keys
      PROVE  /\ LastWord(one, k) = IF k \in DOMAIN fromFile THEN fromFile[k] ELSE "inherited"
             /\ Mentions(three, k) <=> k \in DOMAIN python
             /\ k \in DOMAIN python => LastWord(three, k) = python[k]
  <2>1. LastWord(one, k) = IF k \in DOMAIN fromFile THEN fromFile[k] ELSE "inherited"
    <3>1. CASE c.envFile = Nothing
      BY <3>1, LastWordOfNone, NoKeysIsEnv
    <3>2. CASE c.envFile # Nothing
      BY <3>2, LastWordOfOne
    <3> QED
      BY <3>1, <3>2
  <2>2. /\ Mentions(three, k) <=> k \in DOMAIN python
        /\ k \in DOMAIN python => LastWord(three, k) = python[k]
    <3>1. CASE c.python = Nothing
      BY <3>1, LastWordOfNone, NoKeysIsEnv
    <3>2. CASE c.python # Nothing
      <4> DEFINE f == [l \in {PythonBin} |-> c.python]
      <4>1. three = <<f>> /\ python = f
        BY <3>2
      <4> HIDE DEF f, three, python
      <4> QED
        BY <4>1, LastWordOfOne
    <3> QED
      BY <3>1, <3>2
  <2> QED
    BY <2>1, <2>2
<1>9. /\ env \in EnvMaps
      /\ DOMAIN env = DOMAIN python \union (DOMAIN c.env \ nulls) \union (DOMAIN fromFile \ nulls)
      /\ \A k \in DOMAIN env :
           env[k] = IF k \in DOMAIN python THEN python[k]
                    ELSE IF k \in DOMAIN c.env \ nulls THEN c.env[k] ELSE fromFile[k]
  <2> DEFINE top == python ++ named
  <2>1. DOMAIN named = DOMAIN c.env \ nulls /\ DOMAIN kept = DOMAIN fromFile \ nulls
    OBVIOUS
  <2>2. \A k \in DOMAIN named : named[k] = c.env[k]
    OBVIOUS
  <2>3. \A k \in DOMAIN kept : kept[k] = fromFile[k]
    OBVIOUS
  <2> HIDE DEF fromFile, nulls, named, python, kept
  <2>4. /\ top \in EnvMaps /\ DOMAIN top = DOMAIN python \union DOMAIN named
        /\ \A k \in DOMAIN top : top[k] = IF k \in DOMAIN python THEN python[k] ELSE named[k]
    <3>1. LiesOver(top, python, named)
      BY <1>5, EnvsOver
    <3> HIDE DEF top
    <3> QED
      BY <3>1 DEF LiesOver
  <2> HIDE DEF top
  <2>5. /\ top ++ kept \in EnvMaps /\ DOMAIN (top ++ kept) = DOMAIN top \union DOMAIN kept
        /\ \A k \in DOMAIN (top ++ kept) : (top ++ kept)[k] = IF k \in DOMAIN top THEN top[k] ELSE kept[k]
    <3>1. top \in EnvMaps /\ kept \in EnvMaps
      BY <1>5, <2>4
    <3>2. LiesOver(top ++ kept, top, kept)
      BY <3>1, EnvsOver
    <3> QED
      BY <3>2 DEF LiesOver
  <2>6. env = top ++ kept
    BY DEF top
  <2> HIDE DEF env
  <2> QED
    BY <2>1, <2>2, <2>3, <2>4, <2>5, <2>6
<1>10. ASSUME NEW k \in Keys
       PROVE  Found(env, removes, k) = LastWord(one \o <<said>> \o three, k)
  <2>1. k \in DOMAIN said <=> k \in DOMAIN c.env
    BY <1>6
  <2>2. k \in DOMAIN c.env => said[k] = IF k \in nulls THEN "unset" ELSE c.env[k]
    OBVIOUS
  <2>3. nulls \subseteq DOMAIN c.env
    OBVIOUS
  <2> HIDE DEF said, one, three, nulls, env, python, named, kept, fromFile
  <2>4. LastWord(one \o <<said>>, k) =
          IF k \in DOMAIN said THEN said[k] ELSE LastWord(one, k)
    <3>1. LastWord(one \o <<said>>, k) =
            IF Mentions(<<said>>, k) THEN LastWord(<<said>>, k) ELSE LastWord(one, k)
      BY <1>7, LastWordOfTwo
    <3> QED
      BY <3>1, LastWordOfOne
  <2>5. LastWord(one \o <<said>> \o three, k) =
          IF Mentions(three, k) THEN LastWord(three, k) ELSE LastWord(one \o <<said>>, k)
    BY <1>7, LastWordOfTwo
  <2> QED
    BY <1>8, <1>9, <2>1, <2>2, <2>3, <2>4, <2>5 DEF Found
<1>11. LaunchLayers(c) = one \o <<said>> \o three
  BY DEF LaunchLayers
<1>12. one \o <<said>> \o three \in Seq(Layer)
  <2> HIDE DEF one, said, three
  <2> QED
    BY <1>7
<1> HIDE DEF one, said, three, env, removes, r
<1>13. Agree(env, removes, one \o <<said>> \o three)
  BY <1>9, <1>10, <1>12 DEF Agree
<1> QED
  BY <1>4, <1>11, <1>13 DEF r

-----------------------------------------------------------------------------
(* Profiles: the inductive invariant *)

\* A session has been told what its specification says, and what was due when it was created.
Begun(s) ==
    /\ DOMAIN s = {"is", "spec", "given", "due"} /\ s = [f \in DOMAIN s |-> s[f]]
    /\ IsSpec(s.spec)
    /\ s.given = Given(s.spec) /\ s.due = s.given

\* What is stored is of its type, and a session has begun with what it was due.
ProfilesInv ==
    /\ text \in [EnvFiles -> Contents]
    /\ profile = Nothing \/ profile \in SavedProfiles
    /\ launchFile = Nothing \/ launchFile \in LaunchConfigs
    /\ session = Nothing \/ Begun(session)

\* What is prepared is what the specification gives.
LEMMA PreparedGiven ==
    ASSUME NEW s, IsSpec(s)
    PROVE  IsSpec(Prepared(s)) /\ Given(Prepared(s)) = Given(s)
<1> DEFINE p == Prepared(s)
<1>1. IsSpec(p) /\ p.env = s.env /\ p.removes = s.removes
  BY DEF Prepared, IsSpec, SpecFields
<1> HIDE DEF p
<1>2. Given(p) = Given(s)
  BY <1>1 DEF Given
<1> QED
  BY <1>1, <1>2 DEF p

\* What agrees with the layers is what is due.
LEMMA AgreedIsDue ==
    ASSUME NEW s, NEW layers, Agree(s.env, s.removes, layers)
    PROVE  Given(s) = [k \in Keys |-> LastWord(layers, k)]
BY DEF Agree, Given, Found

\* A start keeps the invariant.
LEMMA StartKept ==
    ASSUME ProfilesInv, NEW s, NEW layers, Start(s, layers),
           s # Failed => IsSpec(s) /\ Agree(s.env, s.removes, layers)
    PROVE  ProfilesInv'
<1>1. /\ s # Failed
      /\ session' = [is |-> "session", spec |-> Prepared(s), given |-> Given(s),
                     due |-> [k \in Keys |-> LastWord(layers, k)]]
      /\ UNCHANGED <<profile, text, launchFile>>
  BY DEF Start
<1>2. IsSpec(Prepared(s)) /\ Given(Prepared(s)) = Given(s)
  BY <1>1, PreparedGiven
<1>3. Given(s) = [k \in Keys |-> LastWord(layers, k)]
  BY <1>1, AgreedIsDue
<1>4. Begun(session')
  BY <1>1, <1>2, <1>3 DEF Begun
<1> QED
  BY <1>1, <1>4 DEF ProfilesInv

\* A restart takes the session as it was recorded.
LEMMA RestartKept == ProfilesInv /\ Restart => ProfilesInv'
<1> SUFFICES ASSUME ProfilesInv, Restart PROVE ProfilesInv'
  OBVIOUS
<1> DEFINE s == session.spec
<1>1. /\ Begun(session) /\ UNCHANGED <<profile, text, launchFile>>
      /\ session' = [session EXCEPT !.spec = Prepared(@), !.given = Given(s)]
  BY DEF Restart, ProfilesInv
<1>2. IsSpec(s) /\ session.given = Given(s) /\ session.due = Given(s)
  BY <1>1 DEF Begun
<1>3. IsSpec(Prepared(s)) /\ Given(Prepared(s)) = Given(s)
  BY <1>2, PreparedGiven
<1>4. /\ DOMAIN session' = DOMAIN session /\ session' = [f \in DOMAIN session' |-> session'[f]]
      /\ session'.spec = Prepared(s) /\ session'.given = Given(s) /\ session'.due = session.due
  BY <1>1 DEF Begun
<1>5. Begun(session')
  <2> HIDE DEF s
  <2> QED
    BY <1>1, <1>2, <1>3, <1>4 DEF Begun
<1> QED
  BY <1>1, <1>5 DEF ProfilesInv

\* The invariant holds at the start.
LEMMA ProfilesStart == ProfilesInit => ProfilesInv
BY DEF ProfilesInit, ProfilesInv

\* Every step of the profiles keeps the invariant.
LEMMA ProfilesKept ==
    ASSUME ProfilesInv, ProfilesNext \/ UNCHANGED profileVars
    PROVE  ProfilesInv'
<1>0. text \in [EnvFiles -> Contents]
  BY DEF ProfilesInv
<1>1. CASE UNCHANGED profileVars
  BY <1>1 DEF ProfilesInv, profileVars
<1>2. CASE Save
  BY <1>2 DEF Save, ProfilesInv
<1>3. CASE Delete
  BY <1>3 DEF Delete, ProfilesInv
<1>4. CASE \E replace \in BOOLEAN : Import(replace)
  BY <1>4 DEF Import, ProfilesInv
<1>5. CASE ConfigRun
  <2>1. profile \in SavedProfiles /\ profile \in LaunchSpecs
    BY <1>5, ProfileAssumption DEF ConfigRun, ProfilesInv
  <2>2. PICK o \in RunOptions : Start(RunSpec(profile, o), RunLayers(profile, o))
    BY <1>5 DEF ConfigRun
  <2> QED
    BY <1>0, <2>1, <2>2, RunAgrees, StartKept
<1>6. CASE Launch
  <2>1. launchFile \in LaunchConfigs
    BY <1>6 DEF Launch, ProfilesInv
  <2>2. PICK mode : Start(LaunchSpec(launchFile, mode), LaunchLayers(launchFile))
    BY <1>6 DEF Launch
  <2> QED
    BY <1>0, <2>1, <2>2, LaunchAgrees, StartKept
<1>7. CASE StartCommand
  <2>1. PICK o \in StartOptions : Start(StartSpec(o), StartLayers(o))
    BY <1>7 DEF StartCommand
  <2> QED
    BY <1>0, <2>1, StartAgrees, StartKept
<1>8. CASE Restart
  BY <1>8, RestartKept
<1>9. CASE EditFile
  BY <1>9 DEF EditFile, ProfilesInv
<1>10. CASE EditLaunchFile
  BY <1>10 DEF EditLaunchFile, ProfilesInv
<1>11. CASE Install
  BY <1>11 DEF Install, ProfilesInv
<1> QED
  BY <1>1, <1>2, <1>3, <1>4, <1>5, <1>6, <1>7, <1>8, <1>9, <1>10, <1>11 DEF ProfilesNext

\* The property of the layers follows.
LEMMA LayersHold == ProfilesInv => LastLayerWins
BY DEF ProfilesInv, LastLayerWins, Begun

\* What config validate has looked at is what config run starts.
LEMMA ValidHolds == ProfilesInv => ValidatedStarts
<1> SUFFICES ASSUME ProfilesInv, profile # Nothing, Valid(profile)
             PROVE  LET plain == [mode |-> "as saved", clear_env |-> FALSE, files |-> <<>>, env |-> NoKeys]
                    IN RunSpec(profile, plain) # Failed /\ Starts(RunSpec(profile, plain))
  BY DEF ValidatedStarts
<1> DEFINE plain == [mode |-> "as saved", clear_env |-> FALSE, files |-> <<>>, env |-> NoKeys]
           m == Materialized(profile)
           env == NoKeys ++ m.env
           removes == RemoveEnvRemoveKeys(m.removes, env)
           r == RunSpec(profile, plain)
<1>1. text \in [EnvFiles -> Contents] /\ Typed(profile)
  BY ProfileAssumption, SavedIsTyped DEF ProfilesInv
<1>2. /\ m # Failed /\ Buildable(m)
      /\ profile.mode = "debug" => HasBackend(profile) /\ DebugRuntimeReady(m)
  BY DEF Valid
<1>3. IsSpec(m) /\ SameStart(m, profile) /\ m.env \in EnvMaps
  BY <1>1, <1>2, MaterializedAgrees DEF Agree
<1>4. InMode(profile, "as saved") = profile
  BY DEF InMode
<1>5. ReadFiles(<<>>, m.env) = m.env /\ m.env # Failed
  BY <1>1, <1>3, NoFiles, ProfileAssumption
<1> HIDE DEF m
<1>6. r = [m EXCEPT !.env = env, !.removes = removes]
  BY <1>2, <1>4, <1>5 DEF RunSpec, m
<1>7. DOMAIN env = DOMAIN m.env /\ \A k \in DOMAIN m.env : env[k] = m.env[k]
  <2>1. DOMAIN env = DOMAIN NoKeys \union DOMAIN m.env
        /\ \A k \in DOMAIN env : env[k] = IF k \in DOMAIN NoKeys THEN NoKeys[k] ELSE m.env[k]
    <3>1. LiesOver(env, NoKeys, m.env)
      BY <1>3, NoKeysIsEnv, EnvsOver
    <3> HIDE DEF env
    <3> QED
      BY <3>1 DEF LiesOver
  <2> HIDE DEF env
  <2> QED
    BY <2>1, NoKeysIsEnv
<1> HIDE DEF env, removes, r
<1>8. IsSpec(r) /\ SameStart(r, m) /\ r.env = env
  BY <1>3, <1>6 DEF IsSpec, SpecFields, SameStart
<1>9. PythonExecutable(r) = PythonExecutable(m)
  BY <1>7, <1>8 DEF PythonExecutable
<1>10. Starts(r)
  BY <1>2, <1>3, <1>8, <1>9 DEF Starts, SameStart, HasBackend, DebugRuntimeReady, Buildable
<1> QED
  BY <1>8, <1>10, NotFailed DEF r

-----------------------------------------------------------------------------
(* Projects: the inductive invariant *)

\* What a writer can ask for.
Request ==
    {Set(u) : u \in UNION {[fs -> SUBSET (Texts \union {Blank})] : fs \in SUBSET ProjectFields}}
    \union {UnsetRequest(fields) : fields \in SUBSET (ProjectFields \union {"all"})}

\* What is stored of a workspace.
Project == [ProjectFields -> SUBSET Texts]

\* The record of a workspace and what the writes to its fields ask for.
Stands(project, wanted) ==
    /\ wanted \in Project
    /\ IF project = None THEN wanted = EmptyProject ELSE project = wanted /\ project # EmptyProject

\* A writer has written the workspaces it was to write up to where it is.
Progress(step, r, todo, written) ==
    /\ step \in {"write", "ended", "failed"}
    /\ r \in Request
    /\ todo \in Seq(Workspaces) /\ written \in Seq(Workspaces)
    /\ written \o todo \in {Links} \union {<<v>> : v \in Workspaces}
    /\ step = "ended" => todo = <<>>
    /\ step = "failed" => todo # <<>>

\* What a writer has in hand.
Task(step, r, todo, written) ==
    [step |-> step, request |-> r, todo |-> todo, written |-> written]

\* A writer is idle or at work.
Writing(w) ==
    w = Idle \/ \E step, r, todo, written : Progress(step, r, todo, written) /\ w = Task(step, r, todo, written)

\* The file says of each workspace what the writes so far ask for.
ProjectInv ==
    /\ info = [w \in Workspaces |-> info[w]] /\ stands = [w \in Workspaces |-> stands[w]]
    /\ \A w \in Workspaces : Stands(info[w], stands[w])
    /\ writer = [p \in Writers |-> writer[p]]
    /\ \A p \in Writers : Writing(writer[p])

-----------------------------------------------------------------------------
(* Projects: lemmas *)

\* Every request that a route or a command accepts is one.
LEMMA RequestsAreRequests ==
    /\ PutRequests \subseteq Request
    /\ DeleteRequests \subseteq Request
    /\ CommandRequests \subseteq Request
<1>1. \A f : FieldValues(f) \subseteq SUBSET (Texts \union {Blank})
  BY DEF FieldValues
<1>2. Updates \subseteq UNION {[fs -> SUBSET (Texts \union {Blank})] : fs \in SUBSET ProjectFields}
  <2>1. SUFFICES ASSUME NEW u \in Updates
                 PROVE  \E fs \in SUBSET ProjectFields : u \in [fs -> SUBSET (Texts \union {Blank})]
    OBVIOUS
  <2>2. PICK fs \in SUBSET ProjectFields \ {{}} :
           u \in {v \in [fs -> UNION {FieldValues(f) : f \in fs}] : \A f \in fs : v[f] \in FieldValues(f)}
    BY DEF Updates
  <2>3. u \in [fs -> UNION {FieldValues(f) : f \in fs}] /\ \A f \in fs : u[f] \in FieldValues(f)
    BY <2>2
  <2>4. u \in [fs -> SUBSET (Texts \union {Blank})]
    BY <2>3, <1>1
  <2> QED
    BY <2>4
<1>3. PutRequests \subseteq Request
  BY <1>2 DEF PutRequests, Request
<1>4. DeleteRequests \subseteq Request
  BY DEF DeleteRequests, Request
<1>5. CommandRequests \subseteq Request
  BY <1>2 DEF CommandRequests, Request
<1> QED
  BY <1>3, <1>4, <1>5

\* A write leaves the record of a workspace with the fields that are asked for.
LEMMA AppliedStands ==
    ASSUME NEW project, NEW wanted, Stands(project, wanted), NEW r \in Request
    PROVE  Stands(Applied(project, r),
                  [f \in ProjectFields |-> IF f \in DOMAIN Wanted(r) THEN Wanted(r)[f] ELSE wanted[f]])
<1> DEFINE after == [f \in ProjectFields |-> IF f \in DOMAIN Wanted(r) THEN Wanted(r)[f] ELSE wanted[f]]
           before == IF project = None THEN EmptyProject ELSE project
<1>1. before = wanted /\ wanted \in Project
  BY DEF Stands
<1>2. EmptyProject \in Project /\ \A f \in ProjectFields : EmptyProject[f] = {}
  BY DEF EmptyProject, Project
<1>3. \A p \in Project : p # None
  BY ProjectAssumption DEF Project
<1>4. CASE \E u : r = Set(u) /\ u \in UNION {[fs -> SUBSET (Texts \union {Blank})] : fs \in SUBSET ProjectFields}
  <2>1. PICK u : r = Set(u) /\ u \in UNION {[fs -> SUBSET (Texts \union {Blank})] : fs \in SUBSET ProjectFields}
    BY <1>4
  <2>2. r.op = "set" /\ r.update = u
    BY <2>1 DEF Set
  <2>3. DOMAIN u \subseteq ProjectFields /\ \A f \in DOMAIN u : u[f] \in SUBSET (Texts \union {Blank})
    BY <2>1
  <2>4. \A f \in DOMAIN u : Normalized(u[f]) \in SUBSET Texts
    BY <2>3 DEF Normalized
  <2>5. after = [f \in ProjectFields |-> IF f \in DOMAIN u THEN Normalized(u[f]) ELSE before[f]]
    BY <2>2, <1>1 DEF Wanted
  <2>6. after \in Project
    BY <2>4, <2>5, <1>1 DEF Project
  <2>7. Applied(project, r) = IF after = EmptyProject THEN None ELSE after
    BY <2>2, <2>5 DEF Applied, Updated
  <2> QED
    BY <2>6, <2>7, <1>3 DEF Stands
<1>5. CASE \E fields \in SUBSET (ProjectFields \union {"all"}) : r = UnsetRequest(fields)
  <2>1. PICK fields \in SUBSET (ProjectFields \union {"all"}) : r = UnsetRequest(fields)
    BY <1>5
  <2>2. r.op = "unset" /\ r.fields = fields
    BY <2>1 DEF UnsetRequest
  <2>3. Wanted(r) = [f \in IF "all" \in fields THEN ProjectFields ELSE fields |-> {}]
    BY <2>2 DEF Wanted
  <2>4. after = [f \in ProjectFields |->
                  IF f \in fields \/ "all" \in fields THEN {} ELSE wanted[f]]
    BY <2>3
  <2>5. after \in Project
    BY <2>4, <1>1 DEF Project
  <2>6. Applied(project, r) = Unset(project, fields)
    BY <2>2 DEF Applied
  <2>7. CASE "all" \in fields \/ project = None
    <3>1. after = EmptyProject
      <4>1. CASE "all" \in fields
        BY <2>4, <4>1 DEF EmptyProject
      <4>2. CASE project = None
        BY <2>4, <4>2, <1>1, <1>2 DEF EmptyProject
      <4> QED
        BY <2>7, <4>1, <4>2
    <3> QED
      BY <2>5, <2>6, <2>7, <3>1 DEF Stands, Unset
  <2>8. CASE ~("all" \in fields \/ project = None)
    <3>1. after = [f \in ProjectFields |-> IF f \in fields THEN {} ELSE project[f]]
      BY <2>4, <2>8, <1>1
    <3>2. Applied(project, r) = IF after = EmptyProject THEN None ELSE after
      BY <2>6, <2>8, <3>1 DEF Unset
    <3> QED
      BY <2>5, <3>2, <1>3 DEF Stands
  <2> QED
    BY <2>7, <2>8
<1> QED
  BY <1>4, <1>5 DEF Request

\* What is known of a writer that has a request.
LEMMA WriterAtWork ==
    ASSUME NEW w, Writing(w), w.step # "idle"
    PROVE  Progress(w.step, w.request, w.todo, w.written) /\ w = Task(w.step, w.request, w.todo, w.written)
<1>1. w # Idle
  BY DEF Idle
<1>2. PICK step, r, todo, written : Progress(step, r, todo, written) /\ w = Task(step, r, todo, written)
  BY <1>1 DEF Writing
<1>3. w.step = step /\ w.request = r /\ w.todo = todo /\ w.written = written
  BY <1>2 DEF Task
<1> QED
  BY <1>2, <1>3

\* Where a task ends.
LEMMA TaskTurns ==
    ASSUME NEW step, NEW r, NEW todo, NEW written, NEW w, w = Task(step, r, todo, written), NEW s
    PROVE  [w EXCEPT !.step = s] = Task(s, r, todo, written)
BY DEF Task

\* The workspaces that a writer is given are those of the links, or one.
LEMMA WorkOf ==
    ASSUME NEW r \in Request,
           NEW todo \in {Links} \union {<<v>> : v \in Workspaces}
    PROVE  Writing(Work(r, todo))
<1>1. todo \in Seq(Workspaces)
  <2>1. CASE todo = Links
    BY <2>1, ProjectAssumption
  <2>2. ASSUME NEW v \in Workspaces, todo = <<v>>
        PROVE  todo \in Seq(Workspaces)
    BY <2>2
  <2> QED
    BY <2>1, <2>2
<1>2. <<>> \o todo = todo /\ <<>> \in Seq(Workspaces)
  BY <1>1
<1>3. Progress("write", r, todo, <<>>)
  BY <1>1, <1>2 DEF Progress
<1> QED
  BY <1>3 DEF Writing, Work, Task

\* The first link is a workspace.
LEMMA HeadLinked == <<Head(Links)>> \in {<<v>> : v \in Workspaces}
<1>1. Links \in Seq(Workspaces) /\ Links # <<>>
  BY ProjectAssumption
<1> QED
  BY <1>1

\* The next workspace moves from what is to be written to what is.
LEMMA AppendTail ==
    ASSUME NEW S, NEW done \in Seq(S), NEW todo \in Seq(S), todo # <<>>
    PROVE  Append(done, Head(todo)) \o Tail(todo) = done \o todo
<1> DEFINE left == Append(done, Head(todo)) \o Tail(todo)
           right == done \o todo
<1>1. /\ Append(done, Head(todo)) \in Seq(S) /\ Len(Append(done, Head(todo))) = Len(done) + 1
      /\ Tail(todo) \in Seq(S) /\ Len(Tail(todo)) = Len(todo) - 1 /\ Len(todo) \in Nat /\ Len(todo) > 0
      /\ Len(done) \in Nat
      /\ \A i \in 1 .. Len(done) : Append(done, Head(todo))[i] = done[i]
      /\ Append(done, Head(todo))[Len(done) + 1] = todo[1]
      /\ \A i \in 1 .. (Len(todo) - 1) : Tail(todo)[i] = todo[i + 1]
  OBVIOUS
<1>2. left \in Seq(S) /\ right \in Seq(S) /\ Len(left) = Len(done) + Len(todo) /\ Len(right) = Len(done) + Len(todo)
  BY <1>1
<1>3. ASSUME NEW i \in 1 .. (Len(done) + Len(todo))
      PROVE  left[i] = right[i]
  <2>1. CASE i \in 1 .. Len(done)
    BY <2>1, <1>1
  <2>2. CASE i = Len(done) + 1
    BY <2>2, <1>1
  <2>3. CASE i > Len(done) + 1
    <3>1. left[i] = Tail(todo)[i - (Len(done) + 1)]
      BY <2>3, <1>1
    <3>2. right[i] = todo[i - Len(done)]
      BY <2>3, <1>1
    <3> QED
      BY <3>1, <3>2, <2>3, <1>1
  <2> QED
    BY <2>1, <2>2, <2>3, <1>1
<1> HIDE DEF left, right
<1> QED
  BY <1>2, <1>3, SeqEqual

-----------------------------------------------------------------------------
(* Projects: the steps *)

\* The invariant holds at the start.
LEMMA ProjectStarts == ProjectInit => ProjectInv
<1> SUFFICES ASSUME ProjectInit PROVE ProjectInv
  OBVIOUS
<1>1. Stands(None, EmptyProject)
  BY DEF Stands, EmptyProject, Project
<1>2. Writing(Idle)
  BY DEF Writing
<1> QED
  BY <1>1, <1>2 DEF ProjectInit, ProjectInv

\* A request that is received writes nothing yet.
LEMMA ReceiveKept ==
    ASSUME ProjectInv, NEW p \in Writers, NEW r \in Request,
           NEW todo \in {Links} \union {<<v>> : v \in Workspaces}, Receive(p, r, todo)
    PROVE  ProjectInv'
<1>1. writer' = [writer EXCEPT ![p] = Work(r, todo)] /\ UNCHANGED <<info, stands>>
  BY DEF Receive
<1>2. Writing(Work(r, todo))
  BY WorkOf
<1> QED
  BY <1>1, <1>2 DEF ProjectInv

\* A write changes the record of one workspace as it was asked to.
LEMMA WriteKept ==
    ASSUME ProjectInv, NEW p \in Writers, Write(p)
    PROVE  ProjectInv'
<1> DEFINE me == writer[p]
           r == me.request
           w == Head(me.todo)
<1>1. me.step = "write" /\ me.todo # <<>>
  BY DEF Write
<1>2. Progress("write", r, me.todo, me.written) /\ me = Task("write", r, me.todo, me.written)
  BY <1>1, WriterAtWork DEF ProjectInv
<1>3. /\ r \in Request
      /\ me.todo \in Seq(Workspaces) /\ me.written \in Seq(Workspaces)
      /\ me.written \o me.todo \in {Links} \union {<<v>> : v \in Workspaces}
  BY <1>2 DEF Progress
<1>4. w \in Workspaces /\ Tail(me.todo) \in Seq(Workspaces)
  BY <1>1, <1>3
<1>5. CASE w \in readable
  <2>1. /\ info' = [info EXCEPT ![w] = Applied(@, r)]
        /\ stands' = [stands EXCEPT ![w] =
             [f \in ProjectFields |-> IF f \in DOMAIN Wanted(r) THEN Wanted(r)[f] ELSE @[f]]]
        /\ writer' = [writer EXCEPT ![p].todo = Tail(@), ![p].written = Append(@, w)]
    BY <1>5 DEF Write
  <2>2. \A v \in Workspaces : Stands(info'[v], stands'[v])
    <3>1. Stands(info[w], stands[w])
      BY <1>4 DEF ProjectInv
    <3>2. Stands(Applied(info[w], r),
                 [f \in ProjectFields |-> IF f \in DOMAIN Wanted(r) THEN Wanted(r)[f] ELSE stands[w][f]])
      <4> HIDE DEF me, r, w
      <4> QED
        BY <3>1, <1>3, AppliedStands
    <3>3. /\ info' = [v \in Workspaces |-> IF v = w THEN Applied(info[w], r) ELSE info[v]]
          /\ stands' = [v \in Workspaces |->
               IF v = w THEN [f \in ProjectFields |-> IF f \in DOMAIN Wanted(r)
                                                      THEN Wanted(r)[f] ELSE stands[w][f]]
               ELSE stands[v]]
      BY <2>1 DEF ProjectInv
    <3> QED
      BY <3>2, <3>3 DEF ProjectInv
  <2>3. Writing(writer'[p])
    <3> DEFINE todo == Tail(me.todo)
               written == Append(me.written, w)
    <3>1. writer'[p] = [me EXCEPT !.todo = todo, !.written = written]
      BY <2>1 DEF ProjectInv
    <3>2. [me EXCEPT !.todo = todo, !.written = written] = Task("write", r, todo, written)
      <4> DEFINE turned == [me EXCEPT !.todo = todo]
      <4> HIDE DEF me, r, todo, written
      <4>1. turned = Task("write", r, todo, me.written)
        BY <1>2 DEF Task
      <4> HIDE DEF turned
      <4>2. [turned EXCEPT !.written = written] = Task("write", r, todo, written)
        BY <4>1 DEF Task
      <4> QED
        BY <4>2 DEF turned
    <3>3. written \o todo = me.written \o me.todo
      BY <1>1, <1>3, <1>4, AppendTail
    <3>4. written \in Seq(Workspaces)
      BY <1>3, <1>4
    <3>5. Progress("write", r, todo, written)
      BY <3>3, <3>4, <1>3, <1>4 DEF Progress
    <3> QED
      BY <3>1, <3>2, <3>5 DEF Writing
  <2>4. \A q \in Writers : q # p => writer'[q] = writer[q]
    BY <2>1 DEF ProjectInv
  <2>5. /\ info' = [v \in Workspaces |-> info'[v]] /\ stands' = [v \in Workspaces |-> stands'[v]]
        /\ writer' = [q \in Writers |-> writer'[q]]
    BY <2>1 DEF ProjectInv
  <2> QED
    BY <2>2, <2>3, <2>4, <2>5 DEF ProjectInv
<1>6. CASE w \notin readable
  <2>1. writer' = [writer EXCEPT ![p].step = "failed"] /\ UNCHANGED <<info, stands>>
    BY <1>6 DEF Write
  <2>2. writer'[p] = [me EXCEPT !.step = "failed"]
    BY <2>1 DEF ProjectInv
  <2>3. writer'[p] = Task("failed", r, me.todo, me.written)
    BY <2>2, <1>2, TaskTurns
  <2>4. Writing(writer'[p])
    BY <2>3, <1>1, <1>2 DEF Writing, Progress
  <2>5. writer' = [q \in Writers |-> writer'[q]] /\ \A q \in Writers : q # p => writer'[q] = writer[q]
    BY <2>1 DEF ProjectInv
  <2> QED
    BY <2>1, <2>4, <2>5 DEF ProjectInv
<1> QED
  BY <1>5, <1>6

\* A writer that is done becomes idle.
LEMMA EndedKept ==
    ASSUME ProjectInv, NEW p \in Writers, Ended(p)
    PROVE  ProjectInv'
<1> DEFINE me == writer[p]
<1>1. /\ me.step = "write" /\ me.todo = <<>>
      /\ writer' = [writer EXCEPT ![p].step = "ended"] /\ UNCHANGED <<info, stands>>
  BY DEF Ended
<1>2. Progress("write", me.request, me.todo, me.written) /\ me = Task("write", me.request, me.todo, me.written)
  BY <1>1, WriterAtWork DEF ProjectInv
<1>3. writer'[p] = [me EXCEPT !.step = "ended"]
  BY <1>1 DEF ProjectInv
<1>4. writer'[p] = Task("ended", me.request, me.todo, me.written)
  BY <1>3, <1>2, TaskTurns
<1>5. Writing(writer'[p])
  BY <1>1, <1>2, <1>4 DEF Writing, Progress
<1>6. writer' = [q \in Writers |-> writer'[q]] /\ \A q \in Writers : q # p => writer'[q] = writer[q]
  BY <1>1 DEF ProjectInv
<1> QED
  BY <1>1, <1>5, <1>6 DEF ProjectInv

\* Every step of the projects keeps the invariant.
LEMMA ProjectKept ==
    ASSUME ProjectInv, ProjectNext \/ UNCHANGED projectVars
    PROVE  ProjectInv'
<1>1. CASE UNCHANGED projectVars
  BY <1>1 DEF ProjectInv, projectVars
<1>2. CASE Breaks
  BY <1>2 DEF Breaks, ProjectInv
<1>3. CASE \E p \in Writers : HttpPut(p)
  BY <1>3, RequestsAreRequests, ReceiveKept, HeadLinked DEF HttpPut
<1>4. CASE \E p \in Writers : HttpDelete(p)
  BY <1>4, RequestsAreRequests, ReceiveKept, HeadLinked DEF HttpDelete
<1>5. CASE \E p \in Writers : CommandHere(p)
  BY <1>5, RequestsAreRequests, ReceiveKept DEF CommandHere
<1>6. CASE \E p \in Writers : CommandEverywhere(p)
  BY <1>6, RequestsAreRequests, ReceiveKept DEF CommandEverywhere
<1>7. CASE \E p \in Writers : Write(p)
  BY <1>7, WriteKept
<1>8. CASE \E p \in Writers : Ended(p)
  BY <1>8, EndedKept
<1> QED
  BY <1>1, <1>2, <1>3, <1>4, <1>5, <1>6, <1>7, <1>8 DEF ProjectNext

\* The property of the projects follows.
LEMMA ProjectHolds == ProjectInv => WritesStand
<1> SUFFICES ASSUME ProjectInv PROVE WritesStand
  OBVIOUS
<1>1. \A w \in Workspaces : IF info[w] = None THEN stands[w] = EmptyProject
                            ELSE info[w] = stands[w] /\ info[w] # EmptyProject
  BY DEF ProjectInv, Stands
<1>2. ASSUME NEW p \in Writers, writer[p].step \in {"ended", "failed"}
      PROVE  /\ writer[p].step = "ended" <=> writer[p].todo = <<>>
             /\ \E r \in {Links} \union {<<w>> : w \in Workspaces} : r = writer[p].written \o writer[p].todo
  <2>1. Progress(writer[p].step, writer[p].request, writer[p].todo, writer[p].written)
    BY <1>2, WriterAtWork DEF ProjectInv
  <2> QED
    BY <2>1, <1>2 DEF Progress
<1> QED
  BY <1>1, <1>2 DEF WritesStand

-----------------------------------------------------------------------------
(* Browser: the inductive invariants *)

\* The screen shows the row under the cursor, and marks it.
Marks(f, list, position) ==
    f.marked \in DOMAIN f.rows /\ f.rows[f.marked] = list[position + 1]

\* The frame that is waited on marks the row that is selected.
BrowserInv ==
    /\ order \in Orders
    /\ sessions = [i \in DOMAIN sessions |-> sessions[i]] /\ DOMAIN sessions \subseteq Ids
    /\ rows \in Seq(Range(rows))
    /\ selected \in Nat
    /\ browser = "wait" /\ rows # <<>> => Marks(frame, rows, selected)
    /\ acted = <<>> \/ \E id : acted = <<id, id>>

\* The rows of the sessions that pass the filters.
Shown == {Row(id) : id \in {i \in DOMAIN sessions : sessions[i].status \in order.status}}

\* The order that is asked for.
Comes(o, q, r) == Precedes(SortKeys(o.sort, q), SortKeys(o.sort, r))

\* A list is the first of some rows, as many as are asked for.
FirstOf(o, list, all) ==
    /\ Len(list) = Min({o.limit, Cardinality(all)})
    /\ \A i \in DOMAIN list : list[i] \in all
    /\ \A i, j \in DOMAIN list : i < j => Comes(o, list[i], list[j])
    /\ \A r \in all : (\A j \in DOMAIN list : list[j] # r) => \A i \in DOMAIN list : Comes(o, list[i], r)

Records == [status : Statuses, updated : Nat, restarts : Nat]
Rows == [id : Ids, status : Statuses, updated : Nat, restarts : Nat]

\* A list of sessions, each once, that pass the filters, in the order and no more than asked for.
InOrder(o, list) ==
    /\ Len(list) =< o.limit
    /\ \A i \in DOMAIN list : list[i].status \in o.status
    /\ \A i, j \in DOMAIN list : i < j => list[i].id # list[j].id /\ Comes(o, list[i], list[j])

\* It stays so because a refresh sorts what the sessions are, and that has its type.
OrderInv ==
    /\ events \in Nat
    /\ sessions \in [DOMAIN sessions -> Records]
    /\ InOrder(order, rows)

-----------------------------------------------------------------------------
(* Browser: lemmas *)

\* The smaller of two numbers.
LEMMA MinOfTwo ==
    ASSUME NEW a \in Nat, NEW b \in Nat
    PROVE  Min({a, b}) = IF a < b THEN a ELSE b
<1> DEFINE m == IF a < b THEN a ELSE b
<1>1. m \in {a, b} /\ \A y \in {a, b} : m =< y
  OBVIOUS
<1>2. \A x \in {a, b} : (\A y \in {a, b} : x =< y) => x = m
  OBVIOUS
<1> HIDE DEF m
<1>3. Min({a, b}) = m
  BY <1>1, <1>2 DEF Min
<1> QED
  BY <1>3 DEF m

\* Part of a list is a list.
LEMMA PartOfList ==
    ASSUME NEW S, NEW s \in Seq(S), NEW m \in Nat, NEW n \in Nat, m >= 1, n =< Len(s), n >= m - 1
    PROVE  /\ SubSeq(s, m, n) \in Seq(S)
           /\ DOMAIN SubSeq(s, m, n) = 1 .. (n - m + 1)
           /\ \A i \in 1 .. (n - m + 1) : SubSeq(s, m, n)[i] = s[m + i - 1]
OBVIOUS

\* What is put at the place that the number of those before it gives it is in order, and all of
\* it is there: the places are as many as the elements, and no two elements have the same.
LEMMA RankedInOrder ==
    ASSUME NEW S, IsFiniteSet(S), NEW before \in [S -> SUBSET S],
           \A q, r \in S : q \in before[r] => r \notin before[q],
           \A p, q, r \in S : p \in before[q] /\ q \in before[r] => p \in before[r],
           \A q, r \in S : q = r \/ q \in before[r] \/ r \in before[q],
           NEW sorted,
           \A n \in 1 .. Cardinality(S), r \in S : Cardinality(before[r]) = n - 1 =>
               sorted[n] \in S /\ Cardinality(before[sorted[n]]) = n - 1
    PROVE  /\ \A n \in 1 .. Cardinality(S) : sorted[n] \in S
           /\ \A i, j \in 1 .. Cardinality(S) : i < j => sorted[i] \in before[sorted[j]]
           /\ \A r \in S : \E n \in 1 .. Cardinality(S) : sorted[n] = r
<1> DEFINE N == Cardinality(S)
           rank == [r \in S |-> Cardinality(before[r])]
<1>1. N \in Nat /\ \A r \in S : IsFiniteSet(before[r]) /\ rank[r] \in Nat /\ rank[r] = Cardinality(before[r])
  BY FS_Subset, FS_CardinalityType
<1>2. ASSUME NEW T \in SUBSET S, NEW q \in S, q \in T, before[q] \subseteq T
      PROVE  rank[q] < Cardinality(T)
  <2>1. IsFiniteSet(T) /\ Cardinality(T) \in Nat
    BY FS_Subset, FS_CardinalityType
  <2>2. q \notin before[q]
    OBVIOUS
  <2>3. Cardinality(before[q] \union {q}) = rank[q] + 1 /\ rank[q] \in Nat
    BY <1>1, <2>2, FS_AddElement
  <2>4. before[q] \union {q} \subseteq T
    BY <1>2
  <2>5. Cardinality(before[q] \union {q}) =< Cardinality(T)
    BY <2>1, <2>4, FS_Subset
  <2> HIDE DEF rank
  <2> QED
    BY <2>1, <2>3, <2>5
<1>3. \A r \in S : rank[r] < N
  BY <1>2
<1>4. \A q, r \in S : q \in before[r] => rank[q] < rank[r]
  <2>1. SUFFICES ASSUME NEW q \in S, NEW r \in S, q \in before[r] PROVE rank[q] < rank[r]
    OBVIOUS
  <2>2. before[r] \in SUBSET S /\ before[q] \subseteq before[r]
    BY <2>1
  <2>3. rank[q] < Cardinality(before[r])
    BY <1>2, <2>1, <2>2
  <2> QED
    BY <1>1, <2>3
<1> HIDE DEF N
<1>5. rank \in [S -> 0 .. (N - 1)]
  <2>1. \A r \in S : rank[r] \in 0 .. (N - 1)
    <3> HIDE DEF rank
    <3> QED
      BY <1>1, <1>3
  <2> QED
    BY <2>1
<1> HIDE DEF rank
<1>6. \A q, r \in S : rank[q] = rank[r] => q = r
  <2>1. SUFFICES ASSUME NEW q \in S, NEW r \in S, rank[q] = rank[r], q # r PROVE FALSE
    OBVIOUS
  <2>2. rank[q] < rank[r] \/ rank[r] < rank[q]
    BY <1>4, <2>1
  <2> QED
    BY <1>1, <2>1, <2>2
<1>7. rank \in Surjection(S, 0 .. (N - 1))
  <2>1. rank \in Injection(S, 0 .. (N - 1))
    BY <1>5, <1>6 DEF Injection, IsInjective
  <2>2. 0 \in Int /\ N - 1 \in Int /\ (IF 0 > N - 1 THEN 0 ELSE (N - 1) - 0 + 1) = N
    BY <1>1
  <2>3. IsFiniteSet(0 .. (N - 1)) /\ Cardinality(0 .. (N - 1)) = N
    BY <2>2, FS_Interval
  <2> QED
    BY <2>1, <2>3, FS_Injection DEF N
<1>8. \A n \in 1 .. N : sorted[n] \in S /\ rank[sorted[n]] = n - 1
  <2>1. SUFFICES ASSUME NEW n \in 1 .. N PROVE sorted[n] \in S /\ rank[sorted[n]] = n - 1
    OBVIOUS
  <2>2. n - 1 \in 0 .. (N - 1)
    BY <1>1
  <2>3. PICK r \in S : rank[r] = n - 1
    BY <1>7, <2>2 DEF Surjection
  <2>4. sorted[n] \in S /\ Cardinality(before[sorted[n]]) = n - 1
    BY <1>1, <2>3 DEF N
  <2> QED
    BY <1>1, <2>4
<1>9. ASSUME NEW i \in 1 .. N, NEW j \in 1 .. N, i < j
      PROVE  sorted[i] \in before[sorted[j]]
  <2>1. i - 1 < j - 1 /\ ~(j - 1 < i - 1) /\ i - 1 # j - 1
    BY <1>1, <1>9
  <2>2. sorted[i] # sorted[j] /\ sorted[j] \notin before[sorted[i]]
    BY <1>4, <1>8, <2>1
  <2> QED
    BY <1>8, <2>2
<1>10. ASSUME NEW r \in S
       PROVE  \E n \in 1 .. N : sorted[n] = r
  <2>1. rank[r] + 1 \in 1 .. N /\ (rank[r] + 1) - 1 = rank[r]
    BY <1>1, <1>3
  <2> QED
    BY <1>6, <1>8, <2>1
<1> QED
  BY <1>8, <1>9, <1>10 DEF N

\* Of two lists of keys that differ, one precedes the other, and never both; what precedes one
\* precedes what comes after that.
LEMMA KeysAreOrdered ==
    ASSUME NEW n \in Nat, NEW k \in [1 .. n -> Int], NEW l \in [1 .. n -> Int], NEW m \in [1 .. n -> Int]
    PROVE  /\ ~(Precedes(k, l) /\ Precedes(l, k))
           /\ Precedes(k, l) /\ Precedes(l, m) => Precedes(k, m)
           /\ k # l => Precedes(k, l) \/ Precedes(l, k)
<1> DEFINE First(a, b, i) == i \in 1 .. n /\ a[i] < b[i] /\ \A j \in 1 .. (i - 1) : a[j] = b[j]
<1>1. \A a, b \in [1 .. n -> Int] : Precedes(a, b) <=> \E i : First(a, b, i)
  BY DEF Precedes
<1>2. ~(Precedes(k, l) /\ Precedes(l, k))
  <2>1. SUFFICES ASSUME NEW i, NEW j, First(k, l, i), First(l, k, j) PROVE FALSE
    BY <1>1
  <2>2. k[i] \in Int /\ l[i] \in Int /\ k[j] \in Int /\ l[j] \in Int
    BY <2>1
  <2>3. CASE i < j
    BY <2>1, <2>2, <2>3
  <2>4. CASE j < i
    BY <2>1, <2>2, <2>4
  <2>5. CASE i = j
    BY <2>1, <2>2, <2>5
  <2> QED
    BY <2>1, <2>3, <2>4, <2>5
<1>3. ASSUME Precedes(k, l), Precedes(l, m)
      PROVE  Precedes(k, m)
  <2>1. PICK i : First(k, l, i)
    BY <1>1, <1>3
  <2>0. PICK j : First(l, m, j)
    BY <1>1, <1>3
  <2>2. k[i] \in Int /\ l[i] \in Int /\ m[i] \in Int /\ k[j] \in Int /\ l[j] \in Int /\ m[j] \in Int
    BY <2>0, <2>1
  <2>3. CASE i < j
    <3>1. k[i] < m[i] /\ \A x \in 1 .. (i - 1) : k[x] = m[x]
      BY <2>0, <2>1, <2>2, <2>3
    <3> QED
      BY <1>1, <2>0, <2>1, <3>1
  <2>4. CASE j < i
    <3>1. k[j] < m[j] /\ \A x \in 1 .. (j - 1) : k[x] = m[x]
      BY <2>0, <2>1, <2>2, <2>4
    <3> QED
      BY <1>1, <2>0, <2>1, <3>1
  <2>5. CASE i = j
    <3>1. k[i] < m[i] /\ \A x \in 1 .. (i - 1) : k[x] = m[x]
      BY <2>0, <2>1, <2>2, <2>5
    <3> QED
      BY <1>1, <2>0, <2>1, <3>1
  <2> QED
    BY <2>0, <2>1, <2>3, <2>4, <2>5
<1>4. ASSUME k # l
      PROVE  Precedes(k, l) \/ Precedes(l, k)
  <2> DEFINE T == {i \in 1 .. n : k[i] # l[i]}
  <2>1. T # {} /\ T \in SUBSET Nat
    <3>1. k = [i \in 1 .. n |-> k[i]] /\ l = [i \in 1 .. n |-> l[i]]
      OBVIOUS
    <3>2. PICK i \in 1 .. n : k[i] # l[i]
      BY <1>4, <3>1
    <3>3. i \in T /\ \A j \in T : j \in Nat
      BY <3>2
    <3> QED
      BY <3>3
  <2>2. PICK i \in T : \A j \in T : i =< j
    BY <2>1, LeastOf
  <2>3. i \in 1 .. n /\ k[i] # l[i] /\ k[i] \in Int /\ l[i] \in Int
    OBVIOUS
  <2>4. \A j \in 1 .. (i - 1) : j \in 1 .. n /\ ~(i =< j)
    BY <2>3
  <2>5. \A j \in 1 .. (i - 1) : k[j] = l[j]
    BY <2>2, <2>4
  <2>6. k[i] < l[i] \/ l[i] < k[i]
    BY <2>3
  <2> HIDE DEF T
  <2>7. First(k, l, i) \/ First(l, k, i)
    BY <2>3, <2>5, <2>6
  <2> HIDE DEF First
  <2> QED
    BY <1>1, <2>7
<1> QED
  BY <1>2, <1>3, <1>4
\* As many keys for each row, and the last of them tells any two rows apart.
Width == [id |-> 1, name |-> 2, status |-> 3, updated |-> 2, restarts |-> 3]

LEMMA KeysTyped ==
    ASSUME NEW sort \in Sorts, NEW r \in Rows
    PROVE  /\ Width[sort] \in Nat
           /\ SortKeys(sort, r) \in [1 .. Width[sort] -> Int]
           /\ SortKeys(sort, r)[Width[sort]] = r.id
<1>1. /\ r.id \in Nat /\ Named(r.id) \in Nat /\ StatusRank(r.status) \in Nat
      /\ MaxEvents - r.updated \in Int /\ MaxEvents - r.restarts \in Int
  BY BrowserAssumption DEF Rows, Statuses, StatusRank
<1>2. /\ sort = "id" => SortKeys(sort, r) = <<r.id>> /\ Width[sort] = 1
      /\ sort = "name" => SortKeys(sort, r) = <<Named(r.id), r.id>> /\ Width[sort] = 2
      /\ sort = "status" => SortKeys(sort, r) = <<StatusRank(r.status), Named(r.id), r.id>> /\ Width[sort] = 3
      /\ sort = "updated" => SortKeys(sort, r) = <<MaxEvents - r.updated, r.id>> /\ Width[sort] = 2
      /\ sort = "restarts" => SortKeys(sort, r) = <<MaxEvents - r.restarts, Named(r.id), r.id>> /\ Width[sort] = 3
  BY DEF SortKeys, Width
<1> DEFINE Numbers(k, w) == w \in Nat /\ k \in [1 .. w -> Int] /\ k[w] = r.id
<1>3. /\ Numbers(<<r.id>>, 1)
      /\ \A a \in Int : Numbers(<<a, r.id>>, 2)
      /\ \A a, b \in Int : Numbers(<<a, b, r.id>>, 3)
  BY <1>1
<1> HIDE DEF Numbers
<1>4. ASSUME sort = "id" PROVE Numbers(SortKeys(sort, r), Width[sort])
  BY <1>1, <1>2, <1>3, <1>4
<1>5. ASSUME sort = "name" PROVE Numbers(SortKeys(sort, r), Width[sort])
  BY <1>1, <1>2, <1>3, <1>5
<1>6. ASSUME sort = "status" PROVE Numbers(SortKeys(sort, r), Width[sort])
  BY <1>1, <1>2, <1>3, <1>6
<1>7. ASSUME sort = "updated" PROVE Numbers(SortKeys(sort, r), Width[sort])
  BY <1>1, <1>2, <1>3, <1>7
<1>8. ASSUME sort = "restarts" PROVE Numbers(SortKeys(sort, r), Width[sort])
  BY <1>1, <1>2, <1>3, <1>8
<1>9. Numbers(SortKeys(sort, r), Width[sort])
  BY <1>4, <1>5, <1>6, <1>7, <1>8 DEF Sorts
<1> QED
  BY <1>9 DEF Numbers

\* Of two rows one comes first, and never both; what comes before one comes before the next.
LEMMA RowsAreOrdered ==
    ASSUME order.sort \in Sorts, NEW p \in Rows, NEW q \in Rows, NEW r \in Rows
    PROVE  /\ ~(Comes(order, q, r) /\ Comes(order, r, q))
           /\ Comes(order, p, q) /\ Comes(order, q, r) => Comes(order, p, r)
           /\ q.id # r.id => Comes(order, q, r) \/ Comes(order, r, q)
<1> DEFINE n == Width[order.sort]
           Key(x) == SortKeys(order.sort, x)
<1>1. /\ n \in Nat /\ \A x \in Rows : Key(x) \in [1 .. n -> Int]
      /\ \A x \in Rows : Key(x)[n] = x.id
  BY KeysTyped
<1>2. \A x, y \in Rows : Comes(order, x, y) <=> Precedes(Key(x), Key(y))
  BY DEF Comes
<1>3. q.id # r.id => Key(q) # Key(r)
  BY <1>1
<1> HIDE DEF n, Key
<1> QED
  BY <1>1, <1>2, <1>3, KeysAreOrdered

\* The rows that are shown are finitely many, each of one session.
LEMMA ShownIs ==
    ASSUME DOMAIN sessions \subseteq Ids
    PROVE  /\ IsFiniteSet(Shown) /\ Cardinality(Shown) \in Nat
           /\ sessions \in [DOMAIN sessions -> Records] => Shown \subseteq Rows
           /\ \A r \in Shown : r.status \in order.status
           /\ \A q, r \in Shown : q.id = r.id => q = r
<1> DEFINE ids == {i \in DOMAIN sessions : sessions[i].status \in order.status}
           row == [i \in ids |-> Row(i)]
<1>1. IsFiniteSet(ids)
  BY BrowserAssumption, FS_Subset
<1>2. row \in Surjection(ids, Shown)
  <2>1. Shown = {Row(i) : i \in ids}
    BY DEF Shown
  <2> HIDE DEF ids
  <2>2. row \in [ids -> Shown] /\ \A r \in Shown : \E i \in ids : row[i] = r
    BY <2>1
  <2> HIDE DEF row
  <2> QED
    BY <2>2 DEF Surjection
<1> HIDE DEF row
<1>3. IsFiniteSet(Shown) /\ Cardinality(Shown) \in Nat
  BY <1>1, <1>2, FS_Surjection, FS_CardinalityType
<1>4. \A r \in Shown : r.id \in ids /\ r = Row(r.id)
  BY DEF Shown, Row
<1>5. \A r \in Shown : r.status \in order.status
  BY <1>4 DEF Row
<1>6. \A q, r \in Shown : q.id = r.id => q = r
  BY <1>4
<1>7. ASSUME sessions \in [DOMAIN sessions -> Records]
      PROVE  Shown \subseteq Rows
  <2>1. \A i \in ids : i \in Ids /\ sessions[i] \in Records
    BY <1>7
  <2>2. \A i \in ids : Row(i) \in Rows
    BY <2>1 DEF Row, Records, Rows
  <2> QED
    BY <1>4, <2>2
<1> QED
  BY <1>3, <1>5, <1>6, <1>7

\* What is collected is the first of the rows that pass the filters.
LEMMA CollectedIsFirst ==
    ASSUME order \in Orders, DOMAIN sessions \subseteq Ids, sessions \in [DOMAIN sessions -> Records]
    PROVE  FirstOf(order, CollectRows, Shown)
<1> DEFINE N == Cardinality(Shown)
           before(r) == {q \in Shown : Precedes(SortKeys(order.sort, q), SortKeys(order.sort, r))}
           at(n) == CHOOSE r \in Shown : Cardinality(before(r)) = n - 1
           sorted == [n \in 1 .. N |-> at(n)]
           limit == Min({order.limit, N})
           those == [r \in Shown |-> before(r)]
<1>1. /\ IsFiniteSet(Shown) /\ N \in Nat /\ Shown \subseteq Rows
      /\ \A q, r \in Shown : q.id = r.id => q = r
  BY ShownIs
<1>2. \A q, r \in Shown : q \in those[r] <=> Comes(order, q, r)
  BY DEF Comes
<1>3. those \in [Shown -> SUBSET Shown]
  OBVIOUS
<1>4. ASSUME NEW n \in 1 .. N, NEW r \in Shown, Cardinality(those[r]) = n - 1
      PROVE  sorted[n] \in Shown /\ Cardinality(those[sorted[n]]) = n - 1
  <2>1. Cardinality(before(r)) = n - 1
    BY <1>4
  <2>2. sorted[n] = CHOOSE x \in Shown : Cardinality(before(x)) = n - 1
    OBVIOUS
  <2> HIDE DEF before, sorted
  <2>3. sorted[n] \in Shown /\ Cardinality(before(sorted[n])) = n - 1
    BY <2>1, <2>2
  <2> QED
    BY <2>3
<1>5. CollectRows = SubSeq(sorted, 1, Min({order.limit, Len(sorted)}))
  BY DEF CollectRows, ApplyListOrder, Shown
<1>6. order.sort \in Sorts /\ order.limit \in Nat
  BY BrowserAssumption
<1>7. sorted = [n \in 1 .. N |-> sorted[n]]
  <2> HIDE DEF at, N
  <2> QED
    OBVIOUS
<1> HIDE DEF sorted, those, N
<1>8. /\ \A n \in 1 .. N : sorted[n] \in Shown
      /\ \A i, j \in 1 .. N : i < j => sorted[i] \in those[sorted[j]]
      /\ \A r \in Shown : \E n \in 1 .. N : sorted[n] = r
  <2>1. \A q, r \in Shown : q \in those[r] => r \notin those[q]
    BY <1>1, <1>2, <1>6, RowsAreOrdered
  <2>2. \A p, q, r \in Shown : p \in those[q] /\ q \in those[r] => p \in those[r]
    BY <1>1, <1>2, <1>6, RowsAreOrdered
  <2>3. \A q, r \in Shown : q = r \/ q \in those[r] \/ r \in those[q]
    BY <1>1, <1>2, <1>6, RowsAreOrdered
  <2> QED
    BY <1>1, <1>3, <1>4, <2>1, <2>2, <2>3, RankedInOrder DEF N
<1>9. sorted \in Seq(Shown) /\ Len(sorted) = N
  BY <1>1, <1>7, <1>8
<1>10. limit \in Nat /\ limit =< N
  BY <1>1, <1>6, MinOfTwo
<1>11. CollectRows = SubSeq(sorted, 1, limit)
  BY <1>5, <1>9
<1> HIDE DEF limit
<1>12. /\ DOMAIN CollectRows = 1 .. limit /\ Len(CollectRows) = limit
       /\ \A i \in 1 .. limit : CollectRows[i] = sorted[i] /\ i \in 1 .. N
  <2>1. /\ SubSeq(sorted, 1, limit) \in Seq(Shown)
        /\ DOMAIN SubSeq(sorted, 1, limit) = 1 .. (limit - 1 + 1)
        /\ \A i \in 1 .. (limit - 1 + 1) : SubSeq(sorted, 1, limit)[i] = sorted[1 + i - 1]
    BY <1>9, <1>10, <1>1, PartOfList
  <2>2. limit - 1 + 1 = limit /\ \A i \in 1 .. limit : 1 + i - 1 = i /\ i \in 1 .. N
    BY <1>1, <1>10
  <2> HIDE DEF CollectRows
  <2>3. CollectRows \in Seq(Shown) /\ DOMAIN CollectRows = 1 .. limit
    BY <1>11, <2>1, <2>2
  <2>4. Len(CollectRows) = limit
    BY <2>3, <1>10
  <2> QED
    BY <1>11, <2>1, <2>2, <2>3, <2>4
<1> HIDE DEF CollectRows
<1>13. \A i \in DOMAIN CollectRows : CollectRows[i] \in Shown
  BY <1>8, <1>12
<1>14. \A i, j \in DOMAIN CollectRows : i < j => Comes(order, CollectRows[i], CollectRows[j])
  BY <1>2, <1>8, <1>12
<1>15. ASSUME NEW r \in Shown, \A j \in DOMAIN CollectRows : CollectRows[j] # r, NEW i \in DOMAIN CollectRows
       PROVE  Comes(order, CollectRows[i], r)
  <2>1. PICK n \in 1 .. N : sorted[n] = r
    BY <1>8
  <2>2. n \notin 1 .. limit
    BY <1>12, <1>15, <2>1
  <2>3. i \in 1 .. N /\ i < n /\ CollectRows[i] = sorted[i]
    BY <1>1, <1>10, <1>12, <2>2
  <2> QED
    BY <1>2, <1>8, <2>1, <2>3
<1> QED
  BY <1>12, <1>13, <1>14, <1>15 DEF FirstOf, N, limit
\* What is collected is a list, whatever the sessions are and however they are ordered.
LEMMA CollectedIsList ==
    ASSUME order \in Orders, DOMAIN sessions \subseteq Ids
    PROVE  CollectRows \in Seq(Range(CollectRows))
<1> DEFINE all == {Row(id) : id \in {i \in DOMAIN sessions : sessions[i].status \in order.status}}
           before(r) == {q \in all : Precedes(SortKeys(order.sort, q), SortKeys(order.sort, r))}
           sorted == [n \in 1..Cardinality(all) |-> CHOOSE r \in all : Cardinality(before(r)) = n - 1]
           limit == Min({order.limit, Len(sorted)})
<1>2. Cardinality(all) \in Nat
  BY ShownIs DEF Shown
<1>3. sorted \in Seq(Range(sorted)) /\ Len(sorted) \in Nat
  <2> DEFINE n == Cardinality(all)
  <2> HIDE DEF n
  <2> DEFINE at(i) == CHOOSE r \in all : Cardinality(before(r)) = i - 1
             list == [i \in 1..n |-> at(i)]
  <2>1. n \in Nat
    BY <1>2 DEF n
  <2> HIDE DEF at
  <2>2. list \in Seq(Range(list)) /\ Len(list) \in Nat
    BY <2>1 DEF Range
  <2> QED
    BY <2>2 DEF at, n
<1> HIDE DEF sorted
<1>4. limit \in Nat /\ limit =< Len(sorted)
  BY <1>3, MinOfTwo, BrowserAssumption
<1>5. CollectRows = SubSeq(sorted, 1, limit)
  BY DEF CollectRows, ApplyListOrder, sorted
<1> HIDE DEF limit
<1>6. CollectRows \in Seq(Range(sorted))
  BY <1>3, <1>4, <1>5, PartOfList
<1> HIDE DEF CollectRows
<1> QED
  BY <1>6 DEF Range

\* The window holds the row of the cursor, wherever the cursor and however high the screen is.
LEMMA WindowHoldsCursor ==
    ASSUME rows \in Seq(Range(rows)), rows # <<>>, NEW height \in Heights,
           NEW position \in 0 .. (Len(rows) - 1)
    PROVE  LET w == Window(height, position)
               f == [rows |-> SubSeq(rows, w.top + 1, w.top + w.lines), marked |-> position + 1 - w.top]
           IN Marks(f, rows, position)
<1> DEFINE n == Len(rows)
           capacity == Minus(height, 5 + IF details THEN 11 ELSE 0)
           most == IF capacity = 0 THEN 1 ELSE capacity
           window == Min({n, most})
           start == Min({Minus(position, window \div 2), n - window})
           w == Window(height, position)
           f == [rows |-> SubSeq(rows, w.top + 1, w.top + w.lines), marked |-> position + 1 - w.top]
<1>1. n \in Nat /\ n >= 1 /\ position \in Nat /\ position =< n - 1
  OBVIOUS
<1>2. capacity \in Nat
  BY BrowserAssumption DEF Minus
<1>3. most \in Nat /\ most >= 1
  BY <1>2
<1>4. w = [top |-> start, lines |-> window]
  BY DEF Window
<1> HIDE DEF n, capacity, most, w
<1>5. window \in 1 .. n
  BY <1>1, <1>3, MinOfTwo
<1> HIDE DEF window
<1> DEFINE half == window \div 2
           above == Minus(position, half)
<1>6. half \in Nat /\ 2 * half =< window
  BY <1>5
<1> HIDE DEF half
<1>7. /\ above \in Nat /\ above =< position
      /\ position =< above + half
  BY <1>1, <1>6 DEF Minus
<1>8. start \in Nat /\ start =< above /\ start =< n - window /\ (start = above \/ start = n - window)
  <2>1. n - window \in Nat
    BY <1>1, <1>5
  <2>2. start = IF above < n - window THEN above ELSE n - window
    <3> HIDE DEF above
    <3>1. Min({above, n - window}) = IF above < n - window THEN above ELSE n - window
      BY <1>7, <2>1, MinOfTwo
    <3> QED
      BY <3>1 DEF above, half
  <2> HIDE DEF start, above
  <2> QED
    BY <1>1, <1>5, <1>7, <2>1, <2>2
<1> HIDE DEF start, above
<1> DEFINE marked == position + 1 - start
<1>9. marked \in 1 .. window
  <2>1. marked >= 1
    BY <1>1, <1>7, <1>8
  <2>2. CASE start = above
    BY <1>1, <1>5, <1>6, <1>7, <1>8, <2>1, <2>2
  <2>3. CASE start = n - window
    BY <1>1, <1>5, <1>8, <2>1, <2>3
  <2> QED
    BY <1>8, <2>2, <2>3
<1> DEFINE shown == SubSeq(rows, start + 1, start + window)
<1>10. /\ DOMAIN shown = 1 .. window
       /\ \A i \in 1 .. window : shown[i] = rows[start + i]
  <2>1. start + 1 \in Nat /\ start + window \in Nat /\ start + window =< Len(rows)
    BY <1>1, <1>5, <1>8 DEF n
  <2>2. /\ DOMAIN shown = 1 .. ((start + window) - (start + 1) + 1)
        /\ \A i \in 1 .. ((start + window) - (start + 1) + 1) : shown[i] = rows[(start + 1) + i - 1]
    BY <2>1, <1>5, <1>8, PartOfList
  <2>3. (start + window) - (start + 1) + 1 = window
    BY <1>5, <1>8
  <2>4. \A i \in 1 .. window : (start + 1) + i - 1 = start + i
    BY <1>5, <1>8
  <2> HIDE DEF shown
  <2> QED
    BY <2>2, <2>3, <2>4
<1>11. f.marked = marked /\ f.rows = shown
  BY <1>4
<1>12. start + marked = position + 1
  BY <1>1, <1>8
<1> HIDE DEF shown, marked, f
<1>13. Marks(f, rows, position)
  BY <1>9, <1>10, <1>11, <1>12 DEF Marks
<1> QED
  BY <1>13 DEF f, w

-----------------------------------------------------------------------------
(* Browser: the steps *)

\* The invariant holds at the start.
LEMMA BrowserStarts == BrowserInit => BrowserInv
<1> SUFFICES ASSUME BrowserInit PROVE BrowserInv
  OBVIOUS
<1>1. order \in Orders /\ DOMAIN sessions \subseteq Ids /\ sessions = [i \in DOMAIN sessions |-> sessions[i]]
  BY DEF BrowserInit
<1>2. rows \in Seq(Range(rows))
  BY <1>1, CollectedIsList DEF BrowserInit
<1> QED
  BY <1>1, <1>2 DEF BrowserInit, BrowserInv

\* The rows after a refresh are a list.
LEMMA RefreshedIsList ==
    ASSUME BrowserInv, NEW success \in BOOLEAN, Refreshed(success)
    PROVE  rows' \in Seq(Range(rows'))
BY CollectedIsList DEF Refreshed, BrowserInv

\* Drawing marks the selected row, which the window always holds.
LEMMA DrawKept == BrowserInv /\ Draw => BrowserInv'
<1> SUFFICES ASSUME BrowserInv, Draw PROVE BrowserInv'
  OBVIOUS
<1> DEFINE position == Clamped(selected, rows)
<1>1. selected' = position /\ rows' = rows /\ UNCHANGED <<sessions, order, acted>>
  BY DEF Draw
<1>2. PICK height \in Heights :
        LET w == Window(height, position)
        IN frame' = [rows |-> SubSeq(rows, w.top + 1, w.top + w.lines), marked |-> position + 1 - w.top]
  BY DEF Draw
<1>3. rows \in Seq(Range(rows)) /\ selected \in Nat
  BY DEF BrowserInv
<1>4. position \in Nat
  BY <1>3 DEF Clamped
<1>5. ASSUME rows # <<>> PROVE Marks(frame', rows, position)
  <2>1. position \in 0 .. (Len(rows) - 1)
    BY <1>3, <1>5 DEF Clamped
  <2> HIDE DEF position
  <2>2. LET w == Window(height, position)
            f == [rows |-> SubSeq(rows, w.top + 1, w.top + w.lines), marked |-> position + 1 - w.top]
        IN Marks(f, rows, position)
    BY <1>3, <1>5, <2>1, WindowHoldsCursor
  <2> QED
    BY <1>2, <2>2
<1> HIDE DEF position
<1> QED
  BY <1>1, <1>3, <1>4, <1>5 DEF BrowserInv

\* The cursor stays at a position.
LEMMA CursorMoves ==
    ASSUME BrowserInv
    PROVE  /\ selected + 1 \in Nat /\ Minus(selected, 1) \in Nat
           /\ rows # <<>> => Len(rows) - 1 \in Nat /\ Min({selected + 1, Len(rows) - 1}) \in Nat
<1>1. rows \in Seq(Range(rows)) /\ selected \in Nat
  BY DEF BrowserInv
<1>2. rows # <<>> => Len(rows) - 1 \in Nat
  BY <1>1
<1> QED
  BY <1>1, <1>2, MinOfTwo DEF Minus

\* A move of the cursor is drawn before the next key.
LEMMA MoveKept ==
    ASSUME BrowserInv, NEW position \in Nat, Move(position)
    PROVE  BrowserInv'
<1>1. /\ selected' = position /\ browser' = "check" /\ UNCHANGED <<sessions, order, rows, acted>>
  BY DEF Move
<1> QED
  BY <1>1 DEF BrowserInv

\* The row under the cursor is the one that is marked, and only that is acted on.
LEMMA ActedOnMarked ==
    ASSUME BrowserInv, browser = "wait", rows # <<>>, ActsOn(rows[selected + 1])
    PROVE  \E id : acted' = <<id, id>>
BY DEF BrowserInv, Marks, ActsOn

\* A key acts on the row that is marked.
LEMMA ActKept ==
    ASSUME BrowserInv, NEW key, Act(key)
    PROVE  BrowserInv'
<1>1. /\ browser = "wait" /\ rows # <<>> /\ ActsOn(rows[selected + 1])
      /\ browser' = "act" /\ UNCHANGED <<order, rows, selected>>
  BY DEF Act, Pressed
<1>2. \E id : acted' = <<id, id>>
  BY <1>1, ActedOnMarked
<1>3. PICK id, status, restarts : Changed(id, status, restarts)
  BY DEF Act
<1>4. DOMAIN sessions' = DOMAIN sessions /\ sessions' = [i \in DOMAIN sessions' |-> sessions'[i]]
  BY <1>3 DEF Changed, BrowserInv
<1> QED
  BY <1>1, <1>2, <1>4 DEF BrowserInv

\* Other processes change the sessions and not what is shown.
LEMMA OthersKept == BrowserInv /\ Others => BrowserInv'
<1> SUFFICES ASSUME BrowserInv, Others PROVE BrowserInv'
  OBVIOUS
<1>1. UNCHANGED <<order, rows, selected, frame, browser, acted>>
  BY DEF Others
<1>2. DOMAIN sessions' \subseteq Ids /\ sessions' = [i \in DOMAIN sessions' |-> sessions'[i]]
  <2>1. PICK id \in Ids :
         \/ /\ id \in DOMAIN sessions
            /\ sessions' = [i \in DOMAIN sessions \ {id} |-> sessions[i]]
         \/ /\ id \in DOMAIN sessions
            /\ \E status \in Statuses : Changed(id, status, 0)
         \/ /\ id \notin DOMAIN sessions
            /\ sessions' = [i \in DOMAIN sessions \union {id} |->
                 IF i = id THEN [status |-> "running", updated |-> events + 1, restarts |-> 0]
                 ELSE sessions[i]]
    BY DEF Others
  <2>2. CASE sessions' = [i \in DOMAIN sessions \ {id} |-> sessions[i]]
    BY <2>2 DEF BrowserInv
  <2>3. CASE \E status \in Statuses : Changed(id, status, 0)
    BY <2>3 DEF BrowserInv, Changed
  <2>4. CASE sessions' = [i \in DOMAIN sessions \union {id} |->
                 IF i = id THEN [status |-> "running", updated |-> events + 1, restarts |-> 0]
                 ELSE sessions[i]]
    BY <2>4 DEF BrowserInv
  <2> QED
    BY <2>1, <2>2, <2>3, <2>4
<1> QED
  BY <1>1, <1>2 DEF BrowserInv

\* Every step of the browser keeps the invariant.
LEMMA BrowserKept ==
    ASSUME BrowserInv, BrowserNext \/ UNCHANGED browserVars
    PROVE  BrowserInv'
<1>1. CASE UNCHANGED browserVars
  BY <1>1 DEF BrowserInv, browserVars
<1>2. CASE Draw
  BY <1>2, DrawKept
<1>3. CASE Down \/ Up \/ Top \/ Bottom
  BY <1>3, CursorMoves, MoveKept DEF Down, Up, Top, Bottom, BrowserInv
<1>4. CASE Toggle \/ Quit \/ Ignored \/ Elapses \/ NotYet
  BY <1>4 DEF Toggle, Quit, Ignored, Elapses, NotYet, BrowserInv
<1>5. CASE Refresh \/ AutoRefresh
  <2>1. /\ browser' # "wait" /\ UNCHANGED <<sessions, order, selected, acted>>
        /\ \E success \in BOOLEAN : Refreshed(success)
    BY <1>5 DEF Refresh, AutoRefresh
  <2> QED
    BY <2>1, RefreshedIsList DEF BrowserInv
<1>6. CASE \E key \in {"x", "R", "s", "u"} : Act(key)
  BY <1>6, ActKept
<1>7. CASE ActionFails
  <2>1. /\ browser = "wait" /\ rows # <<>> /\ ActsOn(rows[selected + 1])
        /\ browser' = "check" /\ UNCHANGED <<sessions, order, rows, selected>>
    BY <1>7 DEF ActionFails, Pressed
  <2> QED
    BY <2>1, ActedOnMarked DEF BrowserInv
<1>8. CASE ActionRefresh
  <2>1. /\ browser' = "check" /\ UNCHANGED <<sessions, order, acted>> /\ selected' = Clamped(selected, rows')
        /\ \E success \in BOOLEAN : Refreshed(success)
    BY <1>8 DEF ActionRefresh
  <2>2. rows' \in Seq(Range(rows'))
    BY <2>1, RefreshedIsList
  <2>3. selected' \in Nat
    BY <2>1, <2>2 DEF BrowserInv, Clamped
  <2> QED
    BY <2>1, <2>2, <2>3 DEF BrowserInv
<1>9. CASE Others
  BY <1>9, OthersKept
<1> QED
  BY <1>1, <1>2, <1>3, <1>4, <1>5, <1>6, <1>7, <1>8, <1>9 DEF BrowserNext

\* What has been collected is in order.
LEMMA CollectedInOrder ==
    ASSUME order \in Orders, DOMAIN sessions \subseteq Ids, sessions \in [DOMAIN sessions -> Records]
    PROVE  InOrder(order, CollectRows)
<1> DEFINE list == CollectRows
<1>1. FirstOf(order, list, Shown)
  BY CollectedIsFirst
<1> HIDE DEF list
<1>2. /\ Cardinality(Shown) \in Nat /\ Shown \subseteq Rows
      /\ \A r \in Shown : r.status \in order.status
      /\ \A q, r \in Shown : q.id = r.id => q = r
  BY ShownIs
<1>3. order.limit \in Nat /\ order.sort \in Sorts
  BY BrowserAssumption
<1>4. Len(list) =< order.limit
  <2>1. Len(list) = Min({order.limit, Cardinality(Shown)})
    BY <1>1 DEF FirstOf
  <2>2. Min({order.limit, Cardinality(Shown)}) =< order.limit
    BY <1>2, <1>3, MinOfTwo
  <2> QED
    BY <2>1, <2>2
<1>5. \A i \in DOMAIN list : list[i] \in Shown
  BY <1>1 DEF FirstOf
<1>6. ASSUME NEW i \in DOMAIN list, NEW j \in DOMAIN list, i < j
      PROVE  list[i].id # list[j].id /\ Comes(order, list[i], list[j])
  <2>1. Comes(order, list[i], list[j])
    BY <1>1, <1>6 DEF FirstOf
  <2>2. list[i] # list[j]
    BY <1>2, <1>3, <1>5, <2>1, RowsAreOrdered
  <2> QED
    BY <1>2, <1>5, <2>1, <2>2
<1>7. \A i \in DOMAIN list : list[i].status \in order.status
  BY <1>2, <1>5
<1> QED
  BY <1>4, <1>6, <1>7 DEF InOrder, list

\* The rows are in order from the start.
LEMMA OrderStarts == BrowserInit => OrderInv
<1> SUFFICES ASSUME BrowserInit PROVE OrderInv
  OBVIOUS
<1>1. order \in Orders /\ DOMAIN sessions \subseteq Ids /\ rows = CollectRows /\ events = 0
  BY DEF BrowserInit
<1>2. sessions \in [DOMAIN sessions -> Records]
  BY DEF BrowserInit, Records, Statuses
<1> QED
  BY <1>1, <1>2, CollectedInOrder DEF OrderInv

\* What a step does to the rows, and what it does to the sessions.
LEMMA RowsStep ==
    ASSUME BrowserNext \/ UNCHANGED browserVars
    PROVE  /\ order' = order
           /\ events' \in {events, events + 1}
           /\ rows' = rows \/ (rows' = CollectRows /\ sessions' = sessions)
           /\ sessions' = sessions \/ Others \/ \E key \in {"x", "R", "s", "u"} : Act(key)
<1>1. CASE UNCHANGED browserVars
  BY <1>1 DEF browserVars
<1>2. CASE Draw \/ Elapses \/ NotYet
  BY <1>2 DEF Draw, Elapses, NotYet
<1>3. CASE Down \/ Up \/ Top \/ Bottom
  BY <1>3 DEF Down, Up, Top, Bottom, Move, Pressed
<1>4. CASE Toggle \/ Quit \/ Ignored \/ ActionFails
  BY <1>4 DEF Toggle, Quit, Ignored, ActionFails, Pressed
<1>5. CASE Refresh \/ ActionRefresh \/ AutoRefresh
  BY <1>5 DEF Refresh, ActionRefresh, AutoRefresh, Refreshed, Pressed
<1>6. CASE Others
  BY <1>6 DEF Others
<1>7. CASE \E key \in {"x", "R", "s", "u"} : Act(key)
  BY <1>7 DEF Act, Pressed
<1> QED
  BY <1>1, <1>2, <1>3, <1>4, <1>5, <1>6, <1>7 DEF BrowserNext

\* A session that changes keeps its type.
LEMMA ChangedTyped ==
    ASSUME events \in Nat, sessions \in [DOMAIN sessions -> Records],
           NEW id \in DOMAIN sessions, NEW status \in Statuses, NEW restarts \in Nat,
           Changed(id, status, restarts)
    PROVE  sessions' \in [DOMAIN sessions' -> Records]
<1> DEFINE new == [sessions[id] EXCEPT !.status = status, !.updated = events + 1, !.restarts = @ + restarts]
<1>1. new \in Records
  <2>1. \A r \in Records, n \in Nat :
          /\ [r EXCEPT !.status = status] \in Records
          /\ [r EXCEPT !.updated = n] \in Records
          /\ [r EXCEPT !.restarts = n] \in Records
    BY DEF Records
  <2> DEFINE first == [sessions[id] EXCEPT !.status = status]
             second == [first EXCEPT !.updated = events + 1]
             most == sessions[id].restarts + restarts
  <2>2. sessions[id] \in Records /\ events + 1 \in Nat
    OBVIOUS
  <2>3. most \in Nat
    BY <2>2 DEF Records
  <2>4. new = [second EXCEPT !.restarts = most]
    OBVIOUS
  <2>5. first \in Records
    BY <2>1, <2>2
  <2> HIDE DEF first, most
  <2>6. second \in Records
    BY <2>1, <2>2, <2>5
  <2> HIDE DEF second, new
  <2> QED
    BY <2>1, <2>3, <2>4, <2>6
<1>2. sessions' = [sessions EXCEPT ![id] = new]
  BY DEF Changed
<1> HIDE DEF new
<1> QED
  BY <1>1, <1>2

LEMMA SessionsTyped ==
    ASSUME OrderInv, BrowserNext \/ UNCHANGED browserVars
    PROVE  sessions' \in [DOMAIN sessions' -> Records]
<1>1. events \in Nat /\ sessions \in [DOMAIN sessions -> Records]
  BY DEF OrderInv
<1>2. CASE sessions' = sessions
  BY <1>1, <1>2
<1>3. ASSUME NEW key \in {"x", "R", "s", "u"}, Act(key)
      PROVE  sessions' \in [DOMAIN sessions' -> Records]
  <2>1. PICK id \in DOMAIN sessions : Changed(id, Outcome(key), IF key = "R" THEN 1 ELSE 0)
    BY <1>3 DEF Act
  <2>2. Outcome(key) \in Statuses
    BY DEF Outcome, Statuses
  <2> QED
    BY <1>1, <2>1, <2>2, ChangedTyped
<1>4. ASSUME Others
      PROVE  sessions' \in [DOMAIN sessions' -> Records]
  <2>1. PICK id \in Ids :
         \/ /\ id \in DOMAIN sessions
            /\ sessions' = [i \in DOMAIN sessions \ {id} |-> sessions[i]]
         \/ /\ id \in DOMAIN sessions
            /\ \E status \in Statuses : Changed(id, status, 0)
         \/ /\ id \notin DOMAIN sessions
            /\ sessions' = [i \in DOMAIN sessions \union {id} |->
                 IF i = id THEN [status |-> "running", updated |-> events + 1, restarts |-> 0]
                 ELSE sessions[i]]
    BY <1>4 DEF Others
  <2>2. CASE sessions' = [i \in DOMAIN sessions \ {id} |-> sessions[i]]
    BY <1>1, <2>2
  <2>3. CASE id \in DOMAIN sessions /\ \E status \in Statuses : Changed(id, status, 0)
    BY <1>1, <2>3, ChangedTyped
  <2>4. CASE sessions' = [i \in DOMAIN sessions \union {id} |->
                 IF i = id THEN [status |-> "running", updated |-> events + 1, restarts |-> 0]
                 ELSE sessions[i]]
    <3>1. [status |-> "running", updated |-> events + 1, restarts |-> 0] \in Records
      BY <1>1 DEF Records, Statuses
    <3> QED
      BY <1>1, <2>4, <3>1
  <2> QED
    BY <2>1, <2>2, <2>3, <2>4
<1> QED
  BY <1>2, <1>3, <1>4, RowsStep

\* The rows stay in order.
LEMMA OrderKept ==
    ASSUME BrowserInv, OrderInv, BrowserNext \/ UNCHANGED browserVars
    PROVE  OrderInv'
<1>1. events \in Nat /\ events' \in Nat
  BY RowsStep DEF OrderInv
<1>2. sessions' \in [DOMAIN sessions' -> Records]
  BY SessionsTyped
<1>3. order' = order /\ (rows' = rows \/ rows' = CollectRows)
  BY RowsStep
<1>5. ASSUME rows' = rows
      PROVE  InOrder(order', rows')
  BY <1>3, <1>5 DEF OrderInv
<1>6. ASSUME rows' = CollectRows
      PROVE  InOrder(order', rows')
  <2>1. order \in Orders /\ DOMAIN sessions \subseteq Ids /\ sessions \in [DOMAIN sessions -> Records]
    BY DEF BrowserInv, OrderInv
  <2> QED
    BY <1>3, <1>6, <2>1, CollectedInOrder
<1> QED
  BY <1>1, <1>2, <1>3, <1>5, <1>6 DEF OrderInv

\* A refresh that changes the rows shows the first of the sessions there are.
LEMMA FirstAreShown ==
    ASSUME BrowserInv, OrderInv, BrowserNext \/ UNCHANGED browserVars, rows' # rows
    PROVE  FirstOf(order, rows, Shown)'
<1>1. order' = order /\ rows' = CollectRows /\ sessions' = sessions
  BY RowsStep
<1>2. FirstOf(order, CollectRows, Shown)
  BY CollectedIsFirst DEF BrowserInv, OrderInv
<1>3. Shown' = Shown
  BY <1>1 DEF Shown, Row
<1> QED
  BY <1>1, <1>2, <1>3
\* The property of the browser follows.
LEMMA BrowserHolds == BrowserInv => ActsOnMarked
BY DEF BrowserInv, ActsOnMarked, Marks

-----------------------------------------------------------------------------
(* FrontEnds: the tables of the fields *)

\* A function over another one, point by point.
LEMMA OverIs == \A f, g :
  /\ \A k : k \in DOMAIN (f ++ g) <=> k \in DOMAIN f \/ k \in DOMAIN g
  /\ \A k \in DOMAIN f : (f ++ g)[k] = f[k]
  /\ \A k \in DOMAIN g : k \notin DOMAIN f => (f ++ g)[k] = g[k]
BY DEF ++

\* One function knows what another one says.
Extends(h, f) == \A k \in DOMAIN f : k \in DOMAIN h /\ h[k] = f[k]

\* Two functions that know nothing in common.
Apart(f, g) == \A k \in DOMAIN f : k \notin DOMAIN g

\* A function over another one knows both, when they are apart.
LEMMA OverExtends ==
   ASSUME NEW f, NEW g, NEW h, h = f ++ g
   PROVE
   /\ Extends(h, f)
   /\ Apart(g, f) => Extends(h, g)
   /\ \A e : Extends(f, e) => Extends(h, e)
   /\ \A e : Apart(e, h) <=> Apart(e, f) /\ Apart(e, g)
<1>1. \A k : k \in DOMAIN h <=> k \in DOMAIN f \/ k \in DOMAIN g
  BY OverIs
<1>2. \A k \in DOMAIN f : h[k] = f[k]
  BY OverIs
<1>3. \A k \in DOMAIN g : k \notin DOMAIN f => h[k] = g[k]
  BY OverIs
<1> QED
  BY <1>1, <1>2, <1>3 DEF Extends, Apart

\* The routes of the threads.
LEMMA ThreadDomain ==
  /\ \A k : k \in DOMAIN ThreadRoutes <=> k \in {"continue", "pause", "next", "stepIn", "stepOut",
         "threads"}
  /\ \A k \in {"continue", "pause", "next", "stepIn", "stepOut"} : ThreadRoutes[k] = OnThread
  /\ ThreadRoutes["threads"] = [timeout_ms |-> Field("query", "1500")]
<1> DEFINE f == [c \in {"continue", "pause", "next", "stepIn", "stepOut"} |-> OnThread]
           g == [threads |-> [timeout_ms |-> Field("query", "1500")]]
<1>1. ThreadRoutes = f ++ g
  BY DEF ThreadRoutes
<1>2. DOMAIN f = {"continue", "pause", "next", "stepIn", "stepOut"} /\ DOMAIN g = {"threads"}
  OBVIOUS
<1>3. \A k \in {"continue", "pause", "next", "stepIn", "stepOut"} : f[k] = OnThread
  OBVIOUS
<1>4. g["threads"] = [timeout_ms |-> Field("query", "1500")]
  OBVIOUS
<1> HIDE DEF f, g
<1> QED
  BY <1>1, <1>2, <1>3, <1>4, OverIs

\* The commands of the other tables of routes.
LEMMA RouteDomains ==
   /\ DOMAIN SessionRoutes = {"stop", "restart", "cleanup"}
   /\ DOMAIN BreakpointRoutes = {"setBreakpoints", "setExceptionBreakpoints"}
   /\ DOMAIN EvaluateRoutes = {"evaluate", "setVariable"}
   /\ DOMAIN ControlRoutes = {"disconnect", "terminate", "adopt"}
   /\ DOMAIN DapRoutes = {"events", "request", "batch"}
   /\ DOMAIN NoFields = {"suspend", "resume"}
BY DEF SessionRoutes, BreakpointRoutes, EvaluateRoutes, ControlRoutes, DapRoutes, NoFields

\* The table of the command that both have last.
Inspection == [inspect |-> [tail |-> Field("tail", "50")]]

\* No table of routes hides another one.
LEMMA HttpTables ==
   /\ Extends(HttpFields, SessionRoutes)
   /\ Extends(HttpFields, BreakpointRoutes)
   /\ Extends(HttpFields, EvaluateRoutes)
   /\ Extends(HttpFields, ThreadRoutes)
   /\ Extends(HttpFields, ControlRoutes)
   /\ Extends(HttpFields, DapRoutes)
   /\ Extends(HttpFields, NoFields)
   /\ Extends(HttpFields, Inspection)
   /\ \A k \in DOMAIN HttpFields :
        \/ k \in DOMAIN SessionRoutes \/ k \in DOMAIN BreakpointRoutes \/ k \in DOMAIN EvaluateRoutes
        \/ k \in DOMAIN ThreadRoutes \/ k \in DOMAIN ControlRoutes \/ k \in DOMAIN DapRoutes
        \/ k \in DOMAIN NoFields \/ k \in DOMAIN Inspection
<1> DEFINE H2 == SessionRoutes ++ BreakpointRoutes
           H3 == H2 ++ EvaluateRoutes
           H4 == H3 ++ ThreadRoutes
           H5 == H4 ++ ControlRoutes
           H6 == H5 ++ DapRoutes
           H7 == H6 ++ NoFields
<1>1. /\ H2 = SessionRoutes ++ BreakpointRoutes /\ H3 = H2 ++ EvaluateRoutes /\ H4 = H3 ++ ThreadRoutes
      /\ H5 = H4 ++ ControlRoutes /\ H6 = H5 ++ DapRoutes /\ H7 = H6 ++ NoFields
      /\ HttpFields = H7 ++ Inspection
  BY DEF HttpFields, Inspection
<1>2. DOMAIN Inspection = {"inspect"}
  BY DEF Inspection
<1> HIDE DEF H2, H3, H4, H5, H6, H7
<1>3. /\ Apart(BreakpointRoutes, SessionRoutes)
      /\ Apart(EvaluateRoutes, SessionRoutes) /\ Apart(EvaluateRoutes, BreakpointRoutes)
  BY RouteDomains DEF Apart
<1>4. /\ Apart(ThreadRoutes, SessionRoutes) /\ Apart(ThreadRoutes,
          BreakpointRoutes) /\ Apart(ThreadRoutes, EvaluateRoutes)
  BY RouteDomains, ThreadDomain DEF Apart
<1>5. /\ Apart(ControlRoutes, SessionRoutes) /\ Apart(ControlRoutes,
          BreakpointRoutes) /\ Apart(ControlRoutes, EvaluateRoutes)
      /\ Apart(ControlRoutes, ThreadRoutes)
  BY RouteDomains, ThreadDomain DEF Apart
<1>6. /\ Apart(DapRoutes, SessionRoutes) /\ Apart(DapRoutes, BreakpointRoutes) /\ Apart(DapRoutes,
          EvaluateRoutes)
      /\ Apart(DapRoutes, ThreadRoutes) /\ Apart(DapRoutes, ControlRoutes)
  BY RouteDomains, ThreadDomain DEF Apart
<1>7. /\ Apart(NoFields, SessionRoutes) /\ Apart(NoFields, BreakpointRoutes) /\ Apart(NoFields,
          EvaluateRoutes)
      /\ Apart(NoFields, ThreadRoutes) /\ Apart(NoFields, ControlRoutes) /\ Apart(NoFields, DapRoutes)
  BY RouteDomains, ThreadDomain DEF Apart
<1>8. /\ Apart(Inspection, SessionRoutes) /\ Apart(Inspection, BreakpointRoutes) /\ Apart(Inspection,
          EvaluateRoutes)
      /\ Apart(Inspection, ThreadRoutes) /\ Apart(Inspection, ControlRoutes) /\ Apart(Inspection,
             DapRoutes)
      /\ Apart(Inspection, NoFields)
  BY RouteDomains, ThreadDomain, <1>2 DEF Apart
<1>a. Extends(H2, SessionRoutes) /\ Extends(H2, BreakpointRoutes)
      /\ \A e : Apart(e, H2) <=> Apart(e, SessionRoutes) /\ Apart(e, BreakpointRoutes)
  BY <1>1, <1>3, OverExtends
<1>b. Extends(H3, H2) /\ Extends(H3, EvaluateRoutes)
      /\ \A e : Apart(e, H3) <=> Apart(e, H2) /\ Apart(e, EvaluateRoutes)
  BY <1>1, <1>3, <1>a, OverExtends
<1>c. Extends(H4, H3) /\ Extends(H4, ThreadRoutes)
      /\ \A e : Apart(e, H4) <=> Apart(e, H3) /\ Apart(e, ThreadRoutes)
  BY <1>1, <1>4, <1>a, <1>b, OverExtends
<1>d. Extends(H5, H4) /\ Extends(H5, ControlRoutes)
      /\ \A e : Apart(e, H5) <=> Apart(e, H4) /\ Apart(e, ControlRoutes)
  BY <1>1, <1>5, <1>a, <1>b, <1>c, OverExtends
<1>e. Extends(H6, H5) /\ Extends(H6, DapRoutes)
      /\ \A e : Apart(e, H6) <=> Apart(e, H5) /\ Apart(e, DapRoutes)
  BY <1>1, <1>6, <1>a, <1>b, <1>c, <1>d, OverExtends
<1>f. Extends(H7, H6) /\ Extends(H7, NoFields)
      /\ \A e : Apart(e, H7) <=> Apart(e, H6) /\ Apart(e, NoFields)
  BY <1>1, <1>7, <1>a, <1>b, <1>c, <1>d, <1>e, OverExtends
<1>g. Extends(HttpFields, H7) /\ Extends(HttpFields, Inspection)
  BY <1>1, <1>8, <1>a, <1>b, <1>c, <1>d, <1>e, <1>f, OverExtends
<1>h. \A f, g, h : Extends(f, g) /\ Extends(g, h) => Extends(f, h)
  BY DEF Extends
<1>i. Extends(HttpFields, H3) /\ Extends(HttpFields, H5)
  BY <1>b, <1>c, <1>d, <1>e, <1>f, <1>g, <1>h
<1>j. \A k \in DOMAIN H3 :
        k \in DOMAIN SessionRoutes \/ k \in DOMAIN BreakpointRoutes \/ k \in DOMAIN EvaluateRoutes
  BY <1>1, OverIs
<1>k. \A k \in DOMAIN H5 : k \in DOMAIN H3 \/ k \in DOMAIN ThreadRoutes \/ k \in DOMAIN ControlRoutes
  BY <1>1, OverIs
<1>l. \A k \in DOMAIN HttpFields :
        k \in DOMAIN H5 \/ k \in DOMAIN DapRoutes \/ k \in DOMAIN NoFields \/ k \in DOMAIN Inspection
  BY <1>1, OverIs
<1>m. /\ Extends(HttpFields, SessionRoutes) /\ Extends(HttpFields,
          BreakpointRoutes) /\ Extends(HttpFields, EvaluateRoutes)
  BY <1>a, <1>b, <1>h, <1>i
<1>n. /\ Extends(HttpFields, ThreadRoutes) /\ Extends(HttpFields,
          ControlRoutes) /\ Extends(HttpFields, DapRoutes) /\ Extends(HttpFields, NoFields)
  BY <1>c, <1>d, <1>e, <1>f, <1>g, <1>h, <1>i
<1>o. \A k \in DOMAIN HttpFields :
        \/ k \in DOMAIN SessionRoutes \/ k \in DOMAIN BreakpointRoutes \/ k \in DOMAIN EvaluateRoutes
        \/ k \in DOMAIN ThreadRoutes \/ k \in DOMAIN ControlRoutes \/ k \in DOMAIN DapRoutes
        \/ k \in DOMAIN NoFields \/ k \in DOMAIN Inspection
  BY <1>j, <1>k, <1>l
<1> QED
  BY <1>g, <1>m, <1>n, <1>o

\* The commands of the tables of options.
LEMMA OptionDomains ==
   /\ DOMAIN LifecycleOptions = {"stop", "restart"}
   /\ DOMAIN CleanupOptions = {"cleanup"}
   /\ DOMAIN RequestOptions =
        {"request", "batch", "setBreakpoints", "continue", "setExceptionBreakpoints", "evaluate"}
   /\ DOMAIN ControlOptions =
        {"setVariable", "pause", "next", "stepIn", "stepOut", "disconnect", "terminate", "adopt"}
   /\ DOMAIN InspectOptions = {"threads", "events", "stackTrace", "scopes", "variables"}
BY DEF LifecycleOptions, CleanupOptions, RequestOptions, ControlOptions, InspectOptions

\* No table of options hides another one.
LEMMA CliTables ==
   /\ Extends(CliFields, LifecycleOptions) /\ Extends(CliFields, CleanupOptions)
   /\ Extends(CliFields, RequestOptions) /\ Extends(CliFields, ControlOptions)
   /\ Extends(CliFields, InspectOptions) /\ Extends(CliFields, NoFields)
   /\ Extends(CliFields, Inspection)
<1> DEFINE C2 == LifecycleOptions ++ CleanupOptions
           C3 == C2 ++ RequestOptions
           C4 == C3 ++ ControlOptions
           C5 == C4 ++ InspectOptions
           C6 == C5 ++ NoFields
<1>1. /\ C2 = LifecycleOptions ++ CleanupOptions
      /\ C3 = C2 ++ RequestOptions /\ C4 = C3 ++ ControlOptions
      /\ C5 = C4 ++ InspectOptions /\ C6 = C5 ++ NoFields /\ CliFields = C6 ++ Inspection
  BY DEF CliFields, Inspection
<1>2. DOMAIN Inspection = {"inspect"}
  BY DEF Inspection
<1> HIDE DEF C2, C3, C4, C5, C6
<1>3. /\ Apart(CleanupOptions, LifecycleOptions)
      /\ Apart(RequestOptions, LifecycleOptions) /\ Apart(RequestOptions, CleanupOptions)
      /\ Apart(ControlOptions, LifecycleOptions) /\ Apart(ControlOptions, CleanupOptions)
      /\ Apart(ControlOptions, RequestOptions)
  BY OptionDomains DEF Apart
<1>4. /\ Apart(InspectOptions, LifecycleOptions) /\ Apart(InspectOptions, CleanupOptions)
      /\ Apart(InspectOptions, RequestOptions) /\ Apart(InspectOptions, ControlOptions)
  BY OptionDomains DEF Apart
<1>5. /\ Apart(NoFields, LifecycleOptions) /\ Apart(NoFields, CleanupOptions) /\ Apart(NoFields,
          RequestOptions)
      /\ Apart(NoFields, ControlOptions) /\ Apart(NoFields, InspectOptions)
  BY OptionDomains, RouteDomains DEF Apart
<1>6. /\ Apart(Inspection, LifecycleOptions) /\ Apart(Inspection, CleanupOptions)
      /\ Apart(Inspection, RequestOptions) /\ Apart(Inspection, ControlOptions)
      /\ Apart(Inspection, InspectOptions) /\ Apart(Inspection, NoFields)
  BY OptionDomains, RouteDomains, <1>2 DEF Apart
<1>a. /\ Extends(C2, LifecycleOptions) /\ Extends(C2, CleanupOptions)
      /\ \A e : Apart(e, C2) <=> Apart(e, LifecycleOptions) /\ Apart(e, CleanupOptions)
  BY <1>1, <1>3, OverExtends
<1>b. /\ Extends(C3, C2) /\ Extends(C3, RequestOptions)
      /\ \A e : Apart(e, C3) <=> Apart(e, C2) /\ Apart(e, RequestOptions)
  BY <1>1, <1>3, <1>a, OverExtends
<1>c. /\ Extends(C4, C3) /\ Extends(C4, ControlOptions)
      /\ \A e : Apart(e, C4) <=> Apart(e, C3) /\ Apart(e, ControlOptions)
  BY <1>1, <1>3, <1>a, <1>b, OverExtends
<1>d. /\ Extends(C5, C4) /\ Extends(C5, InspectOptions)
      /\ \A e : Apart(e, C5) <=> Apart(e, C4) /\ Apart(e, InspectOptions)
  BY <1>1, <1>4, <1>a, <1>b, <1>c, OverExtends
<1>e. /\ Extends(C6, C5) /\ Extends(C6, NoFields)
      /\ \A e : Apart(e, C6) <=> Apart(e, C5) /\ Apart(e, NoFields)
  BY <1>1, <1>5, <1>a, <1>b, <1>c, <1>d, OverExtends
<1>f. Extends(CliFields, C6) /\ Extends(CliFields, Inspection)
  BY <1>1, <1>6, <1>a, <1>b, <1>c, <1>d, <1>e, OverExtends
<1>g. \A f, g, h : Extends(f, g) /\ Extends(g, h) => Extends(f, h)
  BY DEF Extends
<1>h. Extends(CliFields, C3) /\ Extends(CliFields, C5)
  BY <1>c, <1>d, <1>e, <1>f, <1>g
<1>i. /\ Extends(CliFields, LifecycleOptions) /\ Extends(CliFields, CleanupOptions)
      /\ Extends(CliFields, RequestOptions)
  BY <1>a, <1>b, <1>g, <1>h
<1>j. /\ Extends(CliFields, ControlOptions) /\ Extends(CliFields, InspectOptions)
      /\ Extends(CliFields, NoFields)
  BY <1>c, <1>d, <1>e, <1>f, <1>g, <1>h
<1> QED
  BY <1>f, <1>i, <1>j

-----------------------------------------------------------------------------
(* FrontEnds: the kinds of fields *)

\* What a kind says, what it refuses and what it means.
Reads(kind, says, refused, means) ==
    /\ \A x : x \in kind.says <=> x \in says
    /\ \A x : x \in DOMAIN kind.refuses <=> x \in refused
    /\ \A x \in refused : kind.refuses[x] \notin {0, 200}
    /\ kind = [says |-> kind.says, refuses |-> kind.refuses, means |-> means]

\* A kind reads as it was made.
LEMMA KindReads ==
    ASSUME NEW says, NEW code, NEW refused, NEW means, code \notin {0, 200}
    PROVE  Reads(Kind(says, code, refused, means),
                 {"absent", "good"} \union says \union refused \union DOMAIN means, refused, means)
BY DEF Kind, Reads

\* A kind that refuses more.
LEMMA AlsoReads ==
    ASSUME NEW kind, NEW says, NEW code, NEW refused, NEW means, NEW more,
           Reads(kind, says, refused, means), code \notin {0, 200}
    PROVE  Reads(Also(kind, code, more), says \union more, refused \union more, means)
<1> DEFINE codes == [c \in more |-> code]
           refuses == kind.refuses ++ codes
<1>1. Also(kind, code, more) = [says |-> kind.says \union more, refuses |-> refuses, means |-> means]
  <2>1. kind.means = means
    BY DEF Reads
  <2> QED
    BY <2>1 DEF Also
<1>2. DOMAIN codes = more /\ \A c \in more : codes[c] = code
  OBVIOUS
<1> HIDE DEF codes
<1>3. /\ \A x : x \in DOMAIN refuses <=> x \in DOMAIN kind.refuses \/ x \in more
      /\ \A x \in DOMAIN kind.refuses : refuses[x] = kind.refuses[x]
      /\ \A x \in more : x \notin DOMAIN kind.refuses => refuses[x] = code
  BY <1>2, OverIs
<1> HIDE DEF refuses
<1>4. /\ Also(kind, code, more).says = kind.says \union more
      /\ Also(kind, code, more).refuses = refuses /\ Also(kind, code, more).means = means
  BY <1>1
<1>5. /\ \A x : x \in Also(kind, code, more).says <=> x \in says \union more
      /\ \A x : x \in DOMAIN Also(kind, code, more).refuses <=> x \in refused \union more
  BY <1>3, <1>4 DEF Reads
<1>6. \A x \in refused \union more : Also(kind, code, more).refuses[x] \notin {0, 200}
  BY <1>3, <1>4 DEF Reads
<1>7. Also(kind, code, more) =
         [says |-> Also(kind, code, more).says, refuses |-> Also(kind, code, more).refuses,
             means |-> means]
  BY <1>1, <1>4
<1> QED
  BY <1>5, <1>6, <1>7 DEF Reads

\* The values that are replaced.
LEMMA MeaningDomains ==
    /\ DOMAIN Same = {} /\ DOMAIN OnOff = {"good", "off"}
    /\ DOMAIN [big |-> "60000"] = {"big"} /\ DOMAIN [null |-> "empty_object"] = {"null"}
    /\ DOMAIN [zero |-> "1"] = {"zero"} /\ DOMAIN [blank |-> Omitted] = {"blank"}
    /\ DOMAIN [null |-> "empty_object", blank |-> "empty_object"] = {"null", "blank"}
    /\ DOMAIN [good |-> "true"] = {"good"} /\ DOMAIN [big |-> "5000"] = {"big"}
BY DEF Same, OnOff

\* The kinds of the fields of a body.
LEMMA BodyKindsRead ==
   /\ Reads(BodyKinds["text"], {"absent", "good", "null", "wrong", "blank"}, {"null", "wrong",
          "absent", "blank"}, Same)
   /\ Reads(BodyKinds["value"], {"absent", "good", "null", "wrong", "blank"}, {"null", "wrong",
          "absent"}, Same)
   /\ Reads(BodyKinds["word"], {"absent", "good", "null", "wrong", "other"}, {"null", "wrong"}, Same)
   /\ Reads(BodyKinds["positive"], {"absent", "good", "null", "wrong", "zero"}, {"null", "wrong",
          "zero"}, Same)
   /\ Reads(BodyKinds["reference"], {"absent", "good", "null", "wrong", "zero"}, {"null", "wrong",
          "absent", "zero"}, Same)
   /\ Reads(BodyKinds["natural"], {"absent", "good", "null", "wrong", "zero", "big"}, {"null",
          "wrong"}, [big |-> "60000"])
   /\ Reads(BodyKinds["flag"], {"absent", "good", "null", "wrong", "off"}, {"null", "wrong"}, OnOff)
   /\ Reads(BodyKinds["object"], {"absent", "good", "null", "wrong", "blank", "garbled"}, {"wrong",
          "blank", "garbled"}, [null |-> "empty_object"])
   /\ Reads(BodyKinds["lines"], {"absent", "good", "null", "wrong", "empty", "zero"}, {"null",
          "wrong", "absent", "empty", "zero"}, Same)
   /\ Reads(BodyKinds["filters"], {"absent", "good", "null", "wrong"}, {"null", "wrong"}, Same)
   /\ Reads(BodyKinds["count"], {"absent", "good", "null", "wrong", "big", "zero"}, {"null", "wrong"},
          [zero |-> "1"])
   /\ Reads(BodyKinds["id"], {"absent", "good", "null", "wrong", "blank"}, {"null", "wrong"},
          [blank |-> Omitted])
   /\ Reads(BodyKinds["items"], {"absent", "good", "null", "wrong", "empty", "many", "bad_item"},
          {"null", "wrong", "absent", "empty", "many", "bad_item"}, Same)
   /\ Reads(BodyKinds["excluded"], {"absent", "good", "null", "wrong"}, {"null", "wrong", "good"}, Same)
   /\ Reads(BodyKinds["statuses"], {"absent", "good", "null", "wrong", "empty", "other"}, {"null",
          "wrong", "empty", "other"}, Same)
<1>1. Reads(BodyKinds["text"], {"absent", "good", "null", "wrong", "blank"}, {"null", "wrong",
          "absent", "blank"}, Same)
  <2>1. BodyKinds["text"] = Kind({"null", "wrong"} \union {}, 400, {"null", "wrong"} \union {"absent",
            "blank"}, Same)
    BY DEF BodyKinds
  <2> QED
    BY <2>1, KindReads, MeaningDomains DEF Reads
<1>2. Reads(BodyKinds["value"], {"absent", "good", "null", "wrong", "blank"}, {"null", "wrong",
          "absent"}, Same)
  <2>1. BodyKinds["value"] = Kind({"null", "wrong"} \union {"blank"}, 400, {"null",
            "wrong"} \union {"absent"}, Same)
    BY DEF BodyKinds
  <2> QED
    BY <2>1, KindReads, MeaningDomains DEF Reads
<1>3. Reads(BodyKinds["word"], {"absent", "good", "null", "wrong", "other"}, {"null", "wrong"}, Same)
  <2>1. BodyKinds["word"] = Kind({"null", "wrong"} \union {"other"}, 400, {"null", "wrong"} \union {},
            Same)
    BY DEF BodyKinds
  <2> QED
    BY <2>1, KindReads, MeaningDomains DEF Reads
<1>4. Reads(BodyKinds["positive"], {"absent", "good", "null", "wrong", "zero"}, {"null", "wrong",
          "zero"}, Same)
  <2>1. BodyKinds["positive"] = Kind({"null", "wrong"} \union {}, 400, {"null", "wrong"}
            \union {"zero"}, Same)
    BY DEF BodyKinds
  <2> QED
    BY <2>1, KindReads, MeaningDomains DEF Reads
<1>5. Reads(BodyKinds["reference"], {"absent", "good", "null", "wrong", "zero"}, {"null", "wrong",
          "absent", "zero"}, Same)
  <2>1. BodyKinds["reference"] = Kind({"null", "wrong"} \union {}, 400, {"null",
            "wrong"} \union {"absent", "zero"}, Same)
    BY DEF BodyKinds
  <2> QED
    BY <2>1, KindReads, MeaningDomains DEF Reads
<1>6. Reads(BodyKinds["natural"], {"absent", "good", "null", "wrong", "zero", "big"}, {"null",
          "wrong"}, [big |-> "60000"])
  <2>1. BodyKinds["natural"] = Kind({"null", "wrong"} \union {"zero"}, 400, {"null",
            "wrong"} \union {}, [big |-> "60000"])
    BY DEF BodyKinds
  <2> QED
    BY <2>1, KindReads, MeaningDomains DEF Reads
<1>7. Reads(BodyKinds["flag"], {"absent", "good", "null", "wrong", "off"}, {"null", "wrong"}, OnOff)
  <2>1. BodyKinds["flag"] = Kind({"null", "wrong"} \union {}, 400, {"null", "wrong"} \union {}, OnOff)
    BY DEF BodyKinds
  <2> QED
    BY <2>1, KindReads, MeaningDomains DEF Reads
<1>8. Reads(BodyKinds["object"], {"absent", "good", "null", "wrong", "blank", "garbled"}, {"wrong",
          "blank", "garbled"}, [null |-> "empty_object"])
  <2>1. BodyKinds["object"] = Kind({"null", "wrong"} \union {}, 400, {"wrong", "blank", "garbled"},
            [null |-> "empty_object"])
    BY DEF BodyKinds
  <2> QED
    BY <2>1, KindReads, MeaningDomains DEF Reads
<1>9. Reads(BodyKinds["lines"], {"absent", "good", "null", "wrong", "empty", "zero"}, {"null",
          "wrong", "absent", "empty", "zero"}, Same)
  <2>1. BodyKinds["lines"] = Kind({"null", "wrong"} \union {}, 400, {"null", "wrong"}
            \union {"absent", "empty", "zero"}, Same)
    BY DEF BodyKinds
  <2> QED
    BY <2>1, KindReads, MeaningDomains DEF Reads
<1>10. Reads(BodyKinds["filters"], {"absent", "good", "null", "wrong"}, {"null", "wrong"}, Same)
  <2>1. BodyKinds["filters"] = Kind({"null", "wrong"} \union {}, 400, {"null", "wrong"} \union {}, Same)
    BY DEF BodyKinds
  <2> QED
    BY <2>1, KindReads, MeaningDomains DEF Reads
<1>11. Reads(BodyKinds["count"], {"absent", "good", "null", "wrong", "big", "zero"}, {"null",
           "wrong"}, [zero |-> "1"])
  <2>1. BodyKinds["count"] = Kind({"null", "wrong"} \union {"big"}, 400, {"null", "wrong"} \union {},
            [zero |-> "1"])
    BY DEF BodyKinds
  <2> QED
    BY <2>1, KindReads, MeaningDomains DEF Reads
<1>12. Reads(BodyKinds["id"], {"absent", "good", "null", "wrong", "blank"}, {"null", "wrong"},
           [blank |-> Omitted])
  <2>1. BodyKinds["id"] = Kind({"null", "wrong"} \union {}, 400, {"null", "wrong"} \union {},
            [blank |-> Omitted])
    BY DEF BodyKinds
  <2> QED
    BY <2>1, KindReads, MeaningDomains DEF Reads
<1>13. Reads(BodyKinds["items"], {"absent", "good", "null", "wrong", "empty", "many", "bad_item"},
           {"null", "wrong", "absent", "empty", "many", "bad_item"}, Same)
  <2>1. BodyKinds["items"] = Kind({"null", "wrong"} \union {}, 400, {"null", "wrong"}
            \union {"absent", "empty", "many", "bad_item"}, Same)
    BY DEF BodyKinds
  <2> QED
    BY <2>1, KindReads, MeaningDomains DEF Reads
<1>14. Reads(BodyKinds["excluded"], {"absent", "good", "null", "wrong"}, {"null", "wrong", "good"},
           Same)
  <2>1. BodyKinds["excluded"] = Kind({"null", "wrong"} \union {}, 400, {"null", "wrong"}
            \union {"good"}, Same)
    BY DEF BodyKinds
  <2> QED
    BY <2>1, KindReads, MeaningDomains DEF Reads
<1>15. Reads(BodyKinds["statuses"], {"absent", "good", "null", "wrong", "empty", "other"}, {"null",
           "wrong", "empty", "other"}, Same)
  <2>1. BodyKinds["statuses"] = Kind({"null", "wrong"} \union {}, 400, {"null", "wrong"}
            \union {"empty", "other"}, Same)
    BY DEF BodyKinds
  <2> QED
    BY <2>1, KindReads, MeaningDomains DEF Reads
<1> QED
  BY <1>1, <1>2, <1>3, <1>4, <1>5, <1>6, <1>7, <1>8, <1>9, <1>10, <1>11, <1>12, <1>13, <1>14, <1>15

\* The kinds of the fields of a query.
LEMMA QueryKindsRead ==
   /\ Reads(QueryKinds["query"], {"absent", "good", "zero", "wrong", "big"}, {"wrong"},
          [big |-> "60000"])
   /\ Reads(QueryKinds["limit"], {"absent", "good", "wrong", "zero", "big"}, {"wrong", "zero", "big"},
          Same)
   /\ Reads(QueryKinds["tail"], {"absent", "good", "zero", "wrong", "big"}, {"wrong", "big"}, Same)
<1>1. QueryKinds["query"] = Kind({"zero"}, 400, {"wrong"}, [big |-> "60000"])
  BY DEF QueryKinds
<1>2. QueryKinds["limit"] = Kind({}, 400, {"wrong", "zero", "big"}, Same)
  BY DEF QueryKinds
<1>3. QueryKinds["tail"] = Kind({"zero"}, 400, {"wrong", "big"}, Same)
  BY DEF QueryKinds
<1>4. Reads(QueryKinds["query"], {"absent", "good"} \union {"zero"} \union {"wrong"}
          \union DOMAIN [big |-> "60000"], {"wrong"}, [big |-> "60000"])
  BY <1>1, KindReads
<1>5. Reads(QueryKinds["limit"], {"absent", "good"} \union {} \union {"wrong", "zero",
          "big"} \union DOMAIN Same, {"wrong", "zero", "big"}, Same)
  BY <1>2, KindReads
<1>6. Reads(QueryKinds["tail"], {"absent", "good"} \union {"zero"} \union {"wrong",
          "big"} \union DOMAIN Same, {"wrong", "big"}, Same)
  BY <1>3, KindReads
<1> QED
  BY <1>4, <1>5, <1>6, MeaningDomains DEF Reads

\* The kinds of the server.
HttpKinds == BodyKinds ++ QueryKinds

\* The kinds of a query hide none of a body.
LEMMA HttpKindsAre ==
   /\ \A k \in DOMAIN BodyKinds : HttpKinds[k] = BodyKinds[k]
   /\ \A k \in {"query", "limit", "tail"} : HttpKinds[k] = QueryKinds[k]
<1>1. \A k \in {"query", "limit", "tail"} : k \in DOMAIN QueryKinds /\ k \notin DOMAIN BodyKinds
  BY DEF QueryKinds, BodyKinds
<1> QED
  BY <1>1, OverIs DEF HttpKinds

\* The kinds of the options.
LEMMA OptionKindsRead ==
   /\ Reads(OptionKinds["text"], {"absent", "good", "blank"}, {"absent", "blank"}, Same)
   /\ Reads(OptionKinds["value"], {"absent", "good", "blank"}, {"absent"}, Same)
   /\ Reads(OptionKinds["word"], {"absent", "good", "other"}, {"other"}, Same)
   /\ Reads(OptionKinds["positive"], {"absent", "good", "wrong", "zero"}, {"wrong", "zero"}, Same)
   /\ Reads(OptionKinds["reference"], {"absent", "good", "wrong", "zero"}, {"absent", "wrong",
          "zero"}, Same)
   /\ Reads(OptionKinds["natural"], {"absent", "good", "zero", "wrong", "big"}, {"wrong"},
          [big |-> "60000"])
   /\ Reads(OptionKinds["plain"], {"absent", "good", "zero", "big", "wrong"}, {"wrong"}, Same)
   /\ Reads(OptionKinds["flag"], {"absent", "good"}, {}, [good |-> "true"])
   /\ Reads(OptionKinds["setting"], {"absent", "good", "wrong", "off"}, {"wrong"}, OnOff)
   /\ Reads(OptionKinds["object"], {"absent", "good", "null", "blank", "wrong", "garbled"}, {"wrong",
          "garbled"}, [null |-> "empty_object", blank |-> "empty_object"])
   /\ Reads(OptionKinds["lines"], {"absent", "good", "wrong", "zero"}, {"wrong", "zero", "absent"},
          Same)
   /\ Reads(OptionKinds["filters"], {"absent", "good"}, {}, Same)
   /\ Reads(OptionKinds["limit"], {"absent", "good", "wrong", "zero", "big"}, {"wrong", "zero",
          "big"}, Same)
   /\ Reads(OptionKinds["id"], {"absent", "good", "blank"}, {}, Same)
   /\ Reads(OptionKinds["items"], {"absent", "good", "empty", "many", "bad_item", "null", "wrong"},
          {"absent", "empty", "many", "bad_item", "null", "wrong"}, Same)
   /\ Reads(OptionKinds["statuses"], {"absent", "good", "other"}, {"other"}, Same)
   /\ Reads(OptionKinds["tail"], {"absent", "good", "zero", "wrong", "big"}, {"wrong"},
          [big |-> "5000"])
<1>1. Reads(OptionKinds["text"], {"absent", "good", "blank"}, {"absent", "blank"}, Same)
  <2>1. OptionKinds["text"] = Also(Kind({}, 2, {"absent"}, Same), 5, {"blank"})
    BY DEF OptionKinds
  <2>2. Reads(Kind({}, 2, {"absent"}, Same), {"absent", "good"} \union {}
            \union {"absent"} \union DOMAIN Same, {"absent"}, Same)
    BY KindReads
  <2>3. Reads(Also(Kind({}, 2, {"absent"}, Same), 5, {"blank"}), ({"absent", "good"}
            \union {} \union {"absent"} \union DOMAIN Same) \union {"blank"},
            ({"absent"}) \union {"blank"}, Same)
    BY <2>2, AlsoReads
  <2> QED
    BY <2>1, <2>3, MeaningDomains DEF Reads
<1>2. Reads(OptionKinds["value"], {"absent", "good", "blank"}, {"absent"}, Same)
  <2>1. OptionKinds["value"] = Kind({"blank"}, 2, {"absent"}, Same)
    BY DEF OptionKinds
  <2> QED
    BY <2>1, KindReads, MeaningDomains DEF Reads
<1>3. Reads(OptionKinds["word"], {"absent", "good", "other"}, {"other"}, Same)
  <2>1. OptionKinds["word"] = Kind({}, 2, {"other"}, Same)
    BY DEF OptionKinds
  <2> QED
    BY <2>1, KindReads, MeaningDomains DEF Reads
<1>4. Reads(OptionKinds["positive"], {"absent", "good", "wrong", "zero"}, {"wrong", "zero"}, Same)
  <2>1. OptionKinds["positive"] = Kind({}, 2, {"wrong", "zero"}, Same)
    BY DEF OptionKinds
  <2> QED
    BY <2>1, KindReads, MeaningDomains DEF Reads
<1>5. Reads(OptionKinds["reference"], {"absent", "good", "wrong", "zero"}, {"absent", "wrong",
          "zero"}, Same)
  <2>1. OptionKinds["reference"] = Kind({}, 2, {"absent", "wrong", "zero"}, Same)
    BY DEF OptionKinds
  <2> QED
    BY <2>1, KindReads, MeaningDomains DEF Reads
<1>6. Reads(OptionKinds["natural"], {"absent", "good", "zero", "wrong", "big"}, {"wrong"},
          [big |-> "60000"])
  <2>1. OptionKinds["natural"] = Kind({"zero"}, 2, {"wrong"}, [big |-> "60000"])
    BY DEF OptionKinds
  <2> QED
    BY <2>1, KindReads, MeaningDomains DEF Reads
<1>7. Reads(OptionKinds["plain"], {"absent", "good", "zero", "big", "wrong"}, {"wrong"}, Same)
  <2>1. OptionKinds["plain"] = Kind({"zero", "big"}, 2, {"wrong"}, Same)
    BY DEF OptionKinds
  <2> QED
    BY <2>1, KindReads, MeaningDomains DEF Reads
<1>8. Reads(OptionKinds["flag"], {"absent", "good"}, {}, [good |-> "true"])
  <2>1. OptionKinds["flag"] = Kind({}, 2, {}, [good |-> "true"])
    BY DEF OptionKinds
  <2> QED
    BY <2>1, KindReads, MeaningDomains DEF Reads
<1>9. Reads(OptionKinds["setting"], {"absent", "good", "wrong", "off"}, {"wrong"}, OnOff)
  <2>1. OptionKinds["setting"] = Kind({}, 2, {"wrong"}, OnOff)
    BY DEF OptionKinds
  <2> QED
    BY <2>1, KindReads, MeaningDomains DEF Reads
<1>10. Reads(OptionKinds["object"], {"absent", "good", "null", "blank", "wrong", "garbled"}, {"wrong",
           "garbled"}, [null |-> "empty_object", blank |-> "empty_object"])
  <2>1. OptionKinds["object"] = Also(Also(Kind({}, 2, {}, [null |-> "empty_object",
            blank |-> "empty_object"]), 5, {"wrong"}), 1, {"garbled"})
    BY DEF OptionKinds
  <2>2. Reads(Kind({}, 2, {}, [null |-> "empty_object", blank |-> "empty_object"]), {"absent",
            "good"} \union {} \union {} \union DOMAIN [null |-> "empty_object",
            blank |-> "empty_object"], {}, [null |-> "empty_object", blank |-> "empty_object"])
    BY KindReads
  <2>3. Reads(Also(Kind({}, 2, {}, [null |-> "empty_object", blank |-> "empty_object"]), 5,
            {"wrong"}), ({"absent", "good"} \union {} \union {}
            \union DOMAIN [null |-> "empty_object", blank |-> "empty_object"]) \union {"wrong"},
            ({}) \union {"wrong"}, [null |-> "empty_object", blank |-> "empty_object"])
    BY <2>2, AlsoReads
  <2>4. Reads(Also(Also(Kind({}, 2, {}, [null |-> "empty_object", blank |-> "empty_object"]), 5,
            {"wrong"}), 1, {"garbled"}), (({"absent", "good"} \union {} \union {}
            \union DOMAIN [null |-> "empty_object", blank |-> "empty_object"])
            \union {"wrong"}) \union {"garbled"}, (({}) \union {"wrong"}) \union {"garbled"},
            [null |-> "empty_object", blank |-> "empty_object"])
    BY <2>3, AlsoReads
  <2> QED
    BY <2>1, <2>4, MeaningDomains DEF Reads
<1>11. Reads(OptionKinds["lines"], {"absent", "good", "wrong", "zero"}, {"wrong", "zero", "absent"},
           Same)
  <2>1. OptionKinds["lines"] = Also(Kind({}, 2, {"wrong", "zero"}, Same), 5, {"absent"})
    BY DEF OptionKinds
  <2>2. Reads(Kind({}, 2, {"wrong", "zero"}, Same), {"absent", "good"} \union {} \union {"wrong",
            "zero"} \union DOMAIN Same, {"wrong", "zero"}, Same)
    BY KindReads
  <2>3. Reads(Also(Kind({}, 2, {"wrong", "zero"}, Same), 5, {"absent"}), ({"absent",
            "good"} \union {} \union {"wrong", "zero"} \union DOMAIN Same) \union {"absent"},
            ({"wrong", "zero"}) \union {"absent"}, Same)
    BY <2>2, AlsoReads
  <2> QED
    BY <2>1, <2>3, MeaningDomains DEF Reads
<1>12. Reads(OptionKinds["filters"], {"absent", "good"}, {}, Same)
  <2>1. OptionKinds["filters"] = Kind({}, 2, {}, Same)
    BY DEF OptionKinds
  <2> QED
    BY <2>1, KindReads, MeaningDomains DEF Reads
<1>13. Reads(OptionKinds["limit"], {"absent", "good", "wrong", "zero", "big"}, {"wrong", "zero",
           "big"}, Same)
  <2>1. OptionKinds["limit"] = Also(Kind({}, 2, {"wrong"}, Same), 5, {"zero", "big"})
    BY DEF OptionKinds
  <2>2. Reads(Kind({}, 2, {"wrong"}, Same), {"absent", "good"} \union {}
            \union {"wrong"} \union DOMAIN Same, {"wrong"}, Same)
    BY KindReads
  <2>3. Reads(Also(Kind({}, 2, {"wrong"}, Same), 5, {"zero", "big"}), ({"absent",
            "good"} \union {} \union {"wrong"} \union DOMAIN Same) \union {"zero", "big"},
            ({"wrong"}) \union {"zero", "big"}, Same)
    BY <2>2, AlsoReads
  <2> QED
    BY <2>1, <2>3, MeaningDomains DEF Reads
<1>14. Reads(OptionKinds["id"], {"absent", "good", "blank"}, {}, Same)
  <2>1. OptionKinds["id"] = Kind({"blank"}, 2, {}, Same)
    BY DEF OptionKinds
  <2> QED
    BY <2>1, KindReads, MeaningDomains DEF Reads
<1>15. Reads(OptionKinds["items"], {"absent", "good", "empty", "many", "bad_item", "null", "wrong"},
           {"absent", "empty", "many", "bad_item", "null", "wrong"}, Same)
  <2>1. OptionKinds["items"] = Also(Also(Kind({}, 2, {"absent"}, Same), 5, {"empty", "many",
            "bad_item"}), 1, {"null", "wrong"})
    BY DEF OptionKinds
  <2>2. Reads(Kind({}, 2, {"absent"}, Same), {"absent", "good"} \union {}
            \union {"absent"} \union DOMAIN Same, {"absent"}, Same)
    BY KindReads
  <2>3. Reads(Also(Kind({}, 2, {"absent"}, Same), 5, {"empty", "many", "bad_item"}), ({"absent",
            "good"} \union {} \union {"absent"} \union DOMAIN Same) \union {"empty", "many",
            "bad_item"}, ({"absent"}) \union {"empty", "many", "bad_item"}, Same)
    BY <2>2, AlsoReads
  <2>4. Reads(Also(Also(Kind({}, 2, {"absent"}, Same), 5, {"empty", "many", "bad_item"}), 1, {"null",
            "wrong"}), (({"absent", "good"} \union {} \union {"absent"}
            \union DOMAIN Same) \union {"empty", "many", "bad_item"}) \union {"null", "wrong"},
            (({"absent"}) \union {"empty", "many", "bad_item"}) \union {"null", "wrong"}, Same)
    BY <2>3, AlsoReads
  <2> QED
    BY <2>1, <2>4, MeaningDomains DEF Reads
<1>16. Reads(OptionKinds["statuses"], {"absent", "good", "other"}, {"other"}, Same)
  <2>1. OptionKinds["statuses"] = Kind({}, 2, {"other"}, Same)
    BY DEF OptionKinds
  <2> QED
    BY <2>1, KindReads, MeaningDomains DEF Reads
<1>17. Reads(OptionKinds["tail"], {"absent", "good", "zero", "wrong", "big"}, {"wrong"},
           [big |-> "5000"])
  <2>1. OptionKinds["tail"] = Kind({"zero"}, 2, {"wrong"}, [big |-> "5000"])
    BY DEF OptionKinds
  <2> QED
    BY <2>1, KindReads, MeaningDomains DEF Reads
<1> QED
  BY <1>1, <1>2, <1>3, <1>4, <1>5, <1>6, <1>7, <1>8, <1>9, <1>10, <1>11, <1>12, <1>13, <1>14, <1>15,
         <1>16, <1>17

\* What is put in place of a value.
Meaning(kind, x) == IF x \in DOMAIN kind.means THEN kind.means[x] ELSE x

\* What both can say of a field and do not differ in known ways, both refuse or take for the same.
Alike(f, h, c) ==
    \A x : x \in HttpKinds[h].says /\ x \in OptionKinds[c].says /\ <<f, x>> \notin Differences =>
       /\ x \in DOMAIN HttpKinds[h].refuses <=> x \in DOMAIN OptionKinds[c].refuses
       /\ x \in DOMAIN HttpKinds[h].refuses =>
            HttpKinds[h].refuses[x] \notin {0, 200} /\ OptionKinds[c].refuses[x] \notin {0, 200}
       /\ x \notin DOMAIN HttpKinds[h].refuses /\ x # "absent" =>
            Meaning(HttpKinds[h], x) = Meaning(OptionKinds[c], x)

\* What the kinds put in place of their values.
LEMMA MeaningIs ==
    /\ \A kind, x : kind.means = Same => Meaning(kind, x) = x
    /\ \A kind : kind.means = OnOff => Meaning(kind, "good") = "true" /\ Meaning(kind, "off") = "false"
    /\ \A kind, x : kind.means = OnOff /\ x \notin {"good", "off"} => Meaning(kind, x) = x
    /\ \A kind : kind.means = [good |-> "true"] => Meaning(kind, "good") = "true"
    /\ \A kind, x : kind.means = [big |-> "60000"] => Meaning(kind,
           x) = IF x = "big" THEN "60000" ELSE x
    /\ \A kind, x : kind.means = [big |-> "5000"] => Meaning(kind, x) = IF x = "big" THEN "5000" ELSE x
    /\ \A kind, x : kind.means = [zero |-> "1"] => Meaning(kind, x) = IF x = "zero" THEN "1" ELSE x
    /\ \A kind, x : kind.means = [blank |-> Omitted] => Meaning(kind,
           x) = IF x = "blank" THEN Omitted ELSE x
    /\ \A kind, x : kind.means = [null |-> "empty_object"] => Meaning(kind,
           x) = IF x = "null" THEN "empty_object" ELSE x
    /\ \A kind, x : kind.means = [null |-> "empty_object", blank |-> "empty_object"] =>
         Meaning(kind, x) = IF x \in {"null", "blank"} THEN "empty_object" ELSE x
BY MeaningDomains DEF Meaning, Same, OnOff

\* The names of the kinds of a body.
LEMMA KindNames == DOMAIN BodyKinds = {"text", "value", "word", "positive", "reference", "natural",
    "flag", "object", "lines", "filters", "count", "id", "items", "excluded", "statuses"}
BY DEF BodyKinds

\* The kinds that the two front ends use for the same field are alike.
LEMMA KindsAlike ==
    /\ \A f : Alike(f, "text", "text")
    /\ \A f : Alike(f, "value", "value")
    /\ \A f : Alike(f, "positive", "positive")
    /\ \A f : Alike(f, "reference", "reference")
    /\ \A f : Alike(f, "natural", "natural")
    /\ \A f : Alike(f, "flag", "flag")
    /\ \A f : Alike(f, "flag", "setting")
    /\ \A f : Alike(f, "lines", "lines")
    /\ \A f : Alike(f, "filters", "filters")
    /\ \A f : Alike(f, "query", "natural")
    /\ \A f : Alike(f, "limit", "limit")
    /\ \A f : Alike(f, "items", "items")
    /\ \A f : Alike(f, "statuses", "statuses")
    /\ Alike("context", "word", "word")
    /\ Alike("arguments", "object", "object")
    /\ Alike("childSessionId", "id", "id")
    /\ Alike("tail", "tail", "tail")
    /\ Alike("grace_timeout_ms", "natural", "plain")
    /\ Alike("max_events", "count", "limit")
<1>1. \A f : Alike(f, "text", "text")
  <2>1. Reads(HttpKinds["text"], {"absent", "good", "null", "wrong", "blank"}, {"null", "wrong",
            "absent", "blank"}, Same)
    BY HttpKindsAre, KindNames, BodyKindsRead
  <2>2. Reads(OptionKinds["text"], {"absent", "good", "blank"}, {"absent", "blank"}, Same)
    BY OptionKindsRead
  <2> QED
    BY <2>1, <2>2, MeaningIs DEF Alike, Reads
<1>2. \A f : Alike(f, "value", "value")
  <2>1. Reads(HttpKinds["value"], {"absent", "good", "null", "wrong", "blank"}, {"null", "wrong",
            "absent"}, Same)
    BY HttpKindsAre, KindNames, BodyKindsRead
  <2>2. Reads(OptionKinds["value"], {"absent", "good", "blank"}, {"absent"}, Same)
    BY OptionKindsRead
  <2> QED
    BY <2>1, <2>2, MeaningIs DEF Alike, Reads
<1>3. \A f : Alike(f, "positive", "positive")
  <2>1. Reads(HttpKinds["positive"], {"absent", "good", "null", "wrong", "zero"}, {"null", "wrong",
            "zero"}, Same)
    BY HttpKindsAre, KindNames, BodyKindsRead
  <2>2. Reads(OptionKinds["positive"], {"absent", "good", "wrong", "zero"}, {"wrong", "zero"}, Same)
    BY OptionKindsRead
  <2> QED
    BY <2>1, <2>2, MeaningIs DEF Alike, Reads
<1>4. \A f : Alike(f, "reference", "reference")
  <2>1. Reads(HttpKinds["reference"], {"absent", "good", "null", "wrong", "zero"}, {"null", "wrong",
            "absent", "zero"}, Same)
    BY HttpKindsAre, KindNames, BodyKindsRead
  <2>2. Reads(OptionKinds["reference"], {"absent", "good", "wrong", "zero"}, {"absent", "wrong",
            "zero"}, Same)
    BY OptionKindsRead
  <2> QED
    BY <2>1, <2>2, MeaningIs DEF Alike, Reads
<1>5. \A f : Alike(f, "natural", "natural")
  <2>1. Reads(HttpKinds["natural"], {"absent", "good", "null", "wrong", "zero", "big"}, {"null",
            "wrong"}, [big |-> "60000"])
    BY HttpKindsAre, KindNames, BodyKindsRead
  <2>2. Reads(OptionKinds["natural"], {"absent", "good", "zero", "wrong", "big"}, {"wrong"},
            [big |-> "60000"])
    BY OptionKindsRead
  <2> QED
    BY <2>1, <2>2, MeaningIs DEF Alike, Reads
<1>6. \A f : Alike(f, "flag", "flag")
  <2>1. Reads(HttpKinds["flag"], {"absent", "good", "null", "wrong", "off"}, {"null", "wrong"}, OnOff)
    BY HttpKindsAre, KindNames, BodyKindsRead
  <2>2. Reads(OptionKinds["flag"], {"absent", "good"}, {}, [good |-> "true"])
    BY OptionKindsRead
  <2> QED
    BY <2>1, <2>2, MeaningIs DEF Alike, Reads
<1>7. \A f : Alike(f, "flag", "setting")
  <2>1. Reads(HttpKinds["flag"], {"absent", "good", "null", "wrong", "off"}, {"null", "wrong"}, OnOff)
    BY HttpKindsAre, KindNames, BodyKindsRead
  <2>2. Reads(OptionKinds["setting"], {"absent", "good", "wrong", "off"}, {"wrong"}, OnOff)
    BY OptionKindsRead
  <2> QED
    BY <2>1, <2>2, MeaningIs DEF Alike, Reads
<1>8. \A f : Alike(f, "lines", "lines")
  <2>1. Reads(HttpKinds["lines"], {"absent", "good", "null", "wrong", "empty", "zero"}, {"null",
            "wrong", "absent", "empty", "zero"}, Same)
    BY HttpKindsAre, KindNames, BodyKindsRead
  <2>2. Reads(OptionKinds["lines"], {"absent", "good", "wrong", "zero"}, {"wrong", "zero", "absent"},
            Same)
    BY OptionKindsRead
  <2> QED
    BY <2>1, <2>2, MeaningIs DEF Alike, Reads
<1>9. \A f : Alike(f, "filters", "filters")
  <2>1. Reads(HttpKinds["filters"], {"absent", "good", "null", "wrong"}, {"null", "wrong"}, Same)
    BY HttpKindsAre, KindNames, BodyKindsRead
  <2>2. Reads(OptionKinds["filters"], {"absent", "good"}, {}, Same)
    BY OptionKindsRead
  <2> QED
    BY <2>1, <2>2, MeaningIs DEF Alike, Reads
<1>10. \A f : Alike(f, "query", "natural")
  <2>1. Reads(HttpKinds["query"], {"absent", "good", "zero", "wrong", "big"}, {"wrong"},
            [big |-> "60000"])
    BY HttpKindsAre, KindNames, QueryKindsRead
  <2>2. Reads(OptionKinds["natural"], {"absent", "good", "zero", "wrong", "big"}, {"wrong"},
            [big |-> "60000"])
    BY OptionKindsRead
  <2> QED
    BY <2>1, <2>2, MeaningIs DEF Alike, Reads
<1>11. \A f : Alike(f, "limit", "limit")
  <2>1. Reads(HttpKinds["limit"], {"absent", "good", "wrong", "zero", "big"}, {"wrong", "zero",
            "big"}, Same)
    BY HttpKindsAre, KindNames, QueryKindsRead
  <2>2. Reads(OptionKinds["limit"], {"absent", "good", "wrong", "zero", "big"}, {"wrong", "zero",
            "big"}, Same)
    BY OptionKindsRead
  <2> QED
    BY <2>1, <2>2, MeaningIs DEF Alike, Reads
<1>12. \A f : Alike(f, "items", "items")
  <2>1. Reads(HttpKinds["items"], {"absent", "good", "null", "wrong", "empty", "many", "bad_item"},
            {"null", "wrong", "absent", "empty", "many", "bad_item"}, Same)
    BY HttpKindsAre, KindNames, BodyKindsRead
  <2>2. Reads(OptionKinds["items"], {"absent", "good", "empty", "many", "bad_item", "null", "wrong"},
            {"absent", "empty", "many", "bad_item", "null", "wrong"}, Same)
    BY OptionKindsRead
  <2> QED
    BY <2>1, <2>2, MeaningIs DEF Alike, Reads
<1>13. \A f : Alike(f, "statuses", "statuses")
  <2>1. Reads(HttpKinds["statuses"], {"absent", "good", "null", "wrong", "empty", "other"}, {"null",
            "wrong", "empty", "other"}, Same)
    BY HttpKindsAre, KindNames, BodyKindsRead
  <2>2. Reads(OptionKinds["statuses"], {"absent", "good", "other"}, {"other"}, Same)
    BY OptionKindsRead
  <2> QED
    BY <2>1, <2>2, MeaningIs DEF Alike, Reads
<1>14. Alike("context", "word", "word")
  <2>1. Reads(HttpKinds["word"], {"absent", "good", "null", "wrong", "other"}, {"null", "wrong"}, Same)
    BY HttpKindsAre, KindNames, BodyKindsRead
  <2>2. Reads(OptionKinds["word"], {"absent", "good", "other"}, {"other"}, Same)
    BY OptionKindsRead
  <2> QED
    BY <2>1, <2>2, MeaningIs DEF Alike, Reads, Differences
<1>15. Alike("arguments", "object", "object")
  <2>1. Reads(HttpKinds["object"], {"absent", "good", "null", "wrong", "blank", "garbled"}, {"wrong",
            "blank", "garbled"}, [null |-> "empty_object"])
    BY HttpKindsAre, KindNames, BodyKindsRead
  <2>2. Reads(OptionKinds["object"], {"absent", "good", "null", "blank", "wrong", "garbled"},
            {"wrong", "garbled"}, [null |-> "empty_object", blank |-> "empty_object"])
    BY OptionKindsRead
  <2> QED
    BY <2>1, <2>2, MeaningIs DEF Alike, Reads, Differences
<1>16. Alike("childSessionId", "id", "id")
  <2>1. Reads(HttpKinds["id"], {"absent", "good", "null", "wrong", "blank"}, {"null", "wrong"},
            [blank |-> Omitted])
    BY HttpKindsAre, KindNames, BodyKindsRead
  <2>2. Reads(OptionKinds["id"], {"absent", "good", "blank"}, {}, Same)
    BY OptionKindsRead
  <2> QED
    BY <2>1, <2>2, MeaningIs DEF Alike, Reads, Differences
<1>17. Alike("tail", "tail", "tail")
  <2>1. Reads(HttpKinds["tail"], {"absent", "good", "zero", "wrong", "big"}, {"wrong", "big"}, Same)
    BY HttpKindsAre, KindNames, QueryKindsRead
  <2>2. Reads(OptionKinds["tail"], {"absent", "good", "zero", "wrong", "big"}, {"wrong"},
            [big |-> "5000"])
    BY OptionKindsRead
  <2> QED
    BY <2>1, <2>2, MeaningIs DEF Alike, Reads, Differences
<1>18. Alike("grace_timeout_ms", "natural", "plain")
  <2>1. Reads(HttpKinds["natural"], {"absent", "good", "null", "wrong", "zero", "big"}, {"null",
            "wrong"}, [big |-> "60000"])
    BY HttpKindsAre, KindNames, BodyKindsRead
  <2>2. Reads(OptionKinds["plain"], {"absent", "good", "zero", "big", "wrong"}, {"wrong"}, Same)
    BY OptionKindsRead
  <2> QED
    BY <2>1, <2>2, MeaningIs DEF Alike, Reads, Differences
<1>19. Alike("max_events", "count", "limit")
  <2>1. Reads(HttpKinds["count"], {"absent", "good", "null", "wrong", "big", "zero"}, {"null",
            "wrong"}, [zero |-> "1"])
    BY HttpKindsAre, KindNames, BodyKindsRead
  <2>2. Reads(OptionKinds["limit"], {"absent", "good", "wrong", "zero", "big"}, {"wrong", "zero",
            "big"}, Same)
    BY OptionKindsRead
  <2> QED
    BY <2>1, <2>2, MeaningIs DEF Alike, Reads, Differences
<1> QED
  BY <1>1, <1>2, <1>3, <1>4, <1>5, <1>6, <1>7, <1>8, <1>9, <1>10, <1>11, <1>12, <1>13, <1>14, <1>15,
         <1>16, <1>17, <1>18, <1>19

\* A field that both have the same default for.
SameField(f, h, c) == h.absent = c.absent /\ Alike(f, h.kind, c.kind)

\* Two tables of fields: the server knows those of the command line, and one more to refuse.
SameTables(h, c) ==
    /\ \A f \in DOMAIN c : f \in DOMAIN h /\ SameField(f, h[f], c[f])
    /\ \A f \in DOMAIN h : f \notin DOMAIN c => h[f] = Optional("excluded")

\* Tables that are the same, put over tables that are.
LEMMA SameOver ==
    ASSUME NEW g, NEW d, NEW h, NEW c, SameTables(g, d), SameTables(h, c),
           \A f \in DOMAIN c : f \in DOMAIN g => f \in DOMAIN d
    PROVE  SameTables(g ++ h, d ++ c)
<1>1. \A f \in DOMAIN d : f \in DOMAIN g /\ (g ++ h)[f] = g[f] /\ (d ++ c)[f] = d[f]
  BY OverIs DEF SameTables
<1>2. \A f \in DOMAIN c : f \notin DOMAIN d =>
        f \notin DOMAIN g /\ f \in DOMAIN h /\ (g ++ h)[f] = h[f] /\ (d ++ c)[f] = c[f]
  BY OverIs DEF SameTables
<1>3. \A f \in DOMAIN (g ++ h) : f \notin DOMAIN (d ++ c) => (g ++ h)[f] = Optional("excluded")
  BY OverIs DEF SameTables
<1>4. \A f \in DOMAIN (d ++ c) : f \in DOMAIN (g ++ h) /\ SameField(f, (g ++ h)[f], (d ++ c)[f])
  BY <1>1, <1>2, OverIs DEF SameTables
<1> QED
  BY <1>3, <1>4 DEF SameTables

\* A field has a kind and a default.
LEMMA FieldIs == \A k, d : Field(k, d).kind = k /\ Field(k, d).absent = d
BY DEF Field

\* An optional field is left out by default.
LEMMA OptionalIs == \A k : Optional(k).kind = k /\ Optional(k).absent = Omitted
BY DEF Optional, Field

\* The timeout of a call.
LEMMA SameTimeout == SameTables(Timeout, Timeout)
BY FieldIs, KindsAlike DEF SameTables, SameField, Timeout

\* The fields of a command on a thread.
LEMMA SameOnThread == SameTables(OnThread, OnThread)
<1>1. SameTables([threadId |-> Optional("positive")], [threadId |-> Optional("positive")])
  BY OptionalIs, KindsAlike DEF SameTables, SameField
<1> QED
  BY <1>1, SameTimeout, SameOver DEF OnThread, Timeout

\* The two tables of a command.
SameCommand(c) ==
    /\ c \in DOMAIN HttpFields /\ c \in DOMAIN CliFields
    /\ SameTables(HttpFields[c], CliFields[c])
    /\ "threadId" \in DOMAIN HttpFields[c] => "timeout_ms" \in DOMAIN CliFields[c]

\* A table over the timeout knows the timeout.
LEMMA TimeoutThere == \A g : "timeout_ms" \in DOMAIN (g ++ Timeout)
BY OverIs DEF Timeout

\* Every command of the server has the same fields on the command line.
LEMMA CommandsSame ==
    \A c \in DOMAIN HttpFields : SameCommand(c)
<1>1. SameCommand("cleanup")
  <2>1. SameTables([statuses |-> Field("statuses", "stopped_unknown"), dry_run |-> Flag],
            [statuses |-> Field("statuses", "stopped_unknown"), dry_run |-> Flag])
    BY FieldIs, OptionalIs, KindsAlike DEF SameTables, SameField, Flag
  <2> QED
    BY <2>1, HttpTables, CliTables, TimeoutThere DEF SameCommand, Extends, CleanupOptions, SessionRoutes
<1>2. SameCommand("stop")
  <2>1. SameTables([force |-> Flag, grace_timeout_ms |-> Field("natural", "1500")], [force |-> Flag,
            grace_timeout_ms |-> Field("plain", "1500")])
    BY FieldIs, OptionalIs, KindsAlike DEF SameTables, SameField, Flag
  <2> QED
    BY <2>1, HttpTables, CliTables, TimeoutThere DEF SameCommand, Extends, LifecycleOptions,
           SessionRoutes
<1>3. SameCommand("restart")
  <2>1. SameTables([force |-> Field("flag", "true"), grace_timeout_ms |-> Field("natural", "150")],
            [force |-> Field("setting", "true"), grace_timeout_ms |-> Field("plain", "150")])
    BY FieldIs, OptionalIs, KindsAlike DEF SameTables, SameField, Flag
  <2> QED
    BY <2>1, HttpTables, CliTables, TimeoutThere DEF SameCommand, Extends, LifecycleOptions,
           SessionRoutes
<1>4. SameCommand("setBreakpoints")
  <2>1. SameTables([path |-> Optional("text"), lines |-> Optional("lines")],
            [path |-> Optional("text"), lines |-> Optional("lines")])
    BY FieldIs, OptionalIs, KindsAlike DEF SameTables, SameField, Flag
  <2>2. SameTables([path |-> Optional("text"), lines |-> Optional("lines")] ++ Timeout,
            [path |-> Optional("text"), lines |-> Optional("lines")] ++ Timeout)
    BY <2>1, SameTimeout, SameOver DEF Timeout
  <2> QED
    BY <2>2, HttpTables, CliTables, TimeoutThere DEF SameCommand, Extends, BreakpointRoutes,
           RequestOptions
<1>5. SameCommand("setExceptionBreakpoints")
  <2>1. SameTables([filters |-> Field("filters", "none")], [filters |-> Field("filters", "none")])
    BY FieldIs, OptionalIs, KindsAlike DEF SameTables, SameField, Flag
  <2>2. SameTables([filters |-> Field("filters", "none")] ++ Timeout, [filters |-> Field("filters",
            "none")] ++ Timeout)
    BY <2>1, SameTimeout, SameOver DEF Timeout
  <2> QED
    BY <2>2, HttpTables, CliTables, TimeoutThere DEF SameCommand, Extends, BreakpointRoutes,
           RequestOptions
<1>6. SameCommand("evaluate")
  <2>1. SameTables([expression |-> Optional("text"), frameId |-> Optional("positive"),
            context |-> Optional("word")], [expression |-> Optional("text"),
            frameId |-> Optional("positive"), context |-> Optional("word")])
    BY FieldIs, OptionalIs, KindsAlike DEF SameTables, SameField, Flag
  <2>2. SameTables([expression |-> Optional("text"), frameId |-> Optional("positive"),
            context |-> Optional("word")] ++ Timeout, [expression |-> Optional("text"),
            frameId |-> Optional("positive"), context |-> Optional("word")] ++ Timeout)
    BY <2>1, SameTimeout, SameOver DEF Timeout
  <2> QED
    BY <2>2, HttpTables, CliTables, TimeoutThere DEF SameCommand, Extends, EvaluateRoutes,
           RequestOptions
<1>7. SameCommand("setVariable")
  <2>1. SameTables([variablesReference |-> Optional("reference"), name |-> Optional("text"),
            value |-> Optional("value")], [variablesReference |-> Optional("reference"),
            name |-> Optional("text"), value |-> Optional("value")])
    BY FieldIs, OptionalIs, KindsAlike DEF SameTables, SameField, Flag
  <2>2. SameTables([variablesReference |-> Optional("reference"), name |-> Optional("text"),
            value |-> Optional("value")] ++ Timeout, [variablesReference |-> Optional("reference"),
            name |-> Optional("text"), value |-> Optional("value")] ++ Timeout)
    BY <2>1, SameTimeout, SameOver DEF Timeout
  <2> QED
    BY <2>2, HttpTables, CliTables, TimeoutThere DEF SameCommand, Extends, ControlOptions,
           EvaluateRoutes
<1>8. SameCommand("threads")
  <2>1. SameTables([timeout_ms |-> Field("query", "1500")], [timeout_ms |-> Field("natural", "1500")])
    BY FieldIs, OptionalIs, KindsAlike DEF SameTables, SameField, Flag
  <2> QED
    BY <2>1, HttpTables, CliTables, ThreadDomain DEF SameCommand, Extends, InspectOptions, Timeout
<1>9. SameCommand("disconnect")
  <2>1. SameTables([terminateDebuggee |-> Flag, suspendDebuggee |-> Flag],
            [terminateDebuggee |-> Flag, suspendDebuggee |-> Flag])
    BY FieldIs, OptionalIs, KindsAlike DEF SameTables, SameField, Flag
  <2>2. SameTables([terminateDebuggee |-> Flag, suspendDebuggee |-> Flag] ++ Timeout,
            [terminateDebuggee |-> Flag, suspendDebuggee |-> Flag] ++ Timeout)
    BY <2>1, SameTimeout, SameOver DEF Timeout
  <2> QED
    BY <2>2, HttpTables, CliTables, TimeoutThere DEF SameCommand, Extends, ControlOptions, ControlRoutes
<1>10. SameCommand("terminate")
  <2>1. SameTables([restart |-> Flag], [restart |-> Flag])
    BY FieldIs, OptionalIs, KindsAlike DEF SameTables, SameField, Flag
  <2>2. SameTables([restart |-> Flag] ++ Timeout, [restart |-> Flag] ++ Timeout)
    BY <2>1, SameTimeout, SameOver DEF Timeout
  <2> QED
    BY <2>2, HttpTables, CliTables, TimeoutThere DEF SameCommand, Extends, ControlOptions, ControlRoutes
<1>11. SameCommand("adopt")
  <2>1. SameTables([bootstrap_timeout_ms |-> Field("natural", "5000"), max_events |-> Field("count",
            "50"), childSessionId |-> Optional("id")], [bootstrap_timeout_ms |-> Field("natural",
            "5000"), max_events |-> Field("limit", "50"), childSessionId |-> Optional("id")])
    BY FieldIs, OptionalIs, KindsAlike DEF SameTables, SameField, Flag
  <2>2. SameTables([bootstrap_timeout_ms |-> Field("natural", "5000"), max_events |-> Field("count",
            "50"), childSessionId |-> Optional("id")] ++ Timeout,
            [bootstrap_timeout_ms |-> Field("natural", "5000"), max_events |-> Field("limit", "50"),
            childSessionId |-> Optional("id")] ++ Timeout)
    BY <2>1, SameTimeout, SameOver DEF Timeout
  <2> QED
    BY <2>2, HttpTables, CliTables, TimeoutThere DEF SameCommand, Extends, ControlOptions, ControlRoutes
<1>12. SameCommand("events")
  <2>1. SameTables([max |-> Field("limit", "50"), timeout_ms |-> Field("query", "0")],
            [max |-> Field("limit", "50"), timeout_ms |-> Field("natural", "0")])
    BY FieldIs, OptionalIs, KindsAlike DEF SameTables, SameField, Flag
  <2> QED
    BY <2>1, HttpTables, CliTables, TimeoutThere DEF SameCommand, Extends, DapRoutes, InspectOptions
<1>13. SameCommand("request")
  <2>1. SameTables([command |-> Optional("text"), arguments |-> Field("object", "empty_object")],
            [command |-> Optional("text"), arguments |-> Field("object", "empty_object")])
    BY FieldIs, OptionalIs, KindsAlike DEF SameTables, SameField, Flag
  <2>2. SameTables([command |-> Optional("text"), arguments |-> Field("object",
            "empty_object")] ++ Timeout, [command |-> Optional("text"), arguments |-> Field("object",
            "empty_object")] ++ Timeout)
    BY <2>1, SameTimeout, SameOver DEF Timeout
  <2> QED
    BY <2>2, HttpTables, CliTables, TimeoutThere DEF SameCommand, Extends, DapRoutes, RequestOptions
<1>14. SameCommand("batch")
  <2>1. SameTables([batch |-> Optional("items"), command |-> Optional("excluded")],
            [batch |-> Optional("items")])
    BY FieldIs, OptionalIs, KindsAlike DEF SameTables, SameField, Flag
  <2>2. SameTables([batch |-> Optional("items"), command |-> Optional("excluded")] ++ Timeout,
            [batch |-> Optional("items")] ++ Timeout)
    BY <2>1, SameTimeout, SameOver DEF Timeout
  <2> QED
    BY <2>2, HttpTables, CliTables, TimeoutThere DEF SameCommand, Extends, DapRoutes, RequestOptions
<1>15. SameCommand("inspect")
  <2>1. SameTables([tail |-> Field("tail", "50")], [tail |-> Field("tail", "50")])
    BY FieldIs, OptionalIs, KindsAlike DEF SameTables, SameField, Flag
  <2> QED
    BY <2>1, HttpTables, CliTables, TimeoutThere DEF SameCommand, Extends, Inspection
<1>16. \A c \in {"continue", "pause", "next", "stepIn", "stepOut"} : SameCommand(c)
  <2>1. RequestOptions["continue"] = OnThread /\ "continue" \in DOMAIN RequestOptions
    BY DEF RequestOptions
  <2>2. \A c \in {"pause", "next", "stepIn",
            "stepOut"} : ControlOptions[c] = OnThread /\ c \in DOMAIN ControlOptions
    BY DEF ControlOptions
  <2> QED
    BY <2>1, <2>2, ThreadDomain, HttpTables, CliTables, SameOnThread, TimeoutThere DEF OnThread,
           SameCommand, Extends
<1>17. \A c \in {"suspend", "resume"} : SameCommand(c)
  BY HttpTables, CliTables, TimeoutThere DEF SameCommand, Extends, NoFields, SameTables
<1> QED
  BY HttpTables, RouteDomains, ThreadDomain, <1>1, <1>2, <1>3, <1>4, <1>5, <1>6, <1>7, <1>8, <1>9,
         <1>10, <1>11, <1>12, <1>13, <1>14, <1>15, <1>16, <1>17 DEF Inspection

-----------------------------------------------------------------------------
(* FrontEnds: a request that both can be asked *)

\* The fields of a command are those of the server.
LEMMA FieldsAre ==
    \A c \in DOMAIN HttpFields :
       /\ FieldsOf(c) = DOMAIN HttpFields[c]
       /\ DOMAIN CliFields[c] \subseteq DOMAIN HttpFields[c]
<1> SUFFICES ASSUME NEW c \in DOMAIN HttpFields
             PROVE  /\ FieldsOf(c) = DOMAIN HttpFields[c]
                    /\ DOMAIN CliFields[c] \subseteq DOMAIN HttpFields[c]
  OBVIOUS
<1>1. c \in DOMAIN CliFields /\ DOMAIN CliFields[c] \subseteq DOMAIN HttpFields[c]
  BY CommandsSame DEF SameCommand, SameTables
<1>2. Fields("http") = HttpFields /\ Fields("cli") = CliFields
  BY DEF Fields
<1>3. \A f : f \in FieldsOf(c) <=> f \in DOMAIN HttpFields[c] \/ f \in DOMAIN CliFields[c]
  BY <1>1, <1>2 DEF FieldsOf, FrontEnd
<1> QED
  BY <1>1, <1>3

\* Both can be asked the request, and nothing in it is known to make a difference.
Common ==
    /\ request.command \in DOMAIN HttpFields
    /\ CanSay("http") /\ CanSay("cli")
    /\ DOMAIN request.fields = FieldsOf(request.command)
    /\ \A f \in DOMAIN request.fields : <<f, request.fields[f]>> \notin Differences

\* The kind of a field of the request for the server, and for the command line.
KindHttp(f) == HttpKinds[HttpFields[request.command][f].kind]
KindCli(f) == OptionKinds[CliFields[request.command][f].kind]

\* They are the kinds by which the fields are read.
LEMMA KindsOf ==
    \A f : KindOf("http", request.command, f) = KindHttp(f) /\ KindOf("cli", request.command,
        f) = KindCli(f)
BY DEF KindOf, KindHttp, KindCli, HttpKinds, Fields

\* What both know of a field.
LEMMA SameGiven ==
    ASSUME Common, NEW f \in DOMAIN CliFields[request.command]
    PROVE  /\ f \in DOMAIN HttpFields[request.command]
           /\ request.fields[f] \in DOMAIN KindHttp(f).refuses
                <=> request.fields[f] \in DOMAIN KindCli(f).refuses
           /\ request.fields[f] \in DOMAIN KindHttp(f).refuses =>
                KindHttp(f).refuses[request.fields[f]] \notin {0,
                    200} /\ KindCli(f).refuses[request.fields[f]] \notin {0, 200}
           /\ request.fields[f] \notin DOMAIN KindHttp(f).refuses => Value("http", f) = Value("cli", f)
<1> DEFINE c == request.command
           x == request.fields[f]
<1>1. SameCommand(c)
  BY CommandsSame DEF Common
<1>2. f \in DOMAIN HttpFields[c] /\ SameField(f, HttpFields[c][f], CliFields[c][f])
  BY <1>1 DEF SameCommand, SameTables
<1>3. f \in DOMAIN request.fields
  BY <1>2, FieldsAre DEF Common
<1>4. Fields("http") = HttpFields /\ Fields("cli") = CliFields
  BY DEF Fields
<1>5. x \in Says("http", c, f) /\ x \in Says("cli", c, f)
  BY <1>1, <1>3, <1>4 DEF Common, CanSay, SameCommand
<1>6. x \in KindHttp(f).says /\ x \in KindCli(f).says
  BY <1>1, <1>2, <1>4, <1>5, KindsOf DEF Says, SameCommand
<1>7. <<f, x>> \notin Differences
  BY <1>3 DEF Common
<1>8. /\ x \in DOMAIN KindHttp(f).refuses <=> x \in DOMAIN KindCli(f).refuses
      /\ x \in DOMAIN KindHttp(f).refuses =>
           KindHttp(f).refuses[x] \notin {0, 200} /\ KindCli(f).refuses[x] \notin {0, 200}
      /\ x \notin DOMAIN KindHttp(f).refuses /\ x # "absent" => Meaning(KindHttp(f),
             x) = Meaning(KindCli(f), x)
  BY <1>2, <1>6, <1>7, Zenon DEF SameField, Alike, KindHttp, KindCli
<1>9. Value("http", f) = IF x = "absent" THEN HttpFields[c][f].absent ELSE Meaning(KindHttp(f), x)
  BY <1>4, KindsOf DEF Value, Meaning
<1>10. Value("cli", f) = IF x = "absent" THEN CliFields[c][f].absent ELSE Meaning(KindCli(f), x)
  BY <1>4, KindsOf DEF Value, Meaning
<1>11. x \notin DOMAIN KindHttp(f).refuses => Value("http", f) = Value("cli", f)
  BY <1>2, <1>8, <1>9, <1>10 DEF SameField
<1> QED
  BY <1>2, <1>8, <1>11

\* What only the server knows of is absent, or the command line could not say it.
LEMMA OnlyHttp ==
    ASSUME Common, NEW f \in DOMAIN HttpFields[request.command],
        f \notin DOMAIN CliFields[request.command]
    PROVE  /\ request.fields[f] = "absent"
           /\ request.fields[f] \notin DOMAIN KindHttp(f).refuses
           /\ Value("http", f) = Omitted
<1> DEFINE c == request.command
<1>1. SameCommand(c)
  BY CommandsSame DEF Common
<1>2. HttpFields[c][f] = Optional("excluded")
  BY <1>1 DEF SameCommand, SameTables
<1>3. Fields("http") = HttpFields /\ Fields("cli") = CliFields
  BY DEF Fields
<1>4. request.fields[f] \in Says("cli", c, f)
  BY <1>1, <1>3, FieldsAre DEF Common, CanSay, SameCommand
<1>5. request.fields[f] = "absent"
  BY <1>3, <1>4 DEF Says
<1>6. KindHttp(f) = BodyKinds["excluded"]
  BY <1>2, OptionalIs, HttpKindsAre, KindNames DEF KindHttp
<1>7. "absent" \notin DOMAIN BodyKinds["excluded"].refuses
  <2>1. Reads(BodyKinds["excluded"], {"absent", "good", "null", "wrong"}, {"null", "wrong", "good"}, Same)
    BY BodyKindsRead
  <2> QED
    BY <2>1 DEF Reads
<1>8. Value("http", f) = Omitted
  BY <1>2, <1>3, <1>5, OptionalIs DEF Value
<1> QED
  BY <1>5, <1>6, <1>7, <1>8

\* Both refuse the same fields, and pass on the same arguments when there are none.
LEMMA SameRequest ==
    ASSUME Common
    PROVE  /\ Refused("http") = Refused("cli")
           /\ \A code \in RefusalCodes("http") \union RefusalCodes("cli") : code \notin {0, 200}
           /\ Refused("http") = {} => Arguments("http") = Arguments("cli")
           /\ Refused("http") = {} /\ NeedsThread => Value("http", "timeout_ms") = Value("cli",
                  "timeout_ms")
<1> DEFINE c == request.command
<1>1. Fields("http") = HttpFields /\ Fields("cli") = CliFields
  BY DEF Fields
<1>2. DOMAIN CliFields[c] \subseteq DOMAIN HttpFields[c] /\ DOMAIN request.fields = DOMAIN HttpFields[c]
  BY FieldsAre DEF Common
<1>3. \A f : f \in Refused("http") <=>
        f \in DOMAIN HttpFields[c] /\ request.fields[f] \in DOMAIN KindHttp(f).refuses
  BY <1>1, KindsOf DEF Refused
<1>4. \A f : f \in Refused("cli") <=>
        f \in DOMAIN CliFields[c] /\ request.fields[f] \in DOMAIN KindCli(f).refuses
  BY <1>1, KindsOf DEF Refused
<1>5. Refused("http") = Refused("cli")
  <2>1. ASSUME NEW f \in DOMAIN CliFields[c] PROVE f \in Refused("http") <=> f \in Refused("cli")
    BY <1>3, <1>4, <2>1, SameGiven
  <2>2. ASSUME NEW f, f \notin DOMAIN CliFields[c]
        PROVE  f \notin Refused("http") /\ f \notin Refused("cli")
    BY <1>3, <1>4, <2>2, OnlyHttp
  <2>3. \A f : f \in Refused("http") <=> f \in Refused("cli")
    BY <2>1, <2>2
  <2>4. Refused("http") \subseteq DOMAIN HttpFields[c] /\ Refused("cli") \subseteq DOMAIN CliFields[c]
    BY <1>1 DEF Refused
  <2> QED
    BY <2>3, <2>4
<1>6. \A f \in Refused("http") : f \in DOMAIN CliFields[c]
  BY <1>4, <1>5
<1>7. \A code \in RefusalCodes("http") \union RefusalCodes("cli") : code \notin {0, 200}
  <2>1. \A f \in Refused("http") :
          KindHttp(f).refuses[request.fields[f]] \notin {0,
              200} /\ KindCli(f).refuses[request.fields[f]] \notin {0, 200}
    BY <1>3, <1>6, SameGiven
  <2>2. SUFFICES ASSUME NEW v \in FrontEnd, NEW code \in RefusalCodes(v)
                 PROVE  code \notin {0, 200}
    BY DEF FrontEnd
  <2>3. PICK f \in Refused(v) : code = KindOf(v, c, f).refuses[request.fields[f]]
    BY DEF RefusalCodes
  <2> QED
    BY <1>5, <2>1, <2>3, KindsOf DEF FrontEnd
<1>8. ASSUME Refused("http") = {} PROVE Arguments("http") = Arguments("cli")
  <2>1. \A f \in DOMAIN CliFields[c] : Value("http", f) = Value("cli", f)
    BY <1>2, <1>3, <1>8, SameGiven
  <2>2. \A f \in DOMAIN HttpFields[c] : f \notin DOMAIN CliFields[c] => Value("http", f) = Omitted
    BY OnlyHttp
  <2> DEFINE passed(v) == {f \in DOMAIN Fields(v)[c] : Value(v, f) # Omitted}
  <2>3. \A v : Arguments(v) = [f \in passed(v) |-> Value(v, f)]
    BY DEF Arguments
  <2>4. passed("http") = passed("cli")
    BY <1>1, <1>2, <2>1, <2>2
  <2>5. \A f \in passed("cli") : Value("http", f) = Value("cli", f)
    BY <1>1, <2>1
  <2> HIDE DEF passed
  <2> QED
    BY <2>3, <2>4, <2>5
<1>9. ASSUME Refused("http") = {}, NeedsThread PROVE Value("http", "timeout_ms") = Value("cli",
          "timeout_ms")
  <2>1. "timeout_ms" \in DOMAIN CliFields[c]
    BY <1>2, <1>9, CommandsSame DEF NeedsThread, SameCommand, Common
  <2> QED
    BY <1>2, <1>3, <1>9, <2>1, SameGiven
<1> QED
  BY <1>5, <1>7, <1>8, <1>9

-----------------------------------------------------------------------------
(* FrontEnds: the inductive invariant *)

\* How far a front end is.
Stage(at, calls, thread, answered, code) ==
    [at |-> at, calls |-> calls, thread |-> thread, answer |-> answered, code |-> code]

\* The server does not come to look at the fields.
TurnedAway == ~(request.authorized /\ request.command \in DOMAIN HttpFields /\ request.body = "object")

\* The request has come to the checks of its fields.
Checked(v) == CanSay(v) /\ request.command \in DOMAIN Fields(v)

\* The thread that was found for the request, if it asked for one.
FoundThread ==
    IF NeedsThread /\ answer["threads"] \in DOMAIN ThreadLists
    THEN FirstThread(ThreadLists[answer["threads"]]) ELSE {}

\* The call that asks for the threads, and the calls before that of the command.
ThreadCall(v) == Call("threads", [timeout_ms |-> Value(v, "timeout_ms")])
Before(v) == IF NeedsThread THEN <<ThreadCall(v)>> ELSE <<>>

\* The call of the command.
CommandCall(v, thread) ==
    Call(request.command, Arguments(v) ++ [t \in {"threadId" : i \in thread} |-> thread])

\* The code that is replied to an answer.
AnswerCode(v, a) ==
    CASE a = "ok" -> Success(v)
      [] a = "failed" -> IF v = "http" THEN 200 ELSE ExitCode("Dap")
      [] OTHER -> Code(v, a)

\* No thread: the error of the lookup, or a code of the front end itself.
NoThread(v, a) ==
    IF a \in DapErrors
    THEN Stage("end", <<ThreadCall(v)>>, {}, a, AnswerCode(v, a))
    ELSE Stage("end", <<ThreadCall(v)>>, {}, Unasked, IF v = "http" THEN 409 ELSE ExitCode("Dap"))

\* No field is refused, and the thread is known if one is needed.
Accepted(v) == Checked(v) /\ Refused(v) = {}
Ready(v) == Accepted(v) /\ (NeedsThread => FoundThread # {})

\* Where a front end is follows from the request and the answers.
FrontAt(v, f) ==
    \/ f = Stage("new", <<>>, {}, Unasked, 0)
    \/ TurnedAway /\ f = Stage("end", <<>>, {}, Unasked, f.code)
    \/ Checked(v) /\ \E code \in RefusalCodes(v) : f = Stage("end", <<>>, {}, Unasked, code)
    \/ Accepted(v) /\ NeedsThread /\ f = Stage("threads", <<>>, {}, Unasked, 0)
    \/ /\ Accepted(v) /\ NeedsThread /\ FoundThread = {} /\ answer["threads"] # Unasked
       /\ f = NoThread(v, answer["threads"])
    \/ Ready(v) /\ f = Stage("call", Before(v), FoundThread, Unasked, 0)
    \/ /\ Ready(v) /\ answer["command"] \in Answers(request.command)
       /\ f = Stage("end", Append(Before(v), CommandCall(v, FoundThread)), FoundThread,
              answer["command"],
                    AnswerCode(v, answer["command"]))

\* The state of each front end is the one that the request and the answers determine.
FrontInv ==
    /\ DOMAIN request.fields = FieldsOf(request.command)
    /\ answer = [w \in {"threads", "command"} |-> answer[w]]
    /\ front = [v \in FrontEnd |-> front[v]]
    /\ \A v \in FrontEnd : FrontAt(v, front[v])

-----------------------------------------------------------------------------
(* FrontEnds: lemmas of the steps *)

\* No answer is taken for another one.
LEMMA AnswersAsked ==
    /\ \A c : Unasked \notin Answers(c)
    /\ Unasked \notin DapErrors /\ "failed" \notin DapErrors
    /\ \A a \in DOMAIN ThreadLists : a \notin DapErrors /\ a # "failed" /\ a # Unasked
BY FrontAssumption DEF Answers, DapErrors, LifecycleErrors, Unasked

\* What is said of the request does not change while the request stands.
LEMMA RequestStands ==
    ASSUME request' = request, NEW v
    PROVE  /\ TurnedAway' = TurnedAway /\ NeedsThread' = NeedsThread
           /\ Checked(v)' = Checked(v) /\ Refused(v)' = Refused(v) /\ RefusalCodes(v)' = RefusalCodes(v)
           /\ ThreadCall(v)' = ThreadCall(v) /\ Arguments(v)' = Arguments(v)
<1>1. TurnedAway' = TurnedAway /\ NeedsThread' = NeedsThread
  BY DEF TurnedAway, NeedsThread
<1>2. CanSay(v)' = CanSay(v)
  BY DEF CanSay
<1>3. Refused(v)' = Refused(v)
  BY DEF Refused
<1>4. RefusalCodes(v)' = RefusalCodes(v)
  BY <1>3 DEF RefusalCodes
<1>5. \A f : Value(v, f)' = Value(v, f)
  BY DEF Value
<1>6. Arguments(v)' = Arguments(v)
  BY <1>5 DEF Arguments
<1>7. ThreadCall(v)' = ThreadCall(v)
  BY <1>5 DEF ThreadCall, Call
<1> QED
  BY <1>1, <1>2, <1>3, <1>4, <1>6, <1>7 DEF Checked

\* An answer that is there stays, so where a front end is stays true.
LEMMA FrontAtStays ==
    ASSUME NEW v, NEW f, FrontAt(v, f), request' = request,
           \A w \in {"threads", "command"} : answer[w] # Unasked => answer'[w] = answer[w]
    PROVE  FrontAt(v, f)'
<1>1. /\ TurnedAway' = TurnedAway /\ NeedsThread' = NeedsThread
      /\ Checked(v)' = Checked(v) /\ Refused(v)' = Refused(v) /\ RefusalCodes(v)' = RefusalCodes(v)
      /\ ThreadCall(v)' = ThreadCall(v) /\ Arguments(v)' = Arguments(v)
  BY RequestStands
<1>2. Accepted(v)' = Accepted(v) /\ Before(v)' = Before(v)
  BY <1>1 DEF Accepted, Before
<1>3. answer["threads"] # Unasked => FoundThread' = FoundThread
  BY <1>1 DEF FoundThread
<1>4. ~NeedsThread => FoundThread' = FoundThread
  BY <1>1 DEF FoundThread
<1>5. FoundThread # {} => answer["threads"] # Unasked
  BY AnswersAsked DEF FoundThread
<1>6. Ready(v) => FoundThread' = FoundThread
  BY <1>3, <1>4, <1>5 DEF Ready
<1>7. Ready(v) => Ready(v)'
  BY <1>1, <1>2, <1>6 DEF Ready
<1>8. Ready(v) => CommandCall(v, FoundThread)' = CommandCall(v, FoundThread)
  BY <1>1, <1>6 DEF CommandCall, Call
<1>9. \A a : NoThread(v, a)' = NoThread(v, a)
  BY <1>1 DEF NoThread
<1>10. CASE f = Stage("new", <<>>, {}, Unasked, 0)
  BY <1>10 DEF FrontAt
<1>11. CASE TurnedAway /\ f = Stage("end", <<>>, {}, Unasked, f.code)
  BY <1>1, <1>11 DEF FrontAt
<1>12. CASE Checked(v) /\ \E code \in RefusalCodes(v) : f = Stage("end", <<>>, {}, Unasked, code)
  BY <1>1, <1>12 DEF FrontAt
<1>13. CASE Accepted(v) /\ NeedsThread /\ f = Stage("threads", <<>>, {}, Unasked, 0)
  BY <1>1, <1>2, <1>13 DEF FrontAt
<1>14. CASE /\ Accepted(v) /\ NeedsThread /\ FoundThread = {} /\ answer["threads"] # Unasked
            /\ f = NoThread(v, answer["threads"])
  BY <1>1, <1>2, <1>3, <1>9, <1>14 DEF FrontAt
<1>15. CASE Ready(v) /\ f = Stage("call", Before(v), FoundThread, Unasked, 0)
  BY <1>2, <1>6, <1>7, <1>15 DEF FrontAt
<1>16. CASE /\ Ready(v) /\ answer["command"] \in Answers(request.command)
            /\ f = Stage("end", Append(Before(v), CommandCall(v, FoundThread)), FoundThread,
                   answer["command"],
                         AnswerCode(v, answer["command"]))
  <2>1. answer'["command"] = answer["command"]
    BY <1>16, AnswersAsked
  <2> QED
    BY <1>2, <1>6, <1>7, <1>8, <1>16, <2>1 DEF FrontAt
<1> QED
  BY <1>10, <1>11, <1>12, <1>13, <1>14, <1>15, <1>16 DEF FrontAt

\* The parts of a stage.
LEMMA StageAt ==
    \A at, calls, thread, answered, code :
       /\ Stage(at, calls, thread, answered, code).at = at
       /\ Stage(at, calls, thread, answered, code).calls = calls
       /\ Stage(at, calls, thread, answered, code).thread = thread
       /\ Stage(at, calls, thread, answered, code).answer = answered
       /\ Stage(at, calls, thread, answered, code).code = code
BY DEF Stage

\* A front end that is somewhere has come there.
LEMMA Come ==
    ASSUME NEW v, FrontAt(v, front[v])
    PROVE  /\ At(v, "new") => front[v] = Stage("new", <<>>, {}, Unasked, 0)
           /\ At(v, "threads") =>
                Accepted(v) /\ NeedsThread /\ front[v] = Stage("threads", <<>>, {}, Unasked, 0)
           /\ At(v, "call") => Ready(v) /\ front[v] = Stage("call", Before(v), FoundThread, Unasked, 0)
<1>1. NoThread(v, answer["threads"]).at = "end"
  BY StageAt DEF NoThread
<1> QED
  BY <1>1, StageAt DEF FrontAt, At

\* One front end comes to a place that is in order, and the other stays where it is.
LEMMA OneComes ==
    ASSUME FrontInv, request' = request, NEW v \in FrontEnd, NEW f,
           front' = [front EXCEPT ![v] = f], FrontAt(v, f)',
           answer' = [w \in {"threads", "command"} |-> answer'[w]],
           \A w \in {"threads", "command"} : answer[w] # Unasked => answer'[w] = answer[w]
    PROVE  FrontInv'
<1>1. \A w \in FrontEnd : FrontAt(w, front[w])'
  <2> SUFFICES ASSUME NEW w \in FrontEnd PROVE FrontAt(w, front[w])'
    OBVIOUS
  <2>1. CASE w = v
    <3>1. front'[v] = f
      BY DEF FrontInv
    <3> QED
      BY <2>1, <3>1
  <2>2. CASE w # v
    <3>1. front'[w] = front[w]
      BY <2>2 DEF FrontInv
    <3>2. FrontAt(w, front[w])
      BY DEF FrontInv
    <3>3. PICK g : g = front[w]
      OBVIOUS
    <3>4. FrontAt(w, g)'
      BY <3>2, <3>3, FrontAtStays
    <3> QED
      BY <3>1, <3>3, <3>4
  <2> QED
    BY <2>1, <2>2
<1>2. front' = [w \in FrontEnd |-> front'[w]]
  BY DEF FrontInv
<1> QED
  BY <1>1, <1>2 DEF FrontInv

\* A field of a stage that is changed.
LEMMA AtChanged ==
    ASSUME NEW at, NEW calls, NEW thread, NEW answered, NEW code, NEW x, NEW f, NEW g,
           f = Stage(at, calls, thread, answered, code), g = [f EXCEPT !.at = x]
    PROVE  g = Stage(x, calls, thread, answered, code)
BY DEF Stage
LEMMA AnswerChanged ==
    ASSUME NEW at, NEW calls, NEW thread, NEW answered, NEW code, NEW x, NEW f, NEW g,
           f = Stage(at, calls, thread, answered, code), g = [f EXCEPT !.answer = x]
    PROVE  g = Stage(at, calls, thread, x, code)
BY DEF Stage
LEMMA CodeChanged ==
    ASSUME NEW at, NEW calls, NEW thread, NEW answered, NEW code, NEW x, NEW f, NEW g,
           f = Stage(at, calls, thread, answered, code), g = [f EXCEPT !.code = x]
    PROVE  g = Stage(at, calls, thread, answered, x)
BY DEF Stage

\* A reply without a call.
LEMMA Replied ==
    ASSUME FrontInv, NEW v \in FrontEnd, NEW code, front[v] = Stage("new", <<>>, {}, Unasked, 0),
        Reply(v, code)
    PROVE  front' = [front EXCEPT ![v] = Stage("end", <<>>, {}, Unasked, code)]
<1>1. DOMAIN front = FrontEnd /\ front = [w \in FrontEnd |-> front[w]]
  BY DEF FrontInv
<1>2. PICK s : s = Stage("new", <<>>, {}, Unasked, 0)
  OBVIOUS
<1>3. PICK t : t = [s EXCEPT !.at = "end"]
  OBVIOUS
<1>4. PICK u : u = [t EXCEPT !.code = code]
  OBVIOUS
<1>5. t = Stage("end", <<>>, {}, Unasked, 0)
  BY <1>2, <1>3, AtChanged
<1>6. u = Stage("end", <<>>, {}, Unasked, code)
  BY <1>5, <1>4, CodeChanged
<1>7. front' = [front EXCEPT ![v] = [[front[v] EXCEPT !.at = "end"] EXCEPT !.code = code]]
  BY <1>1 DEF Reply
<1>8. front' = [front EXCEPT ![v] = u]
  BY <1>2, <1>3, <1>4, <1>7
<1> QED
  BY <1>6, <1>8

\* A request that is accepted.
LEMMA Accepts ==
    ASSUME FrontInv, NEW v \in FrontEnd, NEW at, front[v] = Stage("new", <<>>, {}, Unasked, 0),
           front' = [front EXCEPT ![v].at = at]
    PROVE  front' = [front EXCEPT ![v] = Stage(at, <<>>, {}, Unasked, 0)]
<1>1. DOMAIN front = FrontEnd /\ front = [w \in FrontEnd |-> front[w]]
  BY DEF FrontInv
<1>2. PICK s : s = Stage("new", <<>>, {}, Unasked, 0)
  OBVIOUS
<1>3. PICK t : t = [s EXCEPT !.at = at]
  OBVIOUS
<1>4. t = Stage(at, <<>>, {}, Unasked, 0)
  BY <1>2, <1>3 DEF Stage
<1>5. front' = [front EXCEPT ![v] = [front[v] EXCEPT !.at = at]]
  BY <1>1
<1>6. front' = [front EXCEPT ![v] = t]
  BY <1>2, <1>3, <1>5
<1> QED
  BY <1>4, <1>6

\* The reply to an answer.
LEMMA ReplyIs ==
    ASSUME NEW v, NEW at, NEW calls, NEW thread, NEW answered, NEW code, NEW a, NEW f,
           f = Stage(at, calls, thread, answered, code)
    PROVE  ReplyTo(v, f, a) = Stage("end", calls, thread, a, AnswerCode(v, a))
<1>1. PICK x : x = AnswerCode(v, a)
  OBVIOUS
<1>2. PICK s : s = [f EXCEPT !.at = "end"]
  OBVIOUS
<1>3. PICK t : t = [s EXCEPT !.answer = a]
  OBVIOUS
<1>4. PICK u : u = [t EXCEPT !.code = x]
  OBVIOUS
<1>5. s = Stage("end", calls, thread, answered, code)
  BY <1>2, AtChanged
<1>6. t = Stage("end", calls, thread, a, code)
  BY <1>3, <1>5, AnswerChanged
<1>7. u = Stage("end", calls, thread, a, x)
  BY <1>4, <1>6, CodeChanged
<1>8. ReplyTo(v, f, a) = [[[f EXCEPT !.at = "end"] EXCEPT !.answer = a] EXCEPT !.code = x]
  BY <1>1 DEF ReplyTo, AnswerCode
<1> QED
  BY <1>1, <1>2, <1>3, <1>4, <1>7, <1>8

\* A request that is turned away keeps the invariant.
LEMMA TurnedAwayKept ==
    ASSUME FrontInv, Unauthorized \/ NoRoute \/ BadBody
    PROVE  FrontInv'
<1>1. request' = request /\ answer' = answer /\ At("http", "new")
  BY DEF Unauthorized, NoRoute, BadBody
<1>2. PICK code : Reply("http", code)
  BY DEF Unauthorized, NoRoute, BadBody
<1>3. TurnedAway
  BY DEF Unauthorized, NoRoute, BadBody, TurnedAway
<1>4. front["http"] = Stage("new", <<>>, {}, Unasked, 0)
  BY <1>1, Come DEF FrontInv, FrontEnd
<1>5. front' = [front EXCEPT !["http"] = Stage("end", <<>>, {}, Unasked, code)]
  BY <1>2, <1>4, Replied DEF FrontEnd
<1>6. PICK f : f = Stage("end", <<>>, {}, Unasked, code)
  OBVIOUS
<1>7. FrontAt("http", f)'
  <2>1. f = Stage("end", <<>>, {}, Unasked, f.code)
    BY <1>6, StageAt
  <2>2. TurnedAway'
    BY <1>1, <1>3, RequestStands
  <2> QED
    BY <2>1, <2>2 DEF FrontAt
<1> QED
  BY <1>1, <1>5, <1>6, <1>7, OneComes DEF FrontInv, FrontEnd

\* So does one with a field that is refused.
LEMMA RefuseKept ==
    ASSUME FrontInv, NEW v \in FrontEnd, Refuse(v)
    PROVE  FrontInv'
<1>1. request' = request /\ answer' = answer /\ At(v, "new") /\ Checked(v)
  BY DEF Refuse, ToCheck, Checked
<1>2. PICK code \in RefusalCodes(v) : Reply(v, code)
  BY DEF Refuse
<1>3. front[v] = Stage("new", <<>>, {}, Unasked, 0)
  BY <1>1, Come DEF FrontInv
<1>4. front' = [front EXCEPT ![v] = Stage("end", <<>>, {}, Unasked, code)]
  BY <1>2, <1>3, Replied
<1>5. PICK f : f = Stage("end", <<>>, {}, Unasked, code)
  OBVIOUS
<1>6. FrontAt(v, f)'
  BY <1>1, <1>5, RequestStands DEF FrontAt
<1> QED
  BY <1>1, <1>4, <1>5, <1>6, OneComes DEF FrontInv

\* So does one that is accepted.
LEMMA AcceptKept ==
    ASSUME FrontInv, NEW v \in FrontEnd, Accept(v)
    PROVE  FrontInv'
<1>1. request' = request /\ answer' = answer /\ At(v, "new") /\ Accepted(v)
  BY DEF Accept, ToCheck, Accepted, Checked
<1>2. front[v] = Stage("new", <<>>, {}, Unasked, 0)
  BY <1>1, Come DEF FrontInv
<1>3. PICK f : f = Stage(IF NeedsThread THEN "threads" ELSE "call", <<>>, {}, Unasked, 0)
  OBVIOUS
<1>4. front' = [front EXCEPT ![v] = f]
  BY <1>2, <1>3, Accepts DEF Accept
<1>5. FrontAt(v, f)
  BY <1>1, <1>3 DEF FrontAt, Ready, Before, FoundThread
<1>6. FrontAt(v, f)'
  BY <1>1, <1>5, FrontAtStays
<1> QED
  BY <1>1, <1>4, <1>6, OneComes DEF FrontInv

\* The answer of a call is written down, and the other one stays.
LEMMA Asked ==
    ASSUME FrontInv, NEW what \in {"threads", "command"}, NEW a, Ask(what, a), a # Unasked
    PROVE  /\ answer' = [w \in {"threads", "command"} |-> answer'[w]]
           /\ answer'[what] = a
           /\ \A w \in {"threads", "command"} : answer[w] # Unasked => answer'[w] = answer[w]
           /\ \A w \in {"threads", "command"} : w # what => answer'[w] = answer[w]
BY DEF Ask, FrontInv

\* So does the call of the command.
LEMMA MakeCallKept ==
    ASSUME FrontInv, NEW v \in FrontEnd, NEW kind, MakeCall(v, kind)
    PROVE  FrontInv'
<1>1. request' = request /\ At(v, "call")
  BY DEF MakeCall
<1>2. Ready(v) /\ front[v] = Stage("call", Before(v), FoundThread, Unasked, 0)
  BY <1>1, Come DEF FrontInv
<1>3. PICK a \in Answers(request.command) :
         /\ Ask("command", a)
         /\ front' = [front EXCEPT ![v] =
              ReplyTo(v, [front[v] EXCEPT !.calls = Append(@, Call(request.command,
                  CallArguments(v)))], a)]
  BY DEF MakeCall
<1>4. a # Unasked
  BY AnswersAsked
<1>5. /\ answer' = [w \in {"threads", "command"} |-> answer'[w]]
      /\ answer'["command"] = a /\ answer'["threads"] = answer["threads"]
      /\ \A w \in {"threads", "command"} : answer[w] # Unasked => answer'[w] = answer[w]
  BY <1>3, <1>4, Asked
<1>6. PICK thread : thread = FoundThread
  OBVIOUS
<1>7. PICK before : before = Before(v)
  OBVIOUS
<1>8. PICK call : call = CommandCall(v, thread)
  OBVIOUS
<1>9. PICK s : s = Stage("call", before, thread, Unasked, 0)
  OBVIOUS
<1>10. front[v] = s /\ s.calls = before /\ s.thread = thread
  BY <1>2, <1>6, <1>7, <1>9, StageAt
<1>11. call = Call(request.command, CallArguments(v))
  BY <1>8, <1>10 DEF CommandCall, CallArguments
<1>12. PICK after : after = Append(before, call)
  OBVIOUS
<1>13. PICK t : t = [s EXCEPT !.calls = after]
  OBVIOUS
<1>14. t = Stage("call", after, thread, Unasked, 0)
  BY <1>9, <1>13 DEF Stage
<1>15. front' = [front EXCEPT ![v] = ReplyTo(v, t, a)]
  <2>1. front' = [front EXCEPT ![v] =
              ReplyTo(v, [front[v] EXCEPT !.calls = Append(front[v].calls, Call(request.command,
                  CallArguments(v)))], a)]
    BY <1>3
  <2> QED
    <3>1. [front[v] EXCEPT !.calls = Append(front[v].calls, Call(request.command, CallArguments(v)))]
            = [s EXCEPT !.calls = after]
      BY <1>10, <1>11, <1>12
    <3> QED
      BY <1>13, <2>1, <3>1
<1>16. PICK f : f = ReplyTo(v, t, a)
  OBVIOUS
<1>17. f = Stage("end", after, thread, a, AnswerCode(v, a))
  BY <1>14, <1>16, ReplyIs
<1>18. front' = [front EXCEPT ![v] = f]
  BY <1>15, <1>16
<1>19. FrontAt(v, f)'
  <2>1. /\ NeedsThread' = NeedsThread /\ Checked(v)' = Checked(v) /\ Refused(v)' = Refused(v)
        /\ ThreadCall(v)' = ThreadCall(v) /\ Arguments(v)' = Arguments(v)
    BY <1>1, RequestStands
  <2>2. FoundThread' = thread
    BY <1>5, <1>6, <2>1 DEF FoundThread
  <2>3. Before(v)' = before
    BY <1>7, <2>1 DEF Before
  <2>4. Ready(v)'
    BY <1>2, <1>6, <2>1, <2>2 DEF Ready, Accepted
  <2>5. CommandCall(v, FoundThread)' = call
    BY <1>1, <1>8, <2>1, <2>2 DEF CommandCall, Call
  <2>6. answer'["command"] \in Answers(request.command)'
    BY <1>1, <1>3, <1>5
  <2> QED
    BY <1>5, <1>12, <1>17, <2>2, <2>3, <2>4, <2>5, <2>6 DEF FrontAt
<1> QED
  BY <1>1, <1>5, <1>18, <1>19, OneComes

\* So does the search for a thread.
LEMMA AskThreadsKept ==
    ASSUME FrontInv, NEW v \in FrontEnd, AskThreads(v)
    PROVE  FrontInv'
<1>1. request' = request /\ At(v, "threads")
  BY DEF AskThreads
<1>2. Accepted(v) /\ NeedsThread /\ front[v] = Stage("threads", <<>>, {}, Unasked, 0)
  BY <1>1, Come DEF FrontInv
<1> DEFINE firstOf(a) == IF a \in DOMAIN ThreadLists THEN FirstThread(ThreadLists[a]) ELSE {}
           call == Call("threads", [timeout_ms |-> Value(v, "timeout_ms")])
           code == IF v = "http" THEN 409 ELSE ExitCode("Dap")
<1>3. PICK a \in DapErrors \union {"failed"} \union DOMAIN ThreadLists :
         /\ Ask("threads", a)
         /\ front' = [front EXCEPT ![v] =
              IF a \in DapErrors THEN ReplyTo(v, [front[v] EXCEPT !.calls = Append(@, call)], a)
              ELSE IF firstOf(a) = {}
              THEN [[front[v] EXCEPT !.calls = Append(@, call)] EXCEPT !.at = "end", !.code = code]
              ELSE [[front[v] EXCEPT !.calls = Append(@, call)] EXCEPT !.at = "call",
                  !.thread = firstOf(a)]]
  BY DEF AskThreads
<1>4. a # Unasked
  BY AnswersAsked DEF Unasked
<1>5. /\ answer' = [w \in {"threads", "command"} |-> answer'[w]]
      /\ answer'["threads"] = a
      /\ \A w \in {"threads", "command"} : answer[w] # Unasked => answer'[w] = answer[w]
  BY <1>3, <1>4, Asked
<1>6. PICK first : first = firstOf(a)
  OBVIOUS
<1>7. PICK s : s = Stage("threads", <<>>, {}, Unasked, 0)
  OBVIOUS
<1>8. PICK t : t = [s EXCEPT !.calls = <<call>>]
  OBVIOUS
<1>9. t = Stage("threads", <<call>>, {}, Unasked, 0)
  BY <1>7, <1>8 DEF Stage
<1>10. Append(front[v].calls, call) = <<call>>
  <2>1. front[v].calls = <<>>
    BY <1>2, StageAt
  <2>2. Append(<<>>, call) = <<call>>
    OBVIOUS
  <2> QED
    BY <2>1, <2>2
<1>11. [front[v] EXCEPT !.calls = Append(@, call)] = t
  BY <1>2, <1>7, <1>8, <1>10
<1> HIDE DEF call, code, firstOf
<1>12. /\ NeedsThread' = NeedsThread /\ Checked(v)' = Checked(v) /\ Refused(v)' = Refused(v)
       /\ ThreadCall(v)' = ThreadCall(v)
  BY <1>1, RequestStands
<1>13. ThreadCall(v) = call /\ Accepted(v)'
  BY <1>2, <1>12 DEF ThreadCall, Accepted, call
<1>14. FoundThread' = first
  BY <1>2, <1>5, <1>6, <1>12 DEF FoundThread, firstOf
<1>15. CASE a \in DapErrors
  <2>1. first = {}
    BY <1>6, <1>15, AnswersAsked DEF firstOf
  <2>2. PICK f : f = ReplyTo(v, t, a)
    OBVIOUS
  <2>3. f = Stage("end", <<call>>, {}, a, AnswerCode(v, a))
    BY <1>9, <2>2, ReplyIs
  <2>4. front' = [front EXCEPT ![v] = f]
    BY <1>3, <1>11, <1>15, <2>2
  <2>5. NoThread(v, answer["threads"])' = f
    BY <1>5, <1>12, <1>13, <1>15, <2>3 DEF NoThread
  <2>6. FrontAt(v, f)'
    BY <1>2, <1>4, <1>5, <1>12, <1>13, <1>14, <2>1, <2>5 DEF FrontAt
  <2> QED
    BY <1>1, <1>5, <2>4, <2>6, OneComes
<1>16. CASE a \notin DapErrors /\ first = {}
  <2>1. PICK u : u = [t EXCEPT !.at = "end"]
    OBVIOUS
  <2>2. PICK f : f = [u EXCEPT !.code = code]
    OBVIOUS
  <2>3. u = Stage("end", <<call>>, {}, Unasked, 0)
    BY <1>9, <2>1 DEF Stage
  <2>4. f = Stage("end", <<call>>, {}, Unasked, code)
    BY <2>2, <2>3 DEF Stage
  <2>5. front' = [front EXCEPT ![v] = [[t EXCEPT !.at = "end"] EXCEPT !.code = code]]
    BY <1>3, <1>6, <1>11, <1>16
  <2>6. front' = [front EXCEPT ![v] = f]
    BY <2>1, <2>2, <2>5
  <2>7. NoThread(v, answer["threads"])' = f
    BY <1>5, <1>12, <1>13, <1>16, <2>4 DEF NoThread, code
  <2>8. FrontAt(v, f)'
    BY <1>2, <1>4, <1>5, <1>12, <1>13, <1>14, <1>16, <2>7 DEF FrontAt
  <2> QED
    BY <1>1, <1>5, <2>6, <2>8, OneComes
<1>17. CASE a \notin DapErrors /\ first # {}
  <2>1. PICK u : u = [t EXCEPT !.at = "call"]
    OBVIOUS
  <2>2. PICK f : f = [u EXCEPT !.thread = first]
    OBVIOUS
  <2>3. u = Stage("call", <<call>>, {}, Unasked, 0)
    BY <1>9, <2>1 DEF Stage
  <2>4. f = Stage("call", <<call>>, first, Unasked, 0)
    BY <2>2, <2>3 DEF Stage
  <2>5. front' = [front EXCEPT ![v] = [[t EXCEPT !.at = "call"] EXCEPT !.thread = first]]
    BY <1>3, <1>6, <1>11, <1>17
  <2>6. front' = [front EXCEPT ![v] = f]
    BY <2>1, <2>2, <2>5
  <2>7. Before(v)' = <<call>> /\ Ready(v)'
    BY <1>2, <1>12, <1>13, <1>14, <1>17 DEF Before, Ready
  <2>8. FrontAt(v, f)'
    BY <1>14, <2>4, <2>7 DEF FrontAt
  <2> QED
    BY <1>1, <1>5, <2>6, <2>8, OneComes
<1> QED
  BY <1>15, <1>16, <1>17

\* The invariant holds at the start.
LEMMA FrontStarts == FrontInit => FrontInv
<1> SUFFICES ASSUME FrontInit PROVE FrontInv
  OBVIOUS
<1>1. PICK c \in Commands : request \in RequestsOf(c) \union Unsound(c)
  BY DEF FrontInit
<1>2. request.command = c /\ DOMAIN request.fields = FieldsOf(c)
  <2>1. CASE request \in RequestsOf(c)
    <3>1. PICK fields \in [FieldsOf(c) -> UNION {Values(c, f) : f \in FieldsOf(c)}] :
             request = [command |-> c, fields |-> fields, authorized |-> TRUE, body |-> "object"]
      BY <2>1 DEF RequestsOf
    <3> QED
      BY <3>1
  <2>2. CASE request \in Unsound(c)
    <3>1. PICK a, b : request = [command |-> c, fields |-> [f \in FieldsOf(c) |-> "absent"],
              authorized |-> a, body |-> b]
      BY <2>2 DEF Unsound
    <3> QED
      BY <3>1
  <2> QED
    BY <1>1, <2>1, <2>2
<1>3. answer = [w \in {"threads", "command"} |-> answer[w]]
  BY DEF FrontInit
<1>4. \A v \in FrontEnd : front[v] = Stage("new", <<>>, {}, Unasked, 0)
  BY DEF FrontInit, Stage
<1>5. front = [v \in FrontEnd |-> front[v]]
  BY DEF FrontInit
<1> QED
  BY <1>2, <1>3, <1>4, <1>5 DEF FrontInv, FrontAt

\* Every step of the front ends keeps the invariant.
LEMMA FrontKept ==
    ASSUME FrontInv, FrontNext \/ UNCHANGED frontVars
    PROVE  FrontInv'
<1>1. CASE Unauthorized \/ NoRoute \/ BadBody
  BY <1>1, TurnedAwayKept
<1>2. ASSUME NEW v \in FrontEnd, Refuse(v) PROVE FrontInv'
  BY <1>2, RefuseKept
<1>3. ASSUME NEW v \in FrontEnd, Accept(v) PROVE FrontInv'
  BY <1>3, AcceptKept
<1>4. ASSUME NEW v \in FrontEnd, AskThreads(v) PROVE FrontInv'
  BY <1>4, AskThreadsKept
<1>5. ASSUME NEW v \in FrontEnd,
             Manage(v) \/ Send(v) \/ LookUp(v) \/ SendRaw(v) \/ ReadEvents(v) \/ Adopt(v)
      PROVE  FrontInv'
  <2>1. PICK kind : MakeCall(v, kind)
    BY <1>5 DEF Manage, Send, LookUp, SendRaw, ReadEvents, Adopt
  <2> QED
    BY <2>1, MakeCallKept
<1>6. CASE UNCHANGED frontVars
  <2>1. request' = request /\ answer' = answer /\ front' = front
    BY <1>6 DEF frontVars
  <2>2. \A v \in FrontEnd : FrontAt(v, front[v])'
    <3> SUFFICES ASSUME NEW v \in FrontEnd PROVE FrontAt(v, front[v])'
      OBVIOUS
    <3>1. PICK f : f = front[v]
      OBVIOUS
    <3>2. FrontAt(v, f)'
      BY <2>1, <3>1, FrontAtStays DEF FrontInv
    <3> QED
      BY <2>1, <3>1, <3>2
  <2> QED
    BY <2>1, <2>2 DEF FrontInv
<1> QED
  BY <1>1, <1>2, <1>3, <1>4, <1>5, <1>6 DEF FrontNext

-----------------------------------------------------------------------------
(* FrontEnds: the two come to the same *)

\* The errors of a call, but for two, are the fault of the user for both front ends or for none.
LEMMA SameFault ==
    \A a \in Errors \ BlamedDifferently : HttpStatus(a) \in 400..499 <=> ExitCode(a) \in 2..4
BY DEF Errors, DapErrors, LifecycleErrors, BlamedDifferently, HttpStatus, ExitCode

\* A call succeeds for both, or an adapter has said that the request failed.
LEMMA SameSuccess ==
    ASSUME NEW c, NEW a \in Answers(c) \union DapErrors
    PROVE  /\ AnswerCode("cli", a) = 0 => AnswerCode("http", a) = 200
           /\ AnswerCode("http", a) = 200 => AnswerCode("cli", a) = 0 \/ a = "failed"
           /\ a \in Errors \ BlamedDifferently =>
                (AnswerCode("http", a) \in 400..499 <=> AnswerCode("cli", a) \in 2..4)
<1>1. a \in {"ok", "failed"} \union Errors
  BY DEF Answers, Errors
<1>2. CASE a = "ok"
  BY <1>2 DEF AnswerCode, Success, Errors, DapErrors, LifecycleErrors
<1>3. CASE a = "failed"
  BY <1>3 DEF AnswerCode, Errors, DapErrors, LifecycleErrors, ExitCode
<1>4. CASE a \in Errors
  <2>1. AnswerCode("http", a) = HttpStatus(a) /\ AnswerCode("cli", a) = ExitCode(a)
    BY <1>4 DEF AnswerCode, Code, Errors, DapErrors, LifecycleErrors
  <2>2. HttpStatus(a) # 200 /\ ExitCode(a) # 0
    BY <1>4 DEF Errors, DapErrors, LifecycleErrors, HttpStatus, ExitCode
  <2> QED
    BY <1>4, <2>1, <2>2, SameFault
<1> QED
  BY <1>1, <1>2, <1>3, <1>4

\* The thread that is picked is one of the positive ids of the list.
LEMMA FirstIsPositive ==
    ASSUME NEW threads \in Seq(Nat)
    PROVE  0 \notin FirstThread(threads)
<1> DEFINE positive == {i \in DOMAIN threads : threads[i] > 0}
<1>1. positive \in SUBSET Nat
  OBVIOUS
<1>2. ASSUME NEW i \in positive PROVE threads[Min(positive)] > 0
  <2>1. \E x \in positive : \A y \in positive : x =< y
    BY <1>1, <1>2, LeastOf
  <2>2. Min(positive) \in positive
    BY <2>1 DEF Min
  <2> QED
    BY <2>2
<1>3. FirstThread(threads) = {threads[Min(positive)] : i \in positive}
  BY DEF FirstThread
<1> HIDE DEF positive
<1> QED
  BY <1>2, <1>3

\* No call names thread zero.
LEMMA ThreadIsPositive == ASSUME FrontInv, NEW v \in FrontEnd PROVE 0 \notin front[v].thread
<1>1. 0 \notin FoundThread
  BY FirstIsPositive, FrontAssumption DEF FoundThread
<1>2. front[v].thread = {} \/ front[v].thread = FoundThread
  <2>1. \A a : NoThread(v, a).thread = {}
    BY StageAt DEF NoThread
  <2> QED
    BY <2>1, StageAt DEF FrontInv, FrontAt
<1> QED
  BY <1>1, <1>2

\* A front end that has replied to a request that came to the checks.
HasReplied(v, f) ==
    \/ Checked(v) /\ \E code \in RefusalCodes(v) : f = Stage("end", <<>>, {}, Unasked, code)
    \/ /\ Accepted(v) /\ NeedsThread /\ FoundThread = {} /\ answer["threads"] # Unasked
       /\ f = NoThread(v, answer["threads"])
    \/ /\ Ready(v) /\ answer["command"] \in Answers(request.command)
       /\ f = Stage("end", Append(Before(v), CommandCall(v, FoundThread)), FoundThread,
              answer["command"],
                    AnswerCode(v, answer["command"]))

\* Of a request that is common to both, the two make the same.
SameEnd(h, c) ==
    /\ h.calls = c.calls /\ h.answer = c.answer
    /\ h.answer \in Errors \ BlamedDifferently => (h.code \in 400..499 <=> c.code \in 2..4)
    /\ c.code = 0 => h.code = 200
    /\ h.code = 200 => c.code = 0 \/ h.answer = "failed"

\* Two front ends that have replied to the same request have replied the same.
LEMMA RepliesSame ==
    ASSUME Common, NEW h, NEW c, HasReplied("http", h), HasReplied("cli", c)
    PROVE  SameEnd(h, c)
<1>1. /\ Refused("http") = Refused("cli")
      /\ \A code \in RefusalCodes("http") \union RefusalCodes("cli") : code \notin {0, 200}
      /\ Refused("http") = {} => Arguments("http") = Arguments("cli")
      /\ Refused("http") = {} /\ NeedsThread => Value("http", "timeout_ms") = Value("cli", "timeout_ms")
  BY SameRequest
<1>2. \A v : Refused(v) = {} => RefusalCodes(v) = {}
  BY DEF RefusalCodes
<1>3. Unasked \notin Errors
  BY DEF Unasked, Errors, DapErrors, LifecycleErrors
<1>4. CASE Refused("http") # {}
  <2>1. PICK x \in RefusalCodes("http") : h = Stage("end", <<>>, {}, Unasked, x)
    BY <1>4 DEF HasReplied, Accepted, Ready
  <2>2. PICK y \in RefusalCodes("cli") : c = Stage("end", <<>>, {}, Unasked, y)
    BY <1>1, <1>4 DEF HasReplied, Accepted, Ready
  <2> QED
    BY <1>1, <1>3, <2>1, <2>2, StageAt DEF SameEnd
<1>5. CASE Refused("http") = {}
  <2>1. ThreadCall("http") = ThreadCall("cli") \/ ~NeedsThread
    BY <1>1, <1>5 DEF ThreadCall
  <2>2. Before("http") = Before("cli")
    BY <2>1 DEF Before
  <2>3. CommandCall("http", FoundThread) = CommandCall("cli", FoundThread)
    BY <1>1, <1>5 DEF CommandCall
  <2>4. CASE NeedsThread /\ FoundThread = {}
    <3>1. h = NoThread("http", answer["threads"]) /\ c = NoThread("cli", answer["threads"])
      BY <1>1, <1>2, <1>5, <2>4 DEF HasReplied, Ready
    <3>2. CASE answer["threads"] \in DapErrors
      <4>1. /\ h = Stage("end", <<ThreadCall("http")>>, {}, answer["threads"], AnswerCode("http",
                answer["threads"]))
            /\ c = Stage("end", <<ThreadCall("cli")>>, {}, answer["threads"], AnswerCode("cli",
                   answer["threads"]))
        BY <3>1, <3>2 DEF NoThread
      <4> QED
        BY <2>1, <2>4, <3>2, <4>1, StageAt, SameSuccess DEF SameEnd
    <3>3. CASE answer["threads"] \notin DapErrors
      <4>1. /\ h = Stage("end", <<ThreadCall("http")>>, {}, Unasked, 409)
            /\ c = Stage("end", <<ThreadCall("cli")>>, {}, Unasked, 5)
        BY <3>1, <3>3 DEF NoThread, ExitCode
      <4> QED
        BY <1>3, <2>1, <2>4, <4>1, StageAt DEF SameEnd
    <3> QED
      BY <3>2, <3>3
  <2>5. CASE ~(NeedsThread /\ FoundThread = {})
    <3> DEFINE a == answer["command"]
               calls == Append(Before("http"), CommandCall("http", FoundThread))
    <3>1. /\ a \in Answers(request.command)
          /\ h = Stage("end", calls, FoundThread, a, AnswerCode("http", a))
          /\ c = Stage("end", calls, FoundThread, a, AnswerCode("cli", a))
      BY <1>1, <1>2, <1>5, <2>2, <2>3, <2>5 DEF HasReplied
    <3> HIDE DEF calls
    <3> QED
      BY <3>1, StageAt, SameSuccess DEF SameEnd
  <2> QED
    BY <2>4, <2>5
<1> QED
  BY <1>4, <1>5

\* The property of the two front ends follows.
LEMMA FrontHolds == FrontInv => FrontEndsAgree
<1> SUFFICES ASSUME FrontInv PROVE FrontEndsAgree
  OBVIOUS
<1>1. \A v \in FrontEnd : 0 \notin front[v].thread
  BY ThreadIsPositive
<1>2. ASSUME \A v \in FrontEnd : At(v, "end"), request.authorized, request.body = "object",
             request.command \in DOMAIN HttpFields,
             \A f \in DOMAIN request.fields : <<f, request.fields[f]>> \notin Differences
      PROVE  SameEnd(front["http"], front["cli"])
  <2>1. ~TurnedAway
    BY <1>2 DEF TurnedAway
  <2>2. \A v \in FrontEnd : HasReplied(v, front[v])
    BY <1>2, <2>1, StageAt DEF FrontInv, FrontAt, HasReplied, At
  <2>3. \A v \in FrontEnd : CanSay(v)
    BY <2>2 DEF HasReplied, Accepted, Ready, Checked
  <2>4. Common
    BY <1>2, <2>3 DEF Common, FrontInv, FrontEnd
  <2> QED
    BY <2>2, <2>4, RepliesSame DEF FrontEnd
<1>3. (/\ \A v \in FrontEnd : At(v, "end")
       /\ request.authorized /\ request.body = "object"
       /\ request.command \in DOMAIN HttpFields
       /\ \A f \in DOMAIN request.fields : <<f, request.fields[f]>> \notin Differences)
      => SameEnd(front["http"], front["cli"])
  BY <1>2
<1> QED
  BY <1>1, <1>3 DEF FrontEndsAgree, SameEnd, AtFault

-----------------------------------------------------------------------------
(* The parts together *)

\* The part that is looked at keeps its invariant.
CommandLineInv ==
    /\ part = "projects" => ProjectInv
    /\ part = "profiles" => ProfilesInv
    /\ part = "browser" => BrowserInv /\ OrderInv
    /\ part = "front_ends" => FrontInv

\* Every part starts with its invariant.
LEMMA CommandLineStarts == Init => CommandLineInv
BY ProjectStarts, ProfilesStart, BrowserStarts, OrderStarts, FrontStarts DEF Init, CommandLineInv

\* A step of one part keeps the invariant of that part, and no part becomes another one.
LEMMA CommandLineKept ==
    ASSUME CommandLineInv, [Next]_<<part, frontVars, projectVars, profileVars, browserVars>>
    PROVE  CommandLineInv'
<1>1. part' = part
  BY DEF Next
<1>2. ASSUME part = "projects" PROVE ProjectInv'
  <2>1. ProjectNext \/ UNCHANGED projectVars
    BY <1>2 DEF Next
  <2> QED
    BY <1>2, <2>1, ProjectKept DEF CommandLineInv
<1>3. ASSUME part = "profiles" PROVE ProfilesInv'
  <2>1. ProfilesNext \/ UNCHANGED profileVars
    BY <1>3 DEF Next
  <2> QED
    BY <1>3, <2>1, ProfilesKept DEF CommandLineInv
<1>4. ASSUME part = "browser" PROVE BrowserInv' /\ OrderInv'
  <2>1. BrowserNext \/ UNCHANGED browserVars
    BY <1>4 DEF Next
  <2> QED
    BY <1>4, <2>1, BrowserKept, OrderKept DEF CommandLineInv
<1>5. ASSUME part = "front_ends" PROVE FrontInv'
  <2>1. FrontNext \/ UNCHANGED frontVars
    BY <1>5 DEF Next
  <2> QED
    BY <1>5, <2>1, FrontKept DEF CommandLineInv
<1> QED
  BY <1>1, <1>2, <1>3, <1>4, <1>5 DEF CommandLineInv

\* The invariant holds in every state of every behaviour.
THEOREM CommandLineInvHolds == Spec => []CommandLineInv
BY CommandLineStarts, CommandLineKept, PTL DEF Spec

\* What the writers of project information have asked for is what the file says of it, whatever
\* the order in which their updates come.
THEOREM ProjectsAlwaysStand == Spec => []ProjectsStand
<1>1. CommandLineInv => ProjectsStand
  BY ProjectHolds DEF CommandLineInv, ProjectsStand
<1> QED
  BY <1>1, CommandLineInvHolds, PTL

\* The environment of a worker is what the last of the layers of its session said of each key when
\* the session was created, for any number of files and any contents, through all restarts.
THEOREM LayersAlwaysInOrder == Spec => []LayersInOrder
<1>1. CommandLineInv => LayersInOrder
  BY LayersHold DEF CommandLineInv, LayersInOrder
<1> QED
  BY <1>1, CommandLineInvHolds, PTL

\* A profile that config validate approves of is accepted by config run, for any contents of the
\* profile and of its files.
THEOREM ValidatedAlwaysRuns == Spec => []ValidatedRuns
<1>1. CommandLineInv => ValidatedRuns
  BY ValidHolds DEF CommandLineInv, ValidatedRuns
<1> QED
  BY <1>1, CommandLineInvHolds, PTL

\* A key of the browser acts on the session that the screen marks, for any number of sessions and
\* any height of the terminal.
THEOREM MarkedRowAlwaysActed == Spec => []MarkedRowActed
<1>1. CommandLineInv => MarkedRowActed
  BY BrowserHolds DEF CommandLineInv, MarkedRowActed
<1> QED
  BY <1>1, CommandLineInvHolds, PTL

\* The rows of the interactive list are sessions that pass its filters, each once, in the order of
\* apply_list_order and no more than its limit, whatever keys are pressed and whatever others do.
THEOREM RowsAlwaysInOrder == Spec => [](part = "browser" => InOrder(order, rows))
<1>1. CommandLineInv => (part = "browser" => InOrder(order, rows))
  BY DEF CommandLineInv, OrderInv
<1> QED
  BY <1>1, CommandLineInvHolds, PTL

\* Rows that change have just been collected: they are the first of the sessions that pass the
\* filters then, as many as asked for, and none that is left out comes before one that is shown.
THEOREM FirstAlwaysShown ==
    Spec => [][part = "browser" /\ rows' # rows => FirstOf(order, rows, Shown)']_<<part, frontVars, projectVars, profileVars, browserVars>>
<1>1. ASSUME CommandLineInv, [Next]_<<part, frontVars, projectVars, profileVars, browserVars>>,
             part = "browser", rows' # rows
      PROVE  FirstOf(order, rows, Shown)'
  <2>1. BrowserNext \/ UNCHANGED browserVars
    BY <1>1 DEF Next
  <2> QED
    BY <1>1, <2>1, FirstAreShown DEF CommandLineInv
<1> QED
  BY <1>1, CommandLineInvHolds, PTL DEF Spec

\* The server and the command line come to the same for every request that both can be asked,
\* for any threads an adapter reports and any number of unusual fields.
THEOREM FrontEndsAlwaysSame == Spec => []FrontEndsSame
<1>1. CommandLineInv => FrontEndsSame
  BY FrontHolds DEF CommandLineInv, FrontEndsSame
<1> QED
  BY <1>1, CommandLineInvHolds, PTL

================================================================================
