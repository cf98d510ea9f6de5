-------------------------- MODULE HttpSessionProofs --------------------------
(* Proofs about HttpSession, for every set of cases and everything a handler may answer. *)
EXTENDS HttpSession, SetInduction, TLAPS

-----------------------------------------------------------------------------
(* The loops over the Set-Cookies of an answer. *)

\* The strings.  The provers do not know that a literal is one, so the literals that
\* name cookies are added by name.
Texts == STRING \cup {sessionCookieName, csrfCookieName, sessionID, csrfToken}

AnyCookie == [name : Texts, value : Texts, maxAge : Int]

\* Maps from names to values of a set.
MapsTo(C) == UNION {[D -> C] : D \in SUBSET Texts}

\* What a map is.
LEMMA MapTypes ==
    ASSUME NEW C, NEW f
    PROVE  f \in MapsTo(C) <=> /\ f = [x \in DOMAIN f |-> f[x]]
                               /\ DOMAIN f \in SUBSET Texts
                               /\ \A x \in DOMAIN f : f[x] \in C
  <1>1. ASSUME f \in MapsTo(C)
        PROVE  /\ f = [x \in DOMAIN f |-> f[x]]
               /\ DOMAIN f \in SUBSET Texts
               /\ \A x \in DOMAIN f : f[x] \in C
    <2>1. PICK D \in SUBSET Texts : f \in [D -> C]
      BY <1>1 DEF MapsTo
    <2> QED
      BY <2>1
  <1>2. ASSUME f = [x \in DOMAIN f |-> f[x]], DOMAIN f \in SUBSET Texts,
               \A x \in DOMAIN f : f[x] \in C
        PROVE  f \in MapsTo(C)
    <2>1. f \in [DOMAIN f -> C]
      BY <1>2
    <2> QED
      BY <1>2, <2>1 DEF MapsTo
  <1> QED
    BY <1>1, <1>2

\* Assigning a key of a map and deleting one.
LEMMA PutTypes ==
    ASSUME NEW C, NEW f \in MapsTo(C), NEW key \in Texts, NEW value \in C
    PROVE  /\ Put(f, key, value) \in MapsTo(C)
           /\ DOMAIN Put(f, key, value) = DOMAIN f \cup {key}
           /\ Put(f, key, value)[key] = value
           /\ \A x \in DOMAIN f : x # key => Put(f, key, value)[x] = f[x]
           /\ Restrict(f, DOMAIN f \ {key}) \in MapsTo(C)
           /\ DOMAIN Restrict(f, DOMAIN f \ {key}) = DOMAIN f \ {key}
           /\ \A x \in DOMAIN f : x # key => Restrict(f, DOMAIN f \ {key})[x] = f[x]
  <1>1. /\ DOMAIN f \in SUBSET Texts
        /\ \A x \in DOMAIN f : f[x] \in C
    BY MapTypes
  <1>2. Put(f, key, value) \in [DOMAIN f \cup {key} -> C]
    BY <1>1 DEF Put
  <1>3. Restrict(f, DOMAIN f \ {key}) \in [DOMAIN f \ {key} -> C]
    BY <1>1 DEF Restrict
  <1>4. Put(f, key, value) \in MapsTo(C) /\ Restrict(f, DOMAIN f \ {key}) \in MapsTo(C)
    BY <1>1, <1>2, <1>3 DEF MapsTo
  <1> QED
    BY <1>4 DEF Put, Restrict

\* The loop of store, iteration by iteration.
StoreLoop(cookies, set, kept) ==
    /\ kept \in [0 .. Len(set) -> MapsTo(AnyCookie)]
    /\ kept[0] = cookies
    /\ \A n \in 1 .. Len(set) : kept[n] = storeCookie(kept[n - 1], set[n])
    /\ store(cookies, set) = kept[Len(set)]

\* What store computes.
LEMMA StoreIterates ==
    ASSUME NEW cookies \in MapsTo(AnyCookie), NEW set \in Seq(AnyCookie)
    PROVE  \E kept : StoreLoop(cookies, set, kept)
  <1> DEFINE N == Len(set)
             T == MapsTo(AnyCookie)
             Loop(f) == [n \in 0 .. N |-> IF n = 0 THEN cookies ELSE storeCookie(f[n - 1], set[n])]
             step == [n \in 1 .. N |-> [f \in T |-> storeCookie(f, set[n])]]
  <1>1. step \in StepMaps(N, T)
    <2>1. ASSUME NEW n \in 1 .. N, NEW f \in T PROVE storeCookie(f, set[n]) \in T
      <3>1. set[n] \in AnyCookie
        OBVIOUS
      <3>2. set[n].name \in Texts
        BY <3>1 DEF AnyCookie
      <3> QED
        BY <3>1, <3>2, PutTypes DEF storeCookie
    <2> HIDE DEF T
    <2> QED
      BY <2>1 DEF StepMaps
  <1>2. N \in Nat
    OBVIOUS
  <1>3. PICK f : MadeBySteps(f, N, T, cookies, step)
    <2> HIDE DEF step, N
    <2> QED
      BY <1>1, <1>2, StepwiseFunction
  <1>4. /\ f \in [0 .. N -> T] /\ f[0] = cookies
        /\ \A n \in 1 .. N : f[n] = storeCookie(f[n - 1], set[n])
    <2>1. /\ f \in [0 .. N -> T] /\ f[0] = cookies
          /\ \A n \in 1 .. N : f[n] = step[n][f[n - 1]]
      BY <1>3 DEF MadeBySteps
    <2>2. ASSUME NEW n \in 1 .. N
          PROVE  step[n][f[n - 1]] = storeCookie(f[n - 1], set[n])
      <3>1. n - 1 \in 0 .. N
        OBVIOUS
      <3> HIDE DEF T
      <3>2. f[n - 1] \in T
        BY <2>1, <3>1
      <3> QED
        BY <3>2
    <2> QED
      BY <2>1, <2>2
  <1>5. f = Loop(f)
    BY <1>4
  <1> DEFINE kept == CHOOSE g : g = Loop(g)
  <1>6. store(cookies, set) = kept[N]
    BY DEF store
  <1>7. kept = Loop(kept)
    <2> HIDE DEF Loop
    <2> QED
      BY <1>5, Zenon
  <1> HIDE DEF kept
  <1> DEFINE S == {n \in 0 .. N : kept[n] = f[n]}
  <1>8. /\ kept[0] = cookies
        /\ \A n \in 1 .. N : kept[n] = storeCookie(kept[n - 1], set[n])
    <2>1. 0 \in 0 .. N /\ \A n \in 1 .. N : n \in 0 .. N /\ n # 0
      OBVIOUS
    <2> HIDE DEF N
    <2> QED
      BY <1>7, <2>1
  <1>9. \A n \in 0 .. N : n \in S
    <2>1. 0 \in S
      BY <1>4, <1>8
    <2>2. ASSUME NEW n \in 0 .. N, n < N, n \in S PROVE n + 1 \in S
      <3>1. n + 1 \in 1 .. N /\ n + 1 \in 0 .. N /\ (n + 1) - 1 = n
        BY <2>2
      <3>2. kept[n + 1] = storeCookie(kept[n], set[n + 1]) /\ f[n + 1] = storeCookie(f[n], set[n + 1])
        BY <1>4, <1>8, <3>1
      <3> QED
        BY <2>2, <3>1, <3>2
    <2> HIDE DEF S, N
    <2>3. \A n \in 0 .. N : n < N /\ n \in S => n + 1 \in S
      BY <2>2
    <2> QED
      BY <1>2, <2>1, <2>3, InductionUpTo
  <1>10. kept[N] = f[N]
    BY <1>2, <1>9
  <1> QED
    BY <1>4, <1>6, <1>10 DEF StoreLoop
\* The m-th of the first n Set-Cookies is the last of them with its name.
LastOf(set, n, m) == m \in 1 .. n /\ \A j \in m + 1 .. n : set[j].name # set[m].name

NoneOf(set, n, name) == \A j \in 1 .. n : set[j].name # name

\* A map that has, after n Set-Cookies, what the last of each name left, and for the other
\* names what it had before.
HoldsLast(kept, cookies, set, n) ==
    /\ \A m \in 1 .. n : LastOf(set, n, m) =>
          /\ set[m].name \in DOMAIN kept <=> set[m].maxAge >= 0
          /\ set[m].maxAge >= 0 => kept[set[m].name] = set[m]
    /\ \A name \in Texts : NoneOf(set, n, name) =>
          /\ name \in DOMAIN kept <=> name \in DOMAIN cookies
          /\ name \in DOMAIN cookies => kept[name] = cookies[name]

\* One more Set-Cookie is the last of its name; the others stay what they were.
LEMMA LastOfNext ==
    ASSUME NEW set, NEW n \in Nat
    PROVE  /\ \A m \in 1 .. n : LastOf(set, n + 1, m) =>
                 LastOf(set, n, m) /\ set[m].name # set[n + 1].name
           /\ \A name : NoneOf(set, n + 1, name) => NoneOf(set, n, name) /\ name # set[n + 1].name
  <1>1. ASSUME NEW m \in 1 .. n, LastOf(set, n + 1, m)
        PROVE  LastOf(set, n, m) /\ set[m].name # set[n + 1].name
    <2>1. n + 1 \in m + 1 .. n + 1 /\ \A j \in m + 1 .. n : j \in m + 1 .. n + 1
      OBVIOUS
    <2> QED
      BY <1>1, <2>1 DEF LastOf
  <1>2. ASSUME NEW name, NoneOf(set, n + 1, name)
        PROVE  NoneOf(set, n, name) /\ name # set[n + 1].name
    <2>1. n + 1 \in 1 .. n + 1 /\ \A j \in 1 .. n : j \in 1 .. n + 1
      OBVIOUS
    <2> QED
      BY <1>2, <2>1 DEF NoneOf
  <1> QED
    BY <1>1, <1>2

\* One iteration of store keeps it.
LEMMA StoreOneKeepsLast ==
    ASSUME NEW cookies, NEW set \in Seq(AnyCookie), NEW n \in Nat, n + 1 \in 1 .. Len(set),
           NEW kept \in MapsTo(AnyCookie), HoldsLast(kept, cookies, set, n)
    PROVE  HoldsLast(storeCookie(kept, set[n + 1]), cookies, set, n + 1)
  <1> DEFINE c == set[n + 1]
             next == storeCookie(kept, c)
  <1>1. c \in AnyCookie
    OBVIOUS
  <1>2. c.name \in Texts /\ c.maxAge \in Int
    BY <1>1 DEF AnyCookie
  <1> HIDE DEF c
  <1>3. /\ c.name \in DOMAIN next <=> c.maxAge >= 0
        /\ c.maxAge >= 0 => next[c.name] = c
        /\ \A name : name # c.name =>
              /\ name \in DOMAIN next <=> name \in DOMAIN kept
              /\ name \in DOMAIN kept => next[name] = kept[name]
    <2>1. CASE c.maxAge < 0
      <3>1. next = Restrict(kept, DOMAIN kept \ {c.name})
        BY <2>1 DEF storeCookie
      <3>2. DOMAIN next = DOMAIN kept \ {c.name} /\ \A x \in DOMAIN kept : x # c.name => next[x] = kept[x]
        <4> HIDE DEF next
        <4> QED
          BY <3>1 DEF Restrict
      <3>3. ~(c.maxAge >= 0)
        BY <1>2, <2>1
      <3> QED
        BY <3>2, <3>3
    <2>2. CASE ~(c.maxAge < 0)
      <3>1. next = Put(kept, c.name, c)
        BY <2>2 DEF storeCookie
      <3>2. /\ DOMAIN next = DOMAIN kept \cup {c.name} /\ next[c.name] = c
            /\ \A x \in DOMAIN kept : x # c.name => next[x] = kept[x]
        <4> HIDE DEF next
        <4> QED
          BY <3>1 DEF Put
      <3>3. c.maxAge >= 0
        BY <1>2, <2>2
      <3> QED
        BY <3>2, <3>3
    <2> QED
      BY <2>1, <2>2
  <1> HIDE DEF next
  <1>4. ASSUME NEW m \in 1 .. n + 1, LastOf(set, n + 1, m)
        PROVE  /\ set[m].name \in DOMAIN next <=> set[m].maxAge >= 0
               /\ set[m].maxAge >= 0 => next[set[m].name] = set[m]
    <2>1. CASE m = n + 1
      BY <1>3, <2>1 DEF c
    <2>2. CASE m \in 1 .. n
      <3>1. LastOf(set, n, m) /\ set[m].name # c.name
        BY <1>4, <2>2, LastOfNext DEF c
      <3>2. /\ set[m].name \in DOMAIN kept <=> set[m].maxAge >= 0
            /\ set[m].maxAge >= 0 => kept[set[m].name] = set[m]
        BY <2>2, <3>1 DEF HoldsLast
      <3> QED
        BY <1>3, <3>1, <3>2
    <2> QED
      BY <2>1, <2>2
  <1>5. ASSUME NEW name \in Texts, NoneOf(set, n + 1, name)
        PROVE  /\ name \in DOMAIN next <=> name \in DOMAIN cookies
               /\ name \in DOMAIN cookies => next[name] = cookies[name]
    <2>1. NoneOf(set, n, name) /\ name # c.name
      BY <1>5, LastOfNext DEF c
    <2>2. /\ name \in DOMAIN kept <=> name \in DOMAIN cookies
          /\ name \in DOMAIN cookies => kept[name] = cookies[name]
      BY <2>1 DEF HoldsLast
    <2> QED
      BY <1>3, <2>1, <2>2
  <1> QED
    BY <1>4, <1>5 DEF HoldsLast, next, c

\* store leaves the last Set-Cookie of each name in the jar, or what was there before.
LEMMA StoreHoldsLast ==
    ASSUME NEW cookies \in MapsTo(AnyCookie), NEW set \in Seq(AnyCookie)
    PROVE  /\ store(cookies, set) \in MapsTo(AnyCookie)
           /\ HoldsLast(store(cookies, set), cookies, set, Len(set))
  <1> DEFINE N == Len(set)
  <1>1. PICK kept : StoreLoop(cookies, set, kept)
    BY StoreIterates
  <1>2. /\ kept \in [0 .. N -> MapsTo(AnyCookie)]
        /\ kept[0] = cookies
        /\ \A n \in 1 .. N : kept[n] = storeCookie(kept[n - 1], set[n])
        /\ store(cookies, set) = kept[N]
        /\ N \in Nat
    BY <1>1 DEF StoreLoop
  <1> DEFINE S == {n \in 0 .. N : HoldsLast(kept[n], cookies, set, n)}
  <1>3. 0 \in S
    <2>1. HoldsLast(cookies, cookies, set, 0)
      BY DEF HoldsLast
    <2> QED
      BY <1>2, <2>1
  <1>4. ASSUME NEW n \in 0 .. N, n < N, n \in S PROVE n + 1 \in S
    <2>1. n \in Nat /\ n + 1 \in 1 .. N /\ n + 1 \in 0 .. N /\ (n + 1) - 1 = n
      BY <1>2, <1>4
    <2>2. kept[n] \in MapsTo(AnyCookie) /\ kept[n + 1] = storeCookie(kept[n], set[n + 1])
      BY <1>2, <2>1
    <2>3. HoldsLast(kept[n], cookies, set, n)
      BY <1>4
    <2>4. HoldsLast(storeCookie(kept[n], set[n + 1]), cookies, set, n + 1)
      BY <2>1, <2>2, <2>3, StoreOneKeepsLast
    <2> QED
      BY <2>1, <2>2, <2>4
  <1>5. \A n \in 0 .. N : n < N /\ n \in S => n + 1 \in S
    BY <1>4
  <1>6. \A n \in 0 .. N : n \in S
    <2> HIDE DEF S, N
    <2> QED
      BY <1>2, <1>3, <1>5, InductionUpTo
  <1>7. N \in S /\ kept[N] \in MapsTo(AnyCookie)
    BY <1>2, <1>6
  <1> QED
    BY <1>2, <1>7
\* A captured cookie, and one iteration of captureHTTPCookies.
CapturedCookie == [value : Texts, max_age : Int]

captureOne(captured, cookie, names) ==
    IF cookie.name \in names THEN Put(captured, cookie.name, normalizeHTTPCookie(cookie)) ELSE captured

\* The loop of captureHTTPCookies, iteration by iteration.
CaptureLoop(set, names, captured) ==
    /\ captured \in [0 .. Len(set) -> MapsTo(CapturedCookie)]
    /\ captured[0] = <<>>
    /\ \A n \in 1 .. Len(set) : captured[n] = captureOne(captured[n - 1], set[n], names)
    /\ captureHTTPCookies(set, names) = captured[Len(set)]

\* The map without a key.
LEMMA EmptyMap == ASSUME NEW C PROVE <<>> \in MapsTo(C)
  <1> DEFINE f == <<>>
  <1>1. DOMAIN f = {} /\ f = [x \in DOMAIN f |-> f[x]]
    OBVIOUS
  <1> QED
    BY <1>1, MapTypes

\* What captureHTTPCookies computes.
LEMMA CaptureIterates ==
    ASSUME NEW names, NEW set \in Seq(AnyCookie)
    PROVE  \E captured : CaptureLoop(set, names, captured)
  <1> DEFINE N == Len(set)
             T == MapsTo(CapturedCookie)
             Loop(f) == [n \in 0 .. N |-> IF n = 0 THEN <<>> ELSE captureOne(f[n - 1], set[n], names)]
             step == [n \in 1 .. N |-> [f \in T |-> captureOne(f, set[n], names)]]
  <1>1. step \in StepMaps(N, T)
    <2>1. ASSUME NEW n \in 1 .. N, NEW f \in T PROVE captureOne(f, set[n], names) \in T
      <3>1. set[n] \in AnyCookie
        OBVIOUS
      <3>2. set[n].name \in Texts /\ normalizeHTTPCookie(set[n]) \in CapturedCookie
        BY <3>1 DEF AnyCookie, CapturedCookie, normalizeHTTPCookie
      <3> QED
        BY <3>2, PutTypes DEF captureOne
    <2> HIDE DEF T
    <2> QED
      BY <2>1 DEF StepMaps
  <1>2. N \in Nat /\ <<>> \in T
    BY EmptyMap
  <1>3. PICK f : MadeBySteps(f, N, T, <<>>, step)
    <2> HIDE DEF step, N
    <2> QED
      BY <1>1, <1>2, StepwiseFunction
  <1>4. /\ f \in [0 .. N -> T] /\ f[0] = <<>>
        /\ \A n \in 1 .. N : f[n] = captureOne(f[n - 1], set[n], names)
    <2>1. /\ f \in [0 .. N -> T] /\ f[0] = <<>>
          /\ \A n \in 1 .. N : f[n] = step[n][f[n - 1]]
      BY <1>3 DEF MadeBySteps
    <2>2. ASSUME NEW n \in 1 .. N
          PROVE  step[n][f[n - 1]] = captureOne(f[n - 1], set[n], names)
      <3>1. n - 1 \in 0 .. N
        OBVIOUS
      <3> HIDE DEF T
      <3>2. f[n - 1] \in T
        BY <2>1, <3>1
      <3> QED
        BY <3>2
    <2> QED
      BY <2>1, <2>2
  <1>5. f = Loop(f)
    BY <1>4
  <1> DEFINE captured == CHOOSE g : g = Loop(g)
  <1>6. captureHTTPCookies(set, names) = captured[N]
    BY DEF captureHTTPCookies, captureOne
  <1>7. captured = Loop(captured)
    <2> HIDE DEF Loop
    <2> QED
      BY <1>5, Zenon
  <1> HIDE DEF captured
  <1> DEFINE S == {n \in 0 .. N : captured[n] = f[n]}
  <1>8. /\ captured[0] = <<>>
        /\ \A n \in 1 .. N : captured[n] = captureOne(captured[n - 1], set[n], names)
    <2>1. 0 \in 0 .. N /\ \A n \in 1 .. N : n \in 0 .. N /\ n # 0
      OBVIOUS
    <2> HIDE DEF N
    <2> QED
      BY <1>7, <2>1
  <1>9. \A n \in 0 .. N : n \in S
    <2>1. 0 \in S
      BY <1>4, <1>8
    <2>2. ASSUME NEW n \in 0 .. N, n < N, n \in S PROVE n + 1 \in S
      <3>1. n + 1 \in 1 .. N /\ n + 1 \in 0 .. N /\ (n + 1) - 1 = n
        BY <2>2
      <3>2. /\ captured[n + 1] = captureOne(captured[n], set[n + 1], names)
            /\ f[n + 1] = captureOne(f[n], set[n + 1], names)
        BY <1>4, <1>8, <3>1
      <3> QED
        BY <2>2, <3>1, <3>2
    <2> HIDE DEF S, N
    <2>3. \A n \in 0 .. N : n < N /\ n \in S => n + 1 \in S
      BY <2>2
    <2> QED
      BY <1>2, <2>1, <2>3, InductionUpTo
  <1>10. captured[N] = f[N]
    BY <1>2, <1>9
  <1> QED
    BY <1>4, <1>6, <1>10 DEF CaptureLoop

\* A captured cookie is the last of its name.
CapturesLast(captured, names, set, n) ==
    /\ DOMAIN captured \subseteq names
    /\ \A name \in DOMAIN captured : \E m \in 1 .. n :
          /\ LastOf(set, n, m) /\ set[m].name = name
          /\ captured[name] = normalizeHTTPCookie(set[m])

\* One iteration of captureHTTPCookies keeps it.
LEMMA CaptureOneKeepsLast ==
    ASSUME NEW names, NEW set \in Seq(AnyCookie), NEW n \in Nat, n + 1 \in 1 .. Len(set),
           NEW captured, CapturesLast(captured, names, set, n)
    PROVE  CapturesLast(captureOne(captured, set[n + 1], names), names, set, n + 1)
  <1> DEFINE c == set[n + 1]
             next == captureOne(captured, c, names)
  <1>1. LastOf(set, n + 1, n + 1) /\ n + 1 \in 1 .. n + 1
    BY DEF LastOf
  <1>2. ASSUME NEW m \in 1 .. n, LastOf(set, n, m), set[m].name # c.name
        PROVE  LastOf(set, n + 1, m) /\ m \in 1 .. n + 1
    <2>1. \A j \in m + 1 .. n + 1 : j \in m + 1 .. n \/ j = n + 1
      OBVIOUS
    <2> QED
      BY <1>2, <2>1 DEF LastOf
  <1> HIDE DEF c
  <1>3. CASE c.name \in names
    <2>1. next = Put(captured, c.name, normalizeHTTPCookie(c))
      BY <1>3 DEF captureOne
    <2> HIDE DEF next
    <2>2. /\ DOMAIN next = DOMAIN captured \cup {c.name}
          /\ next[c.name] = normalizeHTTPCookie(c)
          /\ \A x \in DOMAIN captured : x # c.name => next[x] = captured[x]
      BY <2>1 DEF Put
    <2>3. ASSUME NEW name \in DOMAIN next
          PROVE  \E m \in 1 .. n + 1 : /\ LastOf(set, n + 1, m) /\ set[m].name = name
                                       /\ next[name] = normalizeHTTPCookie(set[m])
      <3>1. CASE name = c.name
        BY <1>1, <2>2, <3>1 DEF c
      <3>2. CASE name # c.name
        <4>1. name \in DOMAIN captured /\ next[name] = captured[name]
          BY <2>2, <3>2
        <4>2. PICK m \in 1 .. n : /\ LastOf(set, n, m) /\ set[m].name = name
                                  /\ captured[name] = normalizeHTTPCookie(set[m])
          BY <4>1 DEF CapturesLast
        <4> QED
          BY <1>2, <3>2, <4>1, <4>2
      <3> QED
        BY <3>1, <3>2
    <2> QED
      BY <1>3, <2>2, <2>3 DEF CapturesLast, next, c
  <1>4. CASE c.name \notin names
    <2>1. next = captured
      BY <1>4 DEF captureOne
    <2>2. ASSUME NEW name \in DOMAIN captured
          PROVE  \E m \in 1 .. n + 1 : /\ LastOf(set, n + 1, m) /\ set[m].name = name
                                       /\ captured[name] = normalizeHTTPCookie(set[m])
      <3>1. name # c.name
        BY <1>4 DEF CapturesLast
      <3>2. PICK m \in 1 .. n : /\ LastOf(set, n, m) /\ set[m].name = name
                                /\ captured[name] = normalizeHTTPCookie(set[m])
        BY DEF CapturesLast
      <3> QED
        BY <1>2, <3>1, <3>2
    <2>3. CapturesLast(captured, names, set, n + 1)
      BY <2>2 DEF CapturesLast
    <2> QED
      BY <2>1, <2>3 DEF c
  <1> QED
    BY <1>3, <1>4

\* captureHTTPCookies captures the last cookie of each name.
LEMMA CaptureHoldsLast ==
    ASSUME NEW names, NEW set \in Seq(AnyCookie)
    PROVE  CapturesLast(captureHTTPCookies(set, names), names, set, Len(set))
  <1> DEFINE N == Len(set)
  <1>1. PICK captured : CaptureLoop(set, names, captured)
    BY CaptureIterates
  <1>2. /\ captured[0] = <<>>
        /\ \A n \in 1 .. N : captured[n] = captureOne(captured[n - 1], set[n], names)
        /\ captureHTTPCookies(set, names) = captured[N]
        /\ N \in Nat
    BY <1>1 DEF CaptureLoop
  <1> DEFINE S == {n \in 0 .. N : CapturesLast(captured[n], names, set, n)}
  <1>3. 0 \in S
    <2>1. CapturesLast(<<>>, names, set, 0)
      BY DEF CapturesLast
    <2> QED
      BY <1>2, <2>1
  <1>4. ASSUME NEW n \in 0 .. N, n < N, n \in S PROVE n + 1 \in S
    <2>1. n \in Nat /\ n + 1 \in 1 .. N /\ n + 1 \in 0 .. N /\ (n + 1) - 1 = n
      BY <1>2, <1>4
    <2>2. captured[n + 1] = captureOne(captured[n], set[n + 1], names)
      BY <1>2, <2>1
    <2>3. CapturesLast(captured[n], names, set, n)
      BY <1>4
    <2>4. CapturesLast(captureOne(captured[n], set[n + 1], names), names, set, n + 1)
      BY <2>1, <2>3, CaptureOneKeepsLast
    <2> QED
      BY <2>1, <2>2, <2>4
  <1>5. \A n \in 0 .. N : n < N /\ n \in S => n + 1 \in S
    BY <1>4
  <1>6. \A n \in 0 .. N : n \in S
    <2> HIDE DEF S, N
    <2> QED
      BY <1>2, <1>3, <1>5, InductionUpTo
  <1>7. N \in S
    BY <1>2, <1>6
  <1> QED
    BY <1>2, <1>7

\* A name that occurs has a last occurrence.
LEMMA LastExists ==
    ASSUME NEW set, NEW n \in Nat, NEW name, ~NoneOf(set, n, name)
    PROVE  \E m \in 1 .. n : LastOf(set, n, m) /\ set[m].name = name
  <1> DEFINE T == {k \in 0 .. n - 1 : set[n - k].name = name}
  <1>1. PICK j \in 1 .. n : set[j].name = name
    BY DEF NoneOf
  <1>2. n - j \in T
    <2>1. n - j \in 0 .. n - 1 /\ n - (n - j) = j
      OBVIOUS
    <2> QED
      BY <1>1, <2>1
  <1>3. T \in SUBSET Nat
    OBVIOUS
  <1>4. PICK k \in T : \A l \in T : k <= l
    <2> HIDE DEF T
    <2> QED
      BY <1>2, <1>3, LeastMember
  <1>5. n - k \in 1 .. n /\ set[n - k].name = name
    BY <1>4
  <1>6. ASSUME NEW i \in (n - k) + 1 .. n, set[i].name = name PROVE FALSE
    <2>1. n - i \in 0 .. n - 1 /\ n - (n - i) = i /\ n - i < k
      BY <1>4
    <2>2. n - i \in T
      BY <1>6, <2>1
    <2> QED
      BY <1>4, <2>1, <2>2
  <1> QED
    BY <1>5, <1>6 DEF LastOf

-----------------------------------------------------------------------------
(* The calls of a case. *)

\* The log has the answers of the calls that were served.
LogTyped ==
    /\ \E S : log \in Seq(S)
    /\ \A i \in DOMAIN log : log[i].served => log[i].answer.cookies \in Seq(AnyCookie)

\* One more call that was served adds its Set-Cookies behind all others.
LEMMA AnswerComesLast ==
    ASSUME LogTyped, NEW e, log' = Append(log, e), e.served, NEW set, set = e.answer.cookies,
           set \in Seq(AnyCookie), NEW here, here = Len(log) + 1
    PROVE  /\ \A p \in AllSet : p \in AllSet' /\ SetAt(p)' = SetAt(p) /\ p[1] < here
           /\ \A j \in 1 .. Len(set) : <<here, j>> \in AllSet' /\ SetAt(<<here, j>>)' = set[j]
           /\ \A p \in AllSet' : p \in AllSet \/ \E j \in 1 .. Len(set) : p = <<here, j>>
  <1>1. PICK S : log \in Seq(S)
    BY DEF LogTyped
  <1>2. /\ Len(log) \in Nat /\ DOMAIN log = 1 .. Len(log) /\ DOMAIN log' = 1 .. Len(log) + 1
        /\ \A i \in 1 .. Len(log) : log'[i] = log[i]
        /\ log'[Len(log) + 1] = e
    BY <1>1
  <1>3. DOMAIN log' = DOMAIN log \cup {here} /\ log'[here] = e /\ \A i \in DOMAIN log : log'[i] = log[i] /\ i < here
    BY <1>2
  <1>4. DOMAIN set = 1 .. Len(set)
    OBVIOUS
  <1>5. \A p : p \in AllSet <=> \E i \in DOMAIN log : log[i].served /\ \E j \in DOMAIN log[i].answer.cookies : p = <<i, j>>
    BY DEF AllSet, Served
  <1>6. \A p : p \in AllSet' <=> \E i \in DOMAIN log' : log'[i].served /\ \E j \in DOMAIN log'[i].answer.cookies : p = <<i, j>>
    BY DEF AllSet, Served
  <1>7. ASSUME NEW p \in AllSet
        PROVE  p \in AllSet' /\ SetAt(p)' = SetAt(p) /\ p[1] < here
    <2>1. PICK i \in DOMAIN log : log[i].served /\ \E j \in DOMAIN log[i].answer.cookies : p = <<i, j>>
      BY <1>5
    <2>2. PICK j \in DOMAIN log[i].answer.cookies : p = <<i, j>>
      BY <2>1
    <2>3. i \in DOMAIN log' /\ log'[i] = log[i] /\ i < here
      BY <1>3
    <2>4. p \in AllSet'
      BY <1>6, <2>1, <2>2, <2>3
    <2>5. p[1] = i /\ p[2] = j
      BY <2>2
    <2> QED
      BY <2>3, <2>4, <2>5 DEF SetAt
  <1>8. ASSUME NEW j \in 1 .. Len(set)
        PROVE  <<here, j>> \in AllSet' /\ SetAt(<<here, j>>)' = set[j]
    <2>1. here \in DOMAIN log' /\ log'[here].served /\ j \in DOMAIN log'[here].answer.cookies
      BY <1>3, <1>4
    <2>2. <<here, j>> \in AllSet'
      BY <1>6, <2>1
    <2>3. SetAt(<<here, j>>)' = log'[here].answer.cookies[j]
      BY DEF SetAt
    <2> QED
      BY <1>3, <2>2, <2>3
  <1>9. ASSUME NEW p \in AllSet'
        PROVE  p \in AllSet \/ \E j \in 1 .. Len(set) : p = <<here, j>>
    <2>1. PICK i \in DOMAIN log' : log'[i].served /\ \E j \in DOMAIN log'[i].answer.cookies : p = <<i, j>>
      BY <1>6
    <2>2. CASE i = here
      BY <1>3, <1>4, <2>1, <2>2
    <2>3. CASE i \in DOMAIN log
      BY <1>3, <1>5, <2>1, <2>3
    <2> QED
      BY <1>3, <2>2, <2>3
  <1> QED
    BY <1>7, <1>8, <1>9
\* So the last Set-Cookies are then the last ones of its answer, and of the earlier ones those
\* whose name the answer does not have.
LEMMA AnswerMovesLast ==
    ASSUME LogTyped, NEW e, log' = Append(log, e), e.served, NEW set, set = e.answer.cookies,
           set \in Seq(AnyCookie), NEW here, here = Len(log) + 1
    PROVE  /\ \A p \in LastSet' :
                 \/ p \in LastSet /\ NoneOf(set, Len(set), SetAt(p).name) /\ SetAt(p)' = SetAt(p)
                 \/ \E m \in 1 .. Len(set) : LastOf(set, Len(set), m) /\ SetAt(p)' = set[m]
           /\ \A p \in LastSet : NoneOf(set, Len(set), SetAt(p).name) =>
                 p \in LastSet' /\ SetAt(p)' = SetAt(p)
           /\ \A m \in 1 .. Len(set) : LastOf(set, Len(set), m) =>
                 <<here, m>> \in LastSet' /\ SetAt(<<here, m>>)' = set[m]
  <1> DEFINE N == Len(set)
  <1>0. N \in Nat /\ here \in Nat
    <2>1. PICK S : log \in Seq(S)
      BY DEF LogTyped
    <2> QED
      BY <2>1
  <1>1. /\ \A p \in AllSet : p \in AllSet' /\ SetAt(p)' = SetAt(p) /\ p[1] < here /\ p[1] \in Nat
        /\ \A j \in 1 .. N : <<here, j>> \in AllSet' /\ SetAt(<<here, j>>)' = set[j]
        /\ \A p \in AllSet' : p \in AllSet \/ \E j \in 1 .. N : p = <<here, j>>
    <2>1. \A p \in AllSet : p[1] \in Nat
      <3>1. PICK S : log \in Seq(S)
        BY DEF LogTyped
      <3>2. \A i \in DOMAIN log : i \in Nat
        BY <3>1
      <3>3. \A p \in AllSet : \E i \in DOMAIN log : \E j \in DOMAIN log[i].answer.cookies : p = <<i, j>>
        BY DEF AllSet, Served
      <3> QED
        BY <3>2, <3>3
    <2> QED
      BY <2>1, AnswerComesLast
  <1>2. \A p : p \in LastSet <=> p \in AllSet /\ \A q \in AllSet : Later(p, q) => SetAt(q).name # SetAt(p).name
    BY DEF LastSet
  <1>3. \A p : p \in LastSet' <=>
           p \in AllSet' /\ \A q \in AllSet' : Later(p, q) => SetAt(q)'.name # SetAt(p)'.name
    BY DEF LastSet, Later
  <1>4. ASSUME NEW p \in AllSet, NEW j \in 1 .. N PROVE Later(p, <<here, j>>)
    BY <1>1 DEF Later
  <1>5. ASSUME NEW p \in AllSet, NEW j \in 1 .. N PROVE ~Later(<<here, j>>, p)
    BY <1>0, <1>1 DEF Later
  <1>6. ASSUME NEW i \in 1 .. N, NEW j \in 1 .. N PROVE Later(<<here, i>>, <<here, j>>) <=> i < j
    BY <1>0 DEF Later
  <1>7. ASSUME NEW p \in AllSet, p \in LastSet'
        PROVE  p \in LastSet /\ NoneOf(set, N, SetAt(p).name) /\ SetAt(p)' = SetAt(p)
    <2>1. p \in LastSet
      BY <1>1, <1>2, <1>3, <1>7
    <2>2. ASSUME NEW j \in 1 .. N PROVE set[j].name # SetAt(p).name
      <3>1. <<here, j>> \in AllSet' /\ SetAt(<<here, j>>)' = set[j] /\ Later(p, <<here, j>>)
        BY <1>1, <1>4
      <3>2. SetAt(p)' = SetAt(p)
        BY <1>1
      <3>3. SetAt(<<here, j>>)'.name # SetAt(p)'.name
        BY <1>3, <1>7, <3>1
      <3> QED
        BY <3>1, <3>2, <3>3
    <2> QED
      BY <1>1, <2>1, <2>2 DEF NoneOf
  <1>8. ASSUME NEW m \in 1 .. N, <<here, m>> \in LastSet'
        PROVE  LastOf(set, N, m) /\ SetAt(<<here, m>>)' = set[m]
    <2>1. ASSUME NEW j \in m + 1 .. N PROVE set[j].name # set[m].name
      <3>1. j \in 1 .. N /\ m < j
        BY <1>0
      <3>2. Later(<<here, m>>, <<here, j>>) /\ <<here, j>> \in AllSet' /\ SetAt(<<here, j>>)' = set[j]
        BY <1>1, <1>6, <3>1
      <3>3. SetAt(<<here, m>>)' = set[m]
        BY <1>1
      <3> QED
        BY <1>3, <1>8, <3>2, <3>3
    <2> QED
      BY <1>1, <2>1 DEF LastOf
  <1>9. ASSUME NEW p \in LastSet, NoneOf(set, N, SetAt(p).name)
        PROVE  p \in LastSet' /\ SetAt(p)' = SetAt(p)
    <2>1. p \in AllSet /\ p \in AllSet' /\ SetAt(p)' = SetAt(p)
      BY <1>1, <1>2
    <2>2. ASSUME NEW q \in AllSet', Later(p, q) PROVE SetAt(q)'.name # SetAt(p)'.name
      <3>1. CASE q \in AllSet
        BY <1>1, <1>2, <2>1, <2>2, <3>1
      <3>2. CASE \E j \in 1 .. N : q = <<here, j>>
        BY <1>1, <1>9, <2>1, <3>2 DEF NoneOf
      <3> QED
        BY <1>1, <3>1, <3>2
    <2> QED
      BY <1>3, <2>1, <2>2
  <1>10. ASSUME NEW m \in 1 .. N, LastOf(set, N, m)
         PROVE  <<here, m>> \in LastSet' /\ SetAt(<<here, m>>)' = set[m]
    <2>1. <<here, m>> \in AllSet' /\ SetAt(<<here, m>>)' = set[m]
      BY <1>1
    <2>2. ASSUME NEW q \in AllSet', Later(<<here, m>>, q)
          PROVE  SetAt(q)'.name # SetAt(<<here, m>>)'.name
      <3>1. q \notin AllSet
        BY <1>5, <2>2
      <3>2. PICK j \in 1 .. N : q = <<here, j>>
        BY <1>1, <3>1
      <3>3. j \in m + 1 .. N
        BY <1>0, <1>6, <2>2, <3>2
      <3>4. SetAt(q)' = set[j]
        BY <1>1, <3>2
      <3> QED
        BY <1>10, <2>1, <3>3, <3>4 DEF LastOf
    <2> QED
      BY <1>3, <2>1, <2>2
  <1>11. ASSUME NEW p \in LastSet'
         PROVE  \/ p \in LastSet /\ NoneOf(set, N, SetAt(p).name) /\ SetAt(p)' = SetAt(p)
                \/ \E m \in 1 .. N : LastOf(set, N, m) /\ SetAt(p)' = set[m]
    <2>1. p \in AllSet'
      BY <1>3
    <2>2. CASE p \in AllSet
      BY <1>7, <2>2
    <2>3. CASE \E m \in 1 .. N : p = <<here, m>>
      BY <1>8, <2>3
    <2> QED
      BY <1>1, <2>1, <2>2, <2>3
  <1> QED
    BY <1>9, <1>10, <1>11
\* The jar that takes the cookies of an answer has the last of all Set-Cookies again.
LEMMA StoredIsLast ==
    ASSUME LogTyped, jar \in MapsTo(AnyCookie), JarIsLastSet, case.jar,
           NEW e, log' = Append(log, e), e.served, NEW set, set = e.answer.cookies,
           set \in Seq(AnyCookie), jar' = store(jar, set), case' = case
    PROVE  JarIsLastSet'
  <1> DEFINE N == Len(set)
             stored == {p \in LastSet : SetAt(p).maxAge >= 0}
  <1>1. PICK here : here = Len(log) + 1
    OBVIOUS
  <1>2. /\ \A p \in LastSet' :
              \/ p \in LastSet /\ NoneOf(set, N, SetAt(p).name) /\ SetAt(p)' = SetAt(p)
              \/ \E m \in 1 .. N : LastOf(set, N, m) /\ SetAt(p)' = set[m]
        /\ \A p \in LastSet : NoneOf(set, N, SetAt(p).name) => p \in LastSet' /\ SetAt(p)' = SetAt(p)
        /\ \A m \in 1 .. N : LastOf(set, N, m) =>
              <<here, m>> \in LastSet' /\ SetAt(<<here, m>>)' = set[m]
    BY <1>1, AnswerMovesLast
  <1>3. /\ DOMAIN jar = {SetAt(p).name : p \in stored}
        /\ \A p \in stored : jar[SetAt(p).name] = SetAt(p)
    BY DEF JarIsLastSet
  <1>4. /\ jar' \in MapsTo(AnyCookie)
        /\ HoldsLast(jar', jar, set, N)
    BY StoreHoldsLast
  <1>5. /\ \A m \in 1 .. N : LastOf(set, N, m) =>
              /\ set[m].name \in DOMAIN jar' <=> set[m].maxAge >= 0
              /\ set[m].maxAge >= 0 => jar'[set[m].name] = set[m]
        /\ \A name \in Texts : NoneOf(set, N, name) =>
              /\ name \in DOMAIN jar' <=> name \in DOMAIN jar
              /\ name \in DOMAIN jar => jar'[name] = jar[name]
    BY <1>4 DEF HoldsLast
  <1>6. DOMAIN jar \in SUBSET Texts /\ DOMAIN jar' \in SUBSET Texts /\ N \in Nat
    BY <1>4, MapTypes
  <1>7. ASSUME NEW p \in LastSet', SetAt(p)'.maxAge >= 0
        PROVE  SetAt(p)'.name \in DOMAIN jar' /\ jar'[SetAt(p)'.name] = SetAt(p)'
    <2>1. CASE p \in LastSet /\ NoneOf(set, N, SetAt(p).name) /\ SetAt(p)' = SetAt(p)
      <3>1. p \in stored
        BY <1>7, <2>1
      <3>2. SetAt(p).name \in DOMAIN jar /\ jar[SetAt(p).name] = SetAt(p)
        BY <1>3, <3>1
      <3>3. SetAt(p).name \in Texts
        BY <1>6, <3>2
      <3> QED
        BY <1>5, <2>1, <3>2, <3>3
    <2>2. CASE \E m \in 1 .. N : LastOf(set, N, m) /\ SetAt(p)' = set[m]
      BY <1>5, <1>7, <2>2
    <2> QED
      BY <1>2, <2>1, <2>2
  <1>8. ASSUME NEW name \in DOMAIN jar'
        PROVE  \E p \in LastSet' : SetAt(p)'.maxAge >= 0 /\ SetAt(p)'.name = name
    <2>1. CASE NoneOf(set, N, name)
      <3>1. name \in DOMAIN jar
        BY <1>5, <1>6, <2>1
      <3>2. PICK p \in stored : SetAt(p).name = name
        BY <1>3, <3>1
      <3>3. p \in LastSet' /\ SetAt(p)' = SetAt(p)
        BY <1>2, <2>1, <3>2
      <3> QED
        BY <3>2, <3>3
    <2>2. CASE ~NoneOf(set, N, name)
      <3>1. PICK m \in 1 .. N : LastOf(set, N, m) /\ set[m].name = name
        BY <1>6, <2>2, LastExists
      <3>2. set[m].maxAge >= 0
        BY <1>5, <3>1
      <3>3. <<here, m>> \in LastSet' /\ SetAt(<<here, m>>)' = set[m]
        BY <1>2, <3>1
      <3> QED
        BY <3>1, <3>2, <3>3
    <2> QED
      BY <2>1, <2>2
  <1>9. DOMAIN jar' = {SetAt(p)' .name : p \in {q \in LastSet' : SetAt(q)'.maxAge >= 0}}
    BY <1>7, <1>8
  <1>10. \A p \in {q \in LastSet' : SetAt(q)'.maxAge >= 0} : jar'[SetAt(p)'.name] = SetAt(p)'
    BY <1>7
  <1> QED
    BY <1>9, <1>10 DEF JarIsLastSet

\* A call that was not served leaves the Set-Cookies as they are.
LEMMA RefusedKeepsLast ==
    ASSUME LogTyped, JarIsLastSet, NEW e, log' = Append(log, e), ~e.served, jar' = jar, case' = case
    PROVE  JarIsLastSet'
  <1>1. PICK S : log \in Seq(S)
    BY DEF LogTyped
  <1>2. /\ Len(log) \in Nat /\ DOMAIN log = 1 .. Len(log) /\ DOMAIN log' = 1 .. Len(log) + 1
        /\ \A i \in 1 .. Len(log) : log'[i] = log[i]
        /\ log'[Len(log) + 1] = e
    BY <1>1
  <1>3. Served' = Served /\ \A i \in Served : log'[i] = log[i]
    BY <1>2 DEF Served
  <1>4. AllSet' = AllSet
    <2>1. \A p : p \in AllSet <=> \E i \in DOMAIN log : log[i].served /\ \E j \in DOMAIN log[i].answer.cookies : p = <<i, j>>
      BY DEF AllSet, Served
    <2>2. \A p : p \in AllSet' <=> \E i \in DOMAIN log' : log'[i].served /\ \E j \in DOMAIN log'[i].answer.cookies : p = <<i, j>>
      BY DEF AllSet, Served
    <2>3. \A p : p \in AllSet' <=> p \in AllSet
      <3>1. \A i : i \in DOMAIN log' /\ log'[i].served <=> i \in DOMAIN log /\ log[i].served
        BY <1>2
      <3>2. \A i \in DOMAIN log : log'[i] = log[i]
        BY <1>2
      <3> QED
        BY <2>1, <2>2, <3>1, <3>2
    <2> QED
      BY <2>3
  <1>5. ASSUME NEW p \in AllSet PROVE SetAt(p)' = SetAt(p)
    <2>1. \E i \in Served : \E j \in DOMAIN log[i].answer.cookies : p = <<i, j>>
      BY DEF AllSet
    <2>2. p[1] \in Served
      BY <2>1
    <2> QED
      BY <1>3, <2>2 DEF SetAt
  <1>6. LastSet' = LastSet /\ \A p \in LastSet : p \in AllSet
    BY <1>4, <1>5 DEF LastSet, Later
  <1> QED
    BY <1>5, <1>6 DEF JarIsLastSet
\* Every answer has a list of cookies, that of the API too.
LEMMA AnswerTypes ==
    ASSUME NEW sent, NEW reply \in Serve(sent)
    PROVE  reply.answer.cookies \in Seq(AnyCookie)
  <1>1. CASE case.handler = "api"
    <2>1. reply = ServeHTTP(sessions, sent)
      BY <1>1 DEF Serve
    <2>2. /\ Cookie(sessionCookieName, sessionID, 0) \in AnyCookie
          /\ Cookie(csrfCookieName, csrfToken, 0) \in AnyCookie
      <3>1. \A name, value \in Texts : Cookie(name, value, 0) \in AnyCookie
        BY DEF Cookie, AnyCookie
      <3>2. /\ sessionCookieName \in Texts /\ sessionID \in Texts
            /\ csrfCookieName \in Texts /\ csrfToken \in Texts
        BY DEF Texts
      <3> QED
        BY <3>1, <3>2
    <2>3. << Cookie(sessionCookieName, sessionID, 0), Cookie(csrfCookieName, csrfToken, 0) >> \in Seq(AnyCookie)
      BY <2>2
    <2>4. handleLogin(sessions, sent).answer.cookies \in Seq(AnyCookie)
      BY <2>3 DEF handleLogin, writeJSON
    <2>5. handleMe(sessions, sent).answer.cookies = <<>>
      BY DEF handleMe, writeJSON
    <2>6. handleProfileEmail(sessions, sent).answer.cookies = <<>>
      BY DEF handleProfileEmail, writeJSON
    <2>7. handleReport(sessions, sent).answer.cookies = <<>>
      BY DEF handleReport, writeJSON
    <2>8. [answer |-> writeJSON(404, "error"), sessions |-> sessions].answer.cookies = <<>>
      BY DEF writeJSON
    <2>9. <<>> \in Seq(AnyCookie)
      OBVIOUS
    <2> QED
      BY <2>1, <2>4, <2>5, <2>6, <2>7, <2>8, <2>9 DEF ServeHTTP
  <1>2. CASE case.handler # "api"
    <2>1. \A c \in HttpCookie : c \in AnyCookie
      BY DEF HttpCookie, AnyCookie, Texts
    <2>2. reply.answer.cookies \in Seq(HttpCookie)
      BY <1>2, AnswersAssumption DEF Serve
    <2> QED
      BY <2>1, <2>2
  <1> QED
    BY <1>1, <1>2

\* The invariant: the log and the jar have their types, and the jar the last Set-Cookies.
SessionInv ==
    /\ case \in Cases
    /\ jar \in MapsTo(AnyCookie)
    /\ LogTyped
    /\ JarIsLastSet

\* One more entry of the log, of a call that was refused or one with its answer.
LEMMA LogGrows ==
    ASSUME LogTyped, NEW e, log' = Append(log, e), e.served => e.answer.cookies \in Seq(AnyCookie)
    PROVE  LogTyped'
  <1>1. PICK S : log \in Seq(S)
    BY DEF LogTyped
  <1>2. /\ log' \in Seq(S \cup {e})
        /\ Len(log) \in Nat /\ DOMAIN log = 1 .. Len(log) /\ DOMAIN log' = 1 .. Len(log) + 1
        /\ \A i \in 1 .. Len(log) : log'[i] = log[i]
        /\ log'[Len(log) + 1] = e
    BY <1>1
  <1>3. ASSUME NEW i \in DOMAIN log', log'[i].served PROVE log'[i].answer.cookies \in Seq(AnyCookie)
    <2>1. CASE i \in DOMAIN log
      BY <1>2, <1>3, <2>1 DEF LogTyped
    <2>2. CASE i = Len(log) + 1
      BY <1>2, <1>3, <2>2
    <2> QED
      BY <1>2, <2>1, <2>2
  <1> QED
    BY <1>2, <1>3 DEF LogTyped

\* The entry of a call with an answer, and the step of such a call.
Entry(request, reply) ==
    LET body == normalizeHTTPResponseBody(request, reply.answer)
    IN  [request |-> request, served |-> TRUE, sent |-> httpRequest(request),
         answer |-> reply.answer, failed |-> body.error,
         response |-> IF body.error THEN <<>> ELSE NormalizeResponse(ResponseOf(request, reply.answer, body))]

ServedWith(request, reply) ==
    /\ jar' = Stored(request, reply.answer, normalizeHTTPResponseBody(request, reply.answer))
    /\ log' = Append(log, Entry(request, reply))

\* What a step gets to see of a cookie is the last Set-Cookie of that name.
LEMMA SeenIsLast ==
    ASSUME NEW request, NEW answer, NEW body, NEW set, set = answer.cookies,
           set \in Seq(AnyCookie), NEW response,
           response = NormalizeResponse(ResponseOf(request, answer, body)),
           "cookies" \in DOMAIN response, NEW name, name \in DOMAIN response.cookies
    PROVE  \E m \in 1 .. Len(set) :
              /\ LastOf(set, Len(set), m) /\ set[m].name = name
              /\ response.cookies[name].value = set[m].value
              /\ (/\ "max_age" \in DOMAIN response.cookies[name]
                  /\ response.cookies[name].max_age < 0) <=> set[m].maxAge < 0
  <1> DEFINE names == request.capture_cookies \ {""}
             seen == captureHTTPCookies(set, names)
             shown == normalizeCookiesForResponse(seen)
             R == ResponseOf(request, answer, body)
  <1>1. R.cookies = seen
    BY DEF ResponseOf
  <1>2. DOMAIN R = {"status", "headers", "cookies", "body"}
    BY DEF ResponseOf
  <1> HIDE DEF seen, R
  <1>3. response.cookies = shown
    <2> DEFINE normalized == [R EXCEPT !.cookies = normalizeCookiesForResponse(@)]
    <2>1. PICK present : response = Restrict(normalized, present)
      BY DEF NormalizeResponse, R
    <2>2. normalized.cookies = shown
      BY <1>1, <1>2
    <2> HIDE DEF normalized
    <2>3. DOMAIN response \subseteq present \cap DOMAIN response
      BY <2>1 DEF Restrict
    <2>4. response["cookies"] = normalized["cookies"]
      BY <2>1, <2>3 DEF Restrict
    <2> QED
      BY <2>2, <2>4
  <1>4. name \in DOMAIN seen
    BY <1>3 DEF normalizeCookiesForResponse
  <1>5. PICK m \in 1 .. Len(set) : /\ LastOf(set, Len(set), m) /\ set[m].name = name
                                   /\ seen[name] = normalizeHTTPCookie(set[m])
    <2>1. CapturesLast(seen, names, set, Len(set))
      BY CaptureHoldsLast DEF seen
    <2> QED
      BY <1>4, <2>1 DEF CapturesLast
  <1>6. set[m] \in AnyCookie
    OBVIOUS
  <1> DEFINE c == seen[name]
             fields == {"value"} \cup IF c.max_age # 0 THEN {"max_age"} ELSE {}
  <1>7. response.cookies[name] = Restrict(c, fields)
    BY <1>3, <1>4 DEF normalizeCookiesForResponse
  <1>8. DOMAIN c = {"value", "max_age"} /\ c.value = set[m].value /\ c.max_age = set[m].maxAge
    BY <1>5 DEF normalizeHTTPCookie
  <1>9. set[m].maxAge \in Int
    BY <1>6 DEF AnyCookie
  <1> HIDE DEF c
  <1>10. Restrict(c, fields).value = c.value
    BY DEF Restrict
  <1>11. "max_age" \in DOMAIN Restrict(c, fields) <=> c.max_age # 0
    BY <1>8 DEF Restrict
  <1>12. c.max_age # 0 => Restrict(c, fields).max_age = c.max_age
    BY DEF Restrict
  <1>13. (/\ "max_age" \in DOMAIN Restrict(c, fields)
          /\ Restrict(c, fields).max_age < 0) <=> set[m].maxAge < 0
    <2>1. CASE c.max_age = 0
      BY <1>8, <1>9, <1>11, <2>1
    <2>2. CASE c.max_age # 0
      BY <1>8, <1>9, <1>11, <1>12, <2>2
    <2> QED
      BY <2>1, <2>2
  <1> HIDE DEF fields
  <1> QED
    BY <1>5, <1>7, <1>8, <1>10, <1>13

\* A call that is served ends with the captured cookies in the jar.
LEMMA ServedAgrees ==
    ASSUME LogTyped, jar \in MapsTo(AnyCookie), case' = case, NEW request, NEW reply,
           ServedWith(request, reply), reply.answer.cookies \in Seq(AnyCookie)
    PROVE  CapturedAgreesWithJar'
  <1> DEFINE set == reply.answer.cookies
             e == Entry(request, reply)
             body == normalizeHTTPResponseBody(request, reply.answer)
  <1> SUFFICES ASSUME case'.jar, Last(log').served, "cookies" \in DOMAIN Last(log').response,
                      NEW name \in DOMAIN Last(log').response.cookies
               PROVE  IF /\ "max_age" \in DOMAIN Last(log').response.cookies[name]
                         /\ Last(log').response.cookies[name].max_age < 0
                      THEN name \notin DOMAIN jar'
                      ELSE name \in DOMAIN jar'
                           /\ jar'[name].value = Last(log').response.cookies[name].value
    BY DEF CapturedAgreesWithJar
  <1>1. log' = Append(log, e) /\ jar' = store(jar, set)
    BY DEF ServedWith, Stored
  <1>2. Last(log') = e
    <2>1. PICK S : log \in Seq(S)
      BY DEF LogTyped
    <2> HIDE DEF e
    <2> QED
      BY <1>1, <2>1 DEF Last
  <1>3. e.response = IF body.error THEN <<>> ELSE NormalizeResponse(ResponseOf(request, reply.answer, body))
    BY DEF Entry
  <1> DEFINE response == e.response
  <1>4. "cookies" \in DOMAIN response /\ name \in DOMAIN response.cookies
    BY <1>2
  <1>5. response = NormalizeResponse(ResponseOf(request, reply.answer, body))
    <2>1. "cookies" \notin DOMAIN <<>>
      OBVIOUS
    <2> HIDE DEF e, body
    <2> QED
      BY <1>3, <1>4, <2>1
  <1> HIDE DEF e, body, response
  <1>6. PICK m \in 1 .. Len(set) :
              /\ LastOf(set, Len(set), m) /\ set[m].name = name
              /\ response.cookies[name].value = set[m].value
              /\ (/\ "max_age" \in DOMAIN response.cookies[name]
                  /\ response.cookies[name].max_age < 0) <=> set[m].maxAge < 0
    BY <1>4, <1>5, SeenIsLast
  <1>7. /\ name \in DOMAIN jar' <=> set[m].maxAge >= 0
        /\ set[m].maxAge >= 0 => jar'[name] = set[m]
    <2>1. HoldsLast(jar', jar, set, Len(set))
      BY <1>1, StoreHoldsLast
    <2> QED
      BY <1>6, <2>1 DEF HoldsLast
  <1>8. set[m].maxAge \in Int
    <2>1. set[m] \in AnyCookie
      OBVIOUS
    <2> QED
      BY <2>1 DEF AnyCookie
  <1>9. set[m].maxAge < 0 <=> ~(set[m].maxAge >= 0)
    BY <1>8
  <1>10. Last(log').response = response
    BY <1>2 DEF response
  <1> QED
    BY <1>6, <1>7, <1>9, <1>10

\* Every call keeps it.
LEMMA SessionInductive == SessionInv /\ [Next]_vars => SessionInv'
  <1> SUFFICES ASSUME SessionInv, [Next]_vars PROVE SessionInv'
    OBVIOUS
  <1> USE DEF SessionInv
  <1>1. CASE InvokeRefused
    <2>1. PICK e : log' = Append(log, e) /\ ~e.served
      BY <1>1 DEF InvokeRefused
    <2>2. case' = case /\ jar' = jar
      BY <1>1 DEF InvokeRefused
    <2>3. LogTyped'
      BY <2>1, LogGrows
    <2>4. JarIsLastSet'
      BY <2>1, <2>2, RefusedKeepsLast
    <2> QED
      BY <2>2, <2>3, <2>4
  <1>2. CASE InvokeServed
    <2>1. PICK request, reply, e, body :
             /\ reply \in Serve(httpRequest(request))
             /\ jar' = Stored(request, reply.answer, body)
             /\ log' = Append(log, e) /\ e.served /\ e.answer = reply.answer
      <3>1. PICK request \in case.requests : \E reply \in Serve(httpRequest(request)) :
               ServedWith(request, reply)
        BY <1>2, Zenon DEF InvokeServed, ServedWith, Entry
      <3>2. PICK reply \in Serve(httpRequest(request)) : ServedWith(request, reply)
        BY <3>1
      <3> DEFINE e == Entry(request, reply)
                 body == normalizeHTTPResponseBody(request, reply.answer)
      <3>3. jar' = Stored(request, reply.answer, body) /\ log' = Append(log, e)
        BY <3>2 DEF ServedWith, Entry
      <3>4. e.served /\ e.answer = reply.answer
        BY DEF Entry
      <3> HIDE DEF e, body
      <3> QED
        BY <3>2, <3>3, <3>4
    <2>2. case' = case
      BY <1>2 DEF InvokeServed
    <2>3. PICK set : set = e.answer.cookies /\ set = reply.answer.cookies
      BY <2>1
    <2>4. set \in Seq(AnyCookie)
      BY <2>1, <2>3, AnswerTypes
    <2>5. LogTyped'
      BY <2>1, <2>3, <2>4, LogGrows
    <2>6. CASE case.jar
      <3>1. jar' = store(jar, set)
        BY <2>1, <2>3, <2>6 DEF Stored
      <3>2. JarIsLastSet'
        BY <2>1, <2>2, <2>3, <2>4, <2>6, <3>1, StoredIsLast
      <3>3. jar' \in MapsTo(AnyCookie)
        BY <2>4, <3>1, StoreHoldsLast
      <3> QED
        BY <2>2, <2>5, <3>2, <3>3
    <2>7. CASE ~case.jar
      <3>1. jar' = jar
        BY <2>1, <2>7 DEF Stored
      <3>2. JarIsLastSet'
        BY <2>2, <2>7, <3>1 DEF JarIsLastSet
      <3> QED
        BY <2>2, <2>5, <3>1, <3>2
    <2> QED
      BY <2>6, <2>7
  <1>3. CASE UNCHANGED vars
    <2>1. case' = case /\ jar' = jar /\ log' = log
      BY <1>3 DEF vars
    <2>2. LogTyped'
      BY <2>1 DEF LogTyped
    <2>3. AllSet' = AllSet
      BY <2>1 DEF AllSet, Served
    <2>4. \A p : SetAt(p)' = SetAt(p)
      BY <2>1 DEF SetAt
    <2>5. LastSet' = LastSet
      BY <2>3, <2>4 DEF LastSet, Later
    <2>6. JarIsLastSet'
      BY <2>1, <2>4, <2>5 DEF JarIsLastSet
    <2> QED
      BY <2>1, <2>2, <2>6
  <1> QED
    BY <1>1, <1>2, <1>3 DEF Next

\* So it holds throughout.
LEMMA SessionInvariant == Spec => []SessionInv
  <1>1. ASSUME Init PROVE SessionInv
    <2>1. case \in Cases /\ jar = <<>> /\ log = <<>>
      BY <1>1 DEF Init
    <2>2. log \in Seq({}) /\ DOMAIN log = {} /\ DOMAIN jar = {}
      BY <2>1
    <2>3. jar \in MapsTo(AnyCookie)
      <3>1. jar = [x \in DOMAIN jar |-> jar[x]]
        BY <2>1
      <3> QED
        BY <2>2, <3>1, MapTypes
    <2>4. AllSet = {} /\ LastSet = {}
      BY <2>2 DEF AllSet, Served, LastSet
    <2> QED
      BY <2>1, <2>2, <2>3, <2>4 DEF SessionInv, LogTyped, JarIsLastSet
  <1> QED
    BY <1>1, SessionInductive, PTL DEF Spec

-----------------------------------------------------------------------------
(* The steps of a case are in the session of the last login. *)

\* The first of the numbers of a set.
LEMMA MinIsLeast ==
    ASSUME NEW S \in SUBSET Nat, S # {}
    PROVE  Min(S) \in S /\ \A n \in S : Min(S) <= n
  <1>1. \E n \in S : \A m \in S : n <= m
    BY LeastMember
  <1> QED
    BY <1>1, Zenon DEF Min

\* The number that is as large as all others of a set.
LEMMA MaxIsGreatest ==
    ASSUME NEW S \in SUBSET Int, NEW n \in S, \A m \in S : m <= n
    PROVE  Max(S) = n
  <1>1. Max(S) \in S /\ \A m \in S : m <= Max(S)
    <2>1. \E x \in S : \A y \in S : y <= x
      OBVIOUS
    <2>2. Max(S) = CHOOSE x \in S : \A y \in S : x >= y
      BY Zenon DEF Max
    <2>3. \E x \in S : \A y \in S : x >= y
      BY <2>1
    <2>4. Max(S) \in S /\ \A y \in S : Max(S) >= y
      BY <2>2, <2>3, Zenon
    <2> QED
      BY <2>4
  <1>2. Max(S) <= n /\ n <= Max(S)
    BY <1>1
  <1>3. Max(S) \in Int /\ n \in Int
    BY <1>1
  <1> QED
    BY <1>2, <1>3

\* The cookies that attach may add to a request.
SentCookies(cookies) == {sentCookie(cookies[name]) : name \in DOMAIN cookies}

\* The loop of attach, name by name.
AttachLoop(cookies, added) ==
    /\ added \in [0 .. Len(CookieNames) -> Seq(SentCookies(cookies))]
    /\ added[0] = <<>>
    /\ \A n \in 1 .. Len(CookieNames) :
          added[n] = IF CookieNames[n] \in DOMAIN cookies
                     THEN Append(added[n - 1], sentCookie(cookies[CookieNames[n]]))
                     ELSE added[n - 1]
    /\ attach(cookies) = added[Len(CookieNames)]

\* What attach computes.
LEMMA AttachIterates ==
    ASSUME NEW cookies
    PROVE  \E added : AttachLoop(cookies, added)
  <1> DEFINE N == Len(CookieNames)
             T == Seq(SentCookies(cookies))
             NextOf(n, f) == IF CookieNames[n] \in DOMAIN cookies
                           THEN Append(f, sentCookie(cookies[CookieNames[n]]))
                           ELSE f
             Loop(f) == [n \in 0 .. N |-> IF n = 0 THEN <<>> ELSE NextOf(n, f[n - 1])]
             step == [n \in 1 .. N |-> [f \in T |-> NextOf(n, f)]]
  <1>1. step \in StepMaps(N, T)
    <2>1. ASSUME NEW n \in 1 .. N, NEW f \in T PROVE NextOf(n, f) \in T
      <3>1. CASE CookieNames[n] \in DOMAIN cookies
        <4>1. sentCookie(cookies[CookieNames[n]]) \in SentCookies(cookies)
          BY <3>1 DEF SentCookies
        <4> QED
          BY <3>1, <4>1
      <3> QED
        BY <3>1
    <2> HIDE DEF T, NextOf
    <2> QED
      BY <2>1 DEF StepMaps
  <1>2. N \in Nat /\ <<>> \in T
    BY CookieNamesAssumption
  <1>3. PICK f : MadeBySteps(f, N, T, <<>>, step)
    <2> HIDE DEF step, N, T
    <2> QED
      BY <1>1, <1>2, StepwiseFunction
  <1>4. /\ f \in [0 .. N -> T] /\ f[0] = <<>>
        /\ \A n \in 1 .. N : f[n] = NextOf(n, f[n - 1])
    <2>1. /\ f \in [0 .. N -> T] /\ f[0] = <<>>
          /\ \A n \in 1 .. N : f[n] = step[n][f[n - 1]]
      BY <1>3 DEF MadeBySteps
    <2>2. ASSUME NEW n \in 1 .. N
          PROVE  step[n][f[n - 1]] = NextOf(n, f[n - 1])
      <3>1. n - 1 \in 0 .. N
        BY <1>2
      <3> HIDE DEF T, NextOf
      <3>2. f[n - 1] \in T
        BY <2>1, <3>1
      <3> QED
        BY <3>2
    <2> QED
      BY <2>1, <2>2
  <1> HIDE DEF NextOf
  <1>5. f = Loop(f)
    BY <1>2, <1>4
  <1> DEFINE added == CHOOSE g : g = Loop(g)
  <1>6. attach(cookies) = added[N]
    BY DEF attach, NextOf
  <1>7. added = Loop(added)
    <2> HIDE DEF Loop
    <2> QED
      BY <1>5, Zenon
  <1> HIDE DEF added
  <1> DEFINE S == {n \in 0 .. N : added[n] = f[n]}
  <1>8. added[0] = <<>> /\ \A n \in 1 .. N : added[n] = NextOf(n, added[n - 1])
    <2>1. 0 \in 0 .. N /\ \A n \in 1 .. N : n \in 0 .. N /\ n # 0
      BY <1>2
    <2> HIDE DEF N
    <2> QED
      BY <1>7, <2>1
  <1>9. \A n \in 0 .. N : n \in S
    <2>1. 0 \in S
      BY <1>2, <1>4, <1>8
    <2>2. ASSUME NEW n \in 0 .. N, n < N, n \in S PROVE n + 1 \in S
      <3>1. n + 1 \in 1 .. N /\ n + 1 \in 0 .. N /\ (n + 1) - 1 = n
        BY <1>2, <2>2
      <3>2. added[n + 1] = NextOf(n + 1, added[n]) /\ f[n + 1] = NextOf(n + 1, f[n])
        BY <1>4, <1>8, <3>1
      <3> QED
        BY <2>2, <3>1, <3>2
    <2> HIDE DEF S, N
    <2>3. \A n \in 0 .. N : n < N /\ n \in S => n + 1 \in S
      BY <2>2
    <2> QED
      BY <1>2, <2>1, <2>3, InductionUpTo
  <1>10. added[N] = f[N]
    BY <1>2, <1>9
  <1> QED
    BY <1>4, <1>6, <1>10 DEF AttachLoop, NextOf

\* attach adds the cookies of the map only, and every one whose name is a cookie name.
LEMMA AttachedIsStored ==
    ASSUME NEW cookies
    PROVE  /\ attach(cookies) \in Seq(SentCookies(cookies))
           /\ \A name \in DOMAIN cookies \cap Range(CookieNames) :
                 \E i \in DOMAIN attach(cookies) : attach(cookies)[i] = sentCookie(cookies[name])
  <1> DEFINE N == Len(CookieNames)
             C == SentCookies(cookies)
  <1>1. PICK added : AttachLoop(cookies, added)
    BY AttachIterates
  <1>2. /\ added \in [0 .. N -> Seq(C)]
        /\ \A n \in 1 .. N :
              added[n] = IF CookieNames[n] \in DOMAIN cookies
                         THEN Append(added[n - 1], sentCookie(cookies[CookieNames[n]]))
                         ELSE added[n - 1]
        /\ attach(cookies) = added[N]
    BY <1>1 DEF AttachLoop
  <1>3. N \in Nat /\ DOMAIN CookieNames = 1 .. N
    BY CookieNamesAssumption
  <1>4. ASSUME NEW k \in 1 .. N, CookieNames[k] \in DOMAIN cookies
        PROVE  \E i \in DOMAIN added[N] : added[N][i] = sentCookie(cookies[CookieNames[k]])
    <2> DEFINE c == sentCookie(cookies[CookieNames[k]])
               Has(n) == \E i \in DOMAIN added[n] : added[n][i] = c
               S == {n \in 0 .. N : n >= k => Has(n)}
    <2>1. c \in C
      BY <1>4 DEF SentCookies
    <2> HIDE DEF c, C, N
    <2>2. 0 \in S
      BY <1>3
    <2>3. ASSUME NEW n \in 0 .. N, n < N, n \in S PROVE n + 1 \in S
      <3>1. n + 1 \in 1 .. N /\ n + 1 \in 0 .. N /\ (n + 1) - 1 = n
        BY <1>3, <2>3
      <3>2. added[n] \in Seq(C)
        BY <1>2
      <3>3. CASE n + 1 = k
        <4>1. added[n + 1] = Append(added[n], c)
          BY <1>2, <1>4, <3>1, <3>3 DEF c
        <4>2. Len(added[n]) + 1 \in DOMAIN added[n + 1] /\ added[n + 1][Len(added[n]) + 1] = c
          BY <2>1, <3>2, <4>1
        <4> QED
          BY <3>1, <4>2
      <3>4. CASE n >= k
        <4>1. PICK i \in DOMAIN added[n] : added[n][i] = c
          BY <2>3, <3>4
        <4>2. PICK d : added[n + 1] \in {added[n], Append(added[n], d)}
          BY <1>2, <3>1
        <4>3. i \in DOMAIN added[n + 1] /\ added[n + 1][i] = c
          BY <3>2, <4>1, <4>2
        <4> QED
          BY <3>1, <4>3
      <3>5. CASE n + 1 < k
        BY <1>3, <3>1, <3>5
      <3> QED
        BY <1>3, <3>3, <3>4, <3>5
    <2> HIDE DEF S, Has
    <2>4. \A n \in 0 .. N : n \in S
      <3>1. \A n \in 0 .. N : n < N /\ n \in S => n + 1 \in S
        BY <2>3
      <3> QED
        BY <1>3, <2>2, <3>1, InductionUpTo
    <2>5. N \in 0 .. N /\ N >= k
      BY <1>3
    <2>6. Has(N)
      BY <2>4, <2>5 DEF S
    <2> QED
      BY <2>6 DEF Has, c
  <1>5. \A name \in Range(CookieNames) : \E k \in 1 .. N : CookieNames[k] = name
    BY <1>3 DEF Range
  <1>6. added[N] \in Seq(C)
    BY <1>2, <1>3
  <1> HIDE DEF N, C
  <1>7. ASSUME NEW name \in DOMAIN cookies \cap Range(CookieNames)
        PROVE  \E i \in DOMAIN attach(cookies) : attach(cookies)[i] = sentCookie(cookies[name])
    BY <1>2, <1>4, <1>5
  <1> QED
    BY <1>2, <1>6, <1>7 DEF C

\* The status of a route with two checks.
LEMMA TwoChecks ==
    ASSUME NEW a \in BOOLEAN, NEW b \in BOOLEAN, NEW s, NEW t
    PROVE  firstFailure(<< <<a, s>>, <<b, t>> >>) = IF a THEN s ELSE IF b THEN t ELSE 200
  <1> DEFINE checks == << <<a, s>>, <<b, t>> >>
             failed == {i \in DOMAIN checks : checks[i][1]}
  <1>1. DOMAIN checks = {1, 2}
    OBVIOUS
  <1>2. checks[1][1] = a /\ checks[1][2] = s /\ checks[2][1] = b /\ checks[2][2] = t
    OBVIOUS
  <1>3. failed = {i \in {1, 2} : (i = 1 /\ a) \/ (i = 2 /\ b)}
    BY <1>1, <1>2
  <1>4. firstFailure(checks) = IF failed = {} THEN 200 ELSE checks[Min(failed)][2]
    BY DEF firstFailure
  <1> HIDE DEF failed, checks
  <1>5. failed \in SUBSET Nat
    BY <1>3
  <1> DEFINE status == IF a THEN s ELSE IF b THEN t ELSE 200
  <1>6. ASSUME failed = {} PROVE firstFailure(checks) = status
    BY <1>3, <1>4, <1>6
  <1>7. ASSUME failed # {} PROVE firstFailure(checks) = status
    <2>1. Min(failed) \in failed /\ \A i \in failed : Min(failed) <= i
      BY <1>5, <1>7, MinIsLeast
    <2>2. a => Min(failed) = 1
      BY <1>3, <2>1
    <2>3. ~a => Min(failed) = 2 /\ b
      BY <1>3, <2>1
    <2> QED
      BY <1>2, <1>4, <1>7, <2>2, <2>3
  <1> QED
    BY <1>6, <1>7 DEF checks

\* The status of a route with four checks.
LEMMA FourChecks ==
    ASSUME NEW a \in BOOLEAN, NEW b \in BOOLEAN, NEW c \in BOOLEAN, NEW d \in BOOLEAN,
           NEW s, NEW t, NEW u, NEW v
    PROVE  firstFailure(<< <<a, s>>, <<b, t>>, <<c, u>>, <<d, v>> >>) =
               IF a THEN s ELSE IF b THEN t ELSE IF c THEN u ELSE IF d THEN v ELSE 200
  <1> DEFINE checks == << <<a, s>>, <<b, t>>, <<c, u>>, <<d, v>> >>
             failed == {i \in DOMAIN checks : checks[i][1]}
  <1>1. DOMAIN checks = {1, 2, 3, 4}
    OBVIOUS
  <1>2. /\ checks[1][1] = a /\ checks[1][2] = s /\ checks[2][1] = b /\ checks[2][2] = t
        /\ checks[3][1] = c /\ checks[3][2] = u /\ checks[4][1] = d /\ checks[4][2] = v
    OBVIOUS
  <1>3. failed = {i \in {1, 2, 3, 4} : (i = 1 /\ a) \/ (i = 2 /\ b) \/ (i = 3 /\ c) \/ (i = 4 /\ d)}
    BY <1>1, <1>2
  <1>4. firstFailure(checks) = IF failed = {} THEN 200 ELSE checks[Min(failed)][2]
    BY DEF firstFailure
  <1> HIDE DEF failed, checks
  <1>5. failed \in SUBSET Nat
    BY <1>3
  <1> DEFINE status == IF a THEN s ELSE IF b THEN t ELSE IF c THEN u ELSE IF d THEN v ELSE 200
  <1>6. ASSUME failed = {} PROVE firstFailure(checks) = status
    BY <1>3, <1>4, <1>6
  <1>7. ASSUME failed # {} PROVE firstFailure(checks) = status
    <2>1. Min(failed) \in failed /\ \A i \in failed : Min(failed) <= i
      BY <1>5, <1>7, MinIsLeast
    <2>2. a => Min(failed) = 1
      BY <1>3, <2>1
    <2>3. ~a /\ b => Min(failed) = 2
      BY <1>3, <2>1
    <2>4. ~a /\ ~b /\ c => Min(failed) = 3
      BY <1>3, <2>1
    <2>5. ~a /\ ~b /\ ~c => Min(failed) = 4 /\ d
      BY <1>3, <2>1
    <2> QED
      BY <1>2, <1>4, <1>7, <2>2, <2>3, <2>4, <2>5
  <1> QED
    BY <1>6, <1>7 DEF checks

\* A login is accepted with the account's address for the session and both cookies in the
\* answer, or refused and changes no session.
LEMMA LoginAnswers ==
    ASSUME NEW held, NEW sent, NEW reply, reply = handleLogin(held, sent)
    PROVE  \/ /\ reply.answer.status = 200
              /\ reply.answer.cookies = << Cookie(sessionCookieName, sessionID, 0),
                                           Cookie(csrfCookieName, csrfToken, 0) >>
              /\ DOMAIN reply.sessions = DOMAIN held \cup {sessionID}
              /\ reply.sessions[sessionID] = account.email
           \/ /\ reply.answer.status # 200
              /\ reply.answer.cookies = <<>>
              /\ reply.sessions = held
  <1> DEFINE status == firstFailure(<<
                 <<sent.method # "POST", 405>>,
                 <<~decodeLoginRequest(sent.payload), 400>>,
                 <<sent.payload.email # account.email, 401>>,
                 <<sent.payload.password # account.password, 401>> >>)
             accepted == [writeJSON(200, account.email) EXCEPT
                 !.cookies = << Cookie(sessionCookieName, sessionID, 0),
                                Cookie(csrfCookieName, csrfToken, 0) >>,
                 !.headers = [h \in {sessionIssuedHeader} |-> <<"true">>]]
             granted == [x \in DOMAIN held \cup {sessionID} |->
                            IF x = sessionID THEN account.email ELSE held[x]]
  <1>1. reply = IF status = 200
                THEN [answer |-> accepted, sessions |-> granted]
                ELSE [answer |-> writeJSON(status, "error"), sessions |-> held]
    BY DEF handleLogin
  <1>2. /\ accepted.status = 200
        /\ accepted.cookies = << Cookie(sessionCookieName, sessionID, 0),
                                 Cookie(csrfCookieName, csrfToken, 0) >>
    BY DEF writeJSON
  <1>3. DOMAIN granted = DOMAIN held \cup {sessionID} /\ granted[sessionID] = account.email
    OBVIOUS
  <1>4. writeJSON(status, "error").status = status /\ writeJSON(status, "error").cookies = <<>>
    BY DEF writeJSON
  <1> HIDE DEF status, accepted, granted
  <1>5. CASE status = 200
    BY <1>1, <1>2, <1>3, <1>5
  <1>6. CASE status # 200
    BY <1>1, <1>4, <1>6
  <1> QED
    BY <1>5, <1>6

\* GET /me.
LEMMA MeAnswers ==
    ASSUME NEW held, NEW sent, NEW reply, reply = handleMe(held, sent)
    PROVE  /\ reply.answer.cookies = <<>>
           /\ reply.sessions = held
           /\ sent.method = "GET" =>
                 IF authenticatedAccount(held, sent)
                 THEN /\ reply.answer.status = 200
                      /\ reply.answer.body = held[requestCookie(sent, sessionCookieName)]
                 ELSE reply.answer.status = 401
  <1> DEFINE known == authenticatedAccount(held, sent)
             other == sent.method # "GET"
             unknown == ~known
             status == firstFailure(<< <<other, 405>>, <<unknown, 401>> >>)
             body == IF status = 200 THEN held[requestCookie(sent, sessionCookieName)] ELSE "error"
  <1>1. reply = [answer |-> writeJSON(status, body), sessions |-> held]
    BY DEF handleMe
  <1>2. other \in BOOLEAN /\ unknown \in BOOLEAN
    OBVIOUS
  <1>3. status = IF sent.method # "GET" THEN 405 ELSE IF ~known THEN 401 ELSE 200
    <2>1. (other <=> sent.method # "GET") /\ (unknown <=> ~known)
      OBVIOUS
    <2> HIDE DEF other, unknown
    <2>2. status = IF other THEN 405 ELSE IF unknown THEN 401 ELSE 200
      BY <1>2, TwoChecks
    <2> HIDE DEF status, known
    <2> QED
      BY <2>1, <2>2
  <1> HIDE DEF known
  <1>4. /\ writeJSON(status, body).status = status
        /\ writeJSON(status, body).cookies = <<>>
        /\ writeJSON(status, body).body = body
    BY DEF writeJSON
  <1>5. known => (sent.method = "GET" => status = 200)
    BY <1>3
  <1>6. ~known => (sent.method = "GET" => status = 401)
    BY <1>3
  <1>7. status = 200 => body = held[requestCookie(sent, sessionCookieName)]
    OBVIOUS
  <1> HIDE DEF status, body
  <1> QED
    BY <1>1, <1>4, <1>5, <1>6, <1>7 DEF known

\* The answer to an update that gets as far as its payload.
UpdateStatus(request, answer) ==
    answer.status = IF decodeUpdateEmailRequest(request.payload) THEN 200 ELSE 400

\* What an update does to the sessions.
UpdateEffect(held, request, reply) ==
    IF reply.answer.status = 200
    THEN /\ authenticatedAccount(held, request)
         /\ reply.sessions = [held EXCEPT ![requestCookie(request, sessionCookieName)] =
                                  request.payload.email]
    ELSE reply.sessions = held

\* POST /profile/email: only an accepted update, of a session that is there, changes it.
LEMMA UpdateAnswers ==
    ASSUME NEW held, NEW sent, NEW reply, reply = handleProfileEmail(held, sent)
    PROVE  /\ reply.answer.cookies = <<>>
           /\ UpdateEffect(held, sent, reply)
           /\ sent.method = "POST" /\ authenticatedAccount(held, sent) /\ validCSRF(sent) =>
                 UpdateStatus(sent, reply.answer)
  <1> DEFINE known == authenticatedAccount(held, sent)
             valid == validCSRF(sent)
             decodes == decodeUpdateEmailRequest(sent.payload)
             other == sent.method # "POST"
             unknown == ~known
             invalid == ~valid
             broken == ~decodes
             status == firstFailure(<< <<other, 405>>, <<unknown, 401>>,
                                       <<invalid, 403>>, <<broken, 400>> >>)
             body == IF status = 200 THEN sent.payload.email ELSE "error"
             changed == IF status = 200
                        THEN [held EXCEPT ![requestCookie(sent, sessionCookieName)] =
                                  sent.payload.email]
                        ELSE held
  <1>1. reply = [answer |-> writeJSON(status, body), sessions |-> changed]
    BY DEF handleProfileEmail
  <1>2. other \in BOOLEAN /\ unknown \in BOOLEAN /\ invalid \in BOOLEAN /\ broken \in BOOLEAN
    OBVIOUS
  <1>3. status = IF sent.method # "POST" THEN 405 ELSE IF ~known THEN 401
                 ELSE IF ~valid THEN 403 ELSE IF ~decodes THEN 400 ELSE 200
    <2>1. /\ other <=> sent.method # "POST"
          /\ unknown <=> ~known
          /\ invalid <=> ~valid
          /\ broken <=> ~decodes
      OBVIOUS
    <2> HIDE DEF other, unknown, invalid, broken
    <2>2. status = IF other THEN 405 ELSE IF unknown THEN 401
                   ELSE IF invalid THEN 403 ELSE IF broken THEN 400 ELSE 200
      BY <1>2, FourChecks
    <2> HIDE DEF status, known, valid, decodes
    <2> QED
      BY <2>1, <2>2
  <1> HIDE DEF known, valid, decodes
  <1>4. writeJSON(status, body).status = status /\ writeJSON(status, body).cookies = <<>>
    BY DEF writeJSON
  <1>5. status = 200 => known
    BY <1>3
  <1>6. sent.method = "POST" /\ known /\ valid => status = IF decodes THEN 200 ELSE 400
    BY <1>3
  <1>7. changed = IF status = 200
                  THEN [held EXCEPT ![requestCookie(sent, sessionCookieName)] = sent.payload.email]
                  ELSE held
    OBVIOUS
  <1> HIDE DEF status, body, changed
  <1>8. reply.answer.status = status /\ reply.answer.cookies = <<>> /\ reply.sessions = changed
    BY <1>1, <1>4
  <1>9. sent.method = "POST" /\ known /\ valid => UpdateStatus(sent, reply.answer)
    BY <1>6, <1>8 DEF decodes, UpdateStatus
  <1> QED
    BY <1>5, <1>7, <1>8, <1>9 DEF known, valid, UpdateEffect

\* A name of which a request has a cookie is answered with the value of one of them.
LEMMA CookieIsFound ==
    ASSUME NEW request, NEW C, request.cookies \in Seq(C), NEW name,
           \E i \in DOMAIN request.cookies : request.cookies[i].name = name
    PROVE  \E i \in DOMAIN request.cookies :
              /\ request.cookies[i].name = name
              /\ requestCookie(request, name) = request.cookies[i].value
  <1> DEFINE named == {i \in DOMAIN request.cookies : request.cookies[i].name = name}
  <1>1. named \in SUBSET Nat /\ named # {}
    OBVIOUS
  <1>2. requestCookie(request, name) = request.cookies[Min(named)].value
    BY <1>1 DEF requestCookie
  <1>3. Min(named) \in named
    <2> HIDE DEF named
    <2> QED
      BY <1>1, MinIsLeast
  <1>4. PICK i : i = Min(named)
    OBVIOUS
  <1> QED
    BY <1>2, <1>3, <1>4

\* The cookies of a jar are stored under their names.
JarNames == \A name \in DOMAIN jar : jar[name].name = name

\* A request that leaves its cookies to the jar is sent with those of the jar.
LEMMA JarIsSent ==
    ASSUME JarNames, NEW request, UsesJarOnly(request),
           NEW name \in DOMAIN jar, name \in Range(CookieNames)
    PROVE  requestCookie(httpRequest(request), name) = jar[name].value
  <1> DEFINE sent == httpRequest(request)
             C == SentCookies(jar)
  <1>1. sent.cookies = <<>> \o attach(jar)
    BY DEF httpRequest, UsesJarOnly
  <1>2. /\ attach(jar) \in Seq(C)
        /\ \E i \in DOMAIN attach(jar) : attach(jar)[i] = sentCookie(jar[name])
    BY AttachedIsStored
  <1> HIDE DEF sent, C
  <1>3. sent.cookies = attach(jar)
    BY <1>1, <1>2
  <1>4. sentCookie(jar[name]).name = name
    BY DEF JarNames, sentCookie
  <1>5. PICK i \in DOMAIN sent.cookies :
           sent.cookies[i].name = name /\ requestCookie(sent, name) = sent.cookies[i].value
    BY <1>2, <1>3, <1>4, CookieIsFound
  <1>6. sent.cookies[i] \in C
    BY <1>2, <1>3
  <1>7. PICK other \in DOMAIN jar : sent.cookies[i] = sentCookie(jar[other])
    BY <1>6 DEF C, SentCookies
  <1>8. sent.cookies[i].name = other /\ sent.cookies[i].value = jar[other].value
    BY <1>7 DEF JarNames, sentCookie
  <1> QED
    BY <1>5, <1>8 DEF sent

Token == [cookie |-> csrfCookieName, header |-> csrfHeaderName]

\* The header of a request with the CSRF block of the API has the token of the jar.
LEMMA TokenIsSent ==
    ASSUME case \in Cases, NEW request \in case.requests, Token \in request.csrf
    PROVE  requestHeader(httpRequest(request), csrfHeaderName) = jar[csrfCookieName].value
  <1>1. \A csrf \in request.csrf : csrf = Token
    BY CasesAssumption
  <1>2. Token.header = csrfHeaderName /\ Token.cookie = csrfCookieName
    BY DEF Token
  <1> DEFINE filled == {csrf.header : csrf \in request.csrf}
             value(h) == jar[(CHOOSE csrf \in request.csrf : csrf.header = h).cookie].value
             chosen == CHOOSE csrf \in request.csrf : csrf.header = csrfHeaderName
  <1>3. chosen \in request.csrf
    BY <1>2, Zenon
  <1>4. chosen = Token
    BY <1>1, <1>3
  <1>5. value(csrfHeaderName) = jar[csrfCookieName].value
    BY <1>2, <1>4
  <1>6. csrfHeaderName \in filled
    BY <1>2
  <1>7. csrfHeaders(request) = [h \in DOMAIN request.headers \cup filled |->
                                   IF h \in filled THEN value(h) ELSE request.headers[h]]
    BY DEF csrfHeaders
  <1> HIDE DEF value, filled
  <1>8. /\ csrfHeaderName \in DOMAIN csrfHeaders(request)
        /\ csrfHeaders(request)[csrfHeaderName] = value(csrfHeaderName)
    BY <1>6, <1>7
  <1>9. httpRequest(request).headers = csrfHeaders(request)
    BY DEF httpRequest
  <1> QED
    BY <1>5, <1>8, <1>9 DEF requestHeader

\* The answers of the API by route.
LEMMA Routes ==
    ASSUME NEW held, NEW sent
    PROVE  /\ sent.path = "/login" => ServeHTTP(held, sent) = handleLogin(held, sent)
           /\ sent.path = "/me" => ServeHTTP(held, sent) = handleMe(held, sent)
           /\ sent.path = "/profile/email" => ServeHTTP(held, sent) = handleProfileEmail(held, sent)
           /\ sent.path \notin {"/login", "/me", "/profile/email"} =>
                 /\ ServeHTTP(held, sent).sessions = held
                 /\ ServeHTTP(held, sent).answer.cookies = <<>>
  <1>1. sent.path = "/login" => ServeHTTP(held, sent) = handleLogin(held, sent)
    BY DEF ServeHTTP
  <1>2. sent.path = "/me" => ServeHTTP(held, sent) = handleMe(held, sent)
    BY DEF ServeHTTP
  <1>3. sent.path = "/profile/email" => ServeHTTP(held, sent) = handleProfileEmail(held, sent)
    BY DEF ServeHTTP
  <1>4. ASSUME sent.path \notin {"/login", "/me", "/profile/email"}
        PROVE  /\ ServeHTTP(held, sent).sessions = held
               /\ ServeHTTP(held, sent).answer.cookies = <<>>
    <2> DEFINE unknown == [answer |-> writeJSON(404, "error"), sessions |-> held]
    <2>1. /\ handleReport(held, sent).sessions = held
          /\ handleReport(held, sent).answer.cookies = <<>>
      BY DEF handleReport, writeJSON
    <2>2. unknown.sessions = held /\ unknown.answer.cookies = <<>>
      BY DEF writeJSON
    <2>3. CASE sent.path = "/report.xlsx"
      <3>1. ServeHTTP(held, sent) = handleReport(held, sent)
        BY <2>3 DEF ServeHTTP
      <3> QED
        BY <2>1, <3>1
    <2>4. CASE sent.path # "/report.xlsx"
      <3>1. ServeHTTP(held, sent) = unknown
        BY <1>4, <2>4 DEF ServeHTTP
      <3> HIDE DEF unknown
      <3> QED
        BY <2>2, <3>1
    <2> QED
      BY <2>3, <2>4
  <1> QED
    BY <1>1, <1>2, <1>3, <1>4

\* The jar has both cookies of the API, and no other.
JarOfLogin ==
    /\ DOMAIN jar = {sessionCookieName, csrfCookieName}
    /\ jar[sessionCookieName] = Cookie(sessionCookieName, sessionID, 0)
    /\ jar[csrfCookieName] = Cookie(csrfCookieName, csrfToken, 0)

\* After all calls so far the API has no session and the jar no cookie, or it has the one
\* session, with the address that the last change left, and the jar has both cookies.
HeldSession ==
    IF Changes(Len(log)) = {}
    THEN DOMAIN sessions = {} /\ DOMAIN jar = {}
    ELSE /\ DOMAIN sessions = {sessionID}
         /\ sessions[sessionID] = AddressAfter(Len(log))
         /\ case.jar => JarOfLogin

\* A bounded set of numbers has a greatest.
LEMMA MaxIsMember ==
    ASSUME NEW N \in Nat, NEW S \in SUBSET (0 .. N), S # {}
    PROVE  Max(S) \in S
  <1> DEFINE T == {N - n : n \in S}
  <1>1. T \in SUBSET Nat /\ T # {}
    <2>1. \A n \in S : N - n \in Nat /\ N - n \in T
      OBVIOUS
    <2> QED
      BY <2>1
  <1>2. PICK t \in T : \A u \in T : t <= u
    BY <1>1, LeastMember
  <1>3. PICK n \in S : t = N - n
    BY <1>2
  <1>4. ASSUME NEW m \in S PROVE m <= n
    <2>1. N - m \in T
      OBVIOUS
    <2>2. N - n <= N - m
      BY <1>2, <1>3, <2>1
    <2> QED
      BY <2>2
  <1>5. S \in SUBSET Int
    OBVIOUS
  <1>6. Max(S) = n
    <2> HIDE DEF T
    <2> QED
      BY <1>4, <1>5, MaxIsGreatest
  <1> QED
    BY <1>6

\* The changes among the first calls, and the address after them, are not touched by later calls.
LEMMA ChangesStay ==
    ASSUME LogTyped, NEW e, log' = Append(log, e), NEW n \in 0 .. Len(log)
    PROVE  /\ Changes(n)' = Changes(n)
           /\ Changes(n) # {} => AddressAfter(n)' = AddressAfter(n)
  <1>1. PICK S : log \in Seq(S)
    BY DEF LogTyped
  <1>2. /\ Len(log) \in Nat /\ DOMAIN log = 1 .. Len(log) /\ DOMAIN log' = 1 .. Len(log) + 1
        /\ \A i \in 1 .. Len(log) : log'[i] = log[i]
    BY <1>1
  <1>3. n \in Nat /\ n <= Len(log)
    BY <1>2
  <1>4. \A i : i \in Served' /\ i <= n <=> i \in Served /\ i <= n
    BY <1>2, <1>3 DEF Served
  <1>5. \A i \in Served : log'[i] = log[i]
    BY <1>2 DEF Served
  <1>6. Changes(n)' = Changes(n)
    <2>1. Changes(n) = {i \in Served : /\ i <= n /\ log[i].answer.status = 200
                                       /\ log[i].request.path \in {"/login", "/profile/email"}}
      BY DEF Changes
    <2>2. Changes(n)' = {i \in Served' : /\ i <= n /\ log'[i].answer.status = 200
                                         /\ log'[i].request.path \in {"/login", "/profile/email"}}
      BY DEF Changes
    <2>3. \A i : i \in Changes(n)' <=> i \in Changes(n)
      <3>1. ASSUME NEW i \in Changes(n)' PROVE i \in Changes(n)
        <4>1. i \in Served' /\ i <= n
          BY <2>2
        <4>2. i \in Served /\ log'[i] = log[i]
          BY <1>4, <1>5, <4>1
        <4> QED
          BY <2>1, <2>2, <4>1, <4>2
      <3>2. ASSUME NEW i \in Changes(n) PROVE i \in Changes(n)'
        <4>1. i \in Served /\ i <= n
          BY <2>1
        <4>2. i \in Served' /\ log'[i] = log[i]
          BY <1>4, <1>5, <4>1
        <4> QED
          BY <2>1, <2>2, <4>1, <4>2
      <3> QED
        BY <3>1, <3>2
    <2> DEFINE A == Changes(n)'
               B == Changes(n)
    <2>4. A = {i \in Served' : i \in A} /\ B = {i \in Served : i \in B}
      BY <2>1, <2>2
    <2>5. \A i : i \in A <=> i \in B
      BY <2>3
    <2> HIDE DEF A, B
    <2>6. A = B
      BY <2>4, <2>5
    <2> QED
      BY <2>6 DEF A, B
  <1>7. ASSUME Changes(n) # {} PROVE AddressAfter(n)' = AddressAfter(n)
    <2>1. Changes(n) \in SUBSET (0 .. n)
      BY <1>2, <1>3 DEF Changes, Served
    <2>2. Max(Changes(n)) \in Changes(n)
      BY <1>3, <1>7, <2>1, MaxIsMember
    <2>3. Max(Changes(n)) \in Served
      BY <2>2 DEF Changes
    <2>4. PICK i : i = Max(Changes(n)) /\ log'[i] = log[i]
      BY <1>5, <2>3
    <2>5. AddressAfter(n) = IF log[i].request.path = "/login" THEN account.email
                            ELSE log[i].request.payload.email
      BY <2>4 DEF AddressAfter
    <2>6. AddressAfter(n)' = IF log'[i].request.path = "/login" THEN account.email
                             ELSE log'[i].request.payload.email
      BY <1>6, <2>4 DEF AddressAfter
    <2> QED
      BY <2>4, <2>5, <2>6
  <1> QED
    BY <1>6, <1>7

\* A call that changes the session, and the address it leaves.
IsChange(e) ==
    /\ e.served
    /\ e.answer.status = 200
    /\ e.request.path \in {"/login", "/profile/email"}

AddressOf(e) == IF e.request.path = "/login" THEN account.email ELSE e.request.payload.email

\* What one more call adds to the changes.
LEMMA ChangesGrow ==
    ASSUME LogTyped, NEW e, log' = Append(log, e)
    PROVE  IF IsChange(e)
           THEN Changes(Len(log))' # {} /\ AddressAfter(Len(log))' = AddressOf(e)
           ELSE /\ Changes(Len(log))' = {} <=> Changes(Len(log)) = {}
                /\ Changes(Len(log)) # {} => AddressAfter(Len(log))' = AddressAfter(Len(log))
  <1>1. PICK S : log \in Seq(S)
    BY DEF LogTyped
  <1>2. /\ Len(log) \in Nat /\ DOMAIN log = 1 .. Len(log) /\ DOMAIN log' = 1 .. Len(log) + 1
        /\ \A i \in 1 .. Len(log) : log'[i] = log[i]
        /\ Len(log') = Len(log) + 1 /\ log'[Len(log) + 1] = e
    BY <1>1
  <1> DEFINE n == Len(log)
             here == Len(log) + 1
  <1>3. n \in Nat /\ here \in Nat /\ n < here /\ n \in 0 .. Len(log)
    BY <1>2
  <1>4. /\ Changes(n)' = {i \in Served' : /\ i <= Len(log')
                                           /\ log'[i].answer.status = 200
                                           /\ log'[i].request.path \in {"/login", "/profile/email"}}
        /\ AddressAfter(n)' = LET i == Max(Changes(n)') IN AddressOf(log'[i])
    BY DEF Changes, AddressAfter, AddressOf
  <1>5. here \in Served' <=> e.served
    BY <1>2 DEF Served
  <1>6. \A i : i \in Served' <=> i \in Served \/ (i = here /\ e.served)
    BY <1>2 DEF Served
  <1>7. \A i \in Served : i \in 1 .. n /\ log'[i] = log[i]
    BY <1>2 DEF Served
  <1>8. \A i \in Changes(n)' : i \in Changes(n) \/ (i = here /\ IsChange(e))
    <2> SUFFICES ASSUME NEW i \in Changes(n)' PROVE i \in Changes(n) \/ (i = here /\ IsChange(e))
      OBVIOUS
    <2>1. /\ i \in Served' /\ log'[i].answer.status = 200
          /\ log'[i].request.path \in {"/login", "/profile/email"}
      BY <1>4
    <2>2. CASE i \in Served
      <3>1. i <= Len(log) /\ log'[i] = log[i]
        BY <1>2, <1>7, <2>2
      <3> QED
        BY <2>1, <2>2, <3>1 DEF Changes
    <2>3. CASE i = here /\ e.served
      BY <1>2, <2>1, <2>3 DEF IsChange
    <2> QED
      BY <1>6, <2>1, <2>2, <2>3
  <1>9. \A i \in Changes(n) : i \in Changes(n)'
    <2> SUFFICES ASSUME NEW i \in Changes(n) PROVE i \in Changes(n)'
      OBVIOUS
    <2>1. i \in Served /\ log[i].answer.status = 200 /\ log[i].request.path \in {"/login", "/profile/email"}
      BY DEF Changes
    <2>2. i \in Served' /\ log'[i] = log[i] /\ i <= Len(log')
      BY <1>2, <1>6, <1>7, <2>1
    <2> QED
      BY <1>4, <2>1, <2>2
  <1>10. CASE IsChange(e)
    <2>1. here \in Changes(n)'
      BY <1>2, <1>4, <1>5, <1>10 DEF IsChange
    <2>2. \A i \in Changes(n)' : i \in Int /\ i <= here
      <3>1. \A i \in Served' : i \in Int /\ i <= here
        BY <1>3, <1>6, <1>7
      <3> QED
        BY <1>4, <3>1
    <2>3. Max(Changes(n)') = here
      <3>1. Changes(n)' \in SUBSET Int
        BY <2>2
      <3> HIDE DEF here
      <3> QED
        BY <2>1, <2>2, <3>1, MaxIsGreatest
    <2> QED
      BY <1>2, <1>4, <1>10, <2>1, <2>3
  <1>11. CASE ~IsChange(e)
    <2>1. \A i : i \in Changes(n)' <=> i \in Changes(n)
      BY <1>8, <1>9, <1>11
    <2>2. Changes(n)' = Changes(n)
      <3> DEFINE A == Changes(n)'
                 B == Changes(n)
      <3>1. /\ A = {i \in Served' : i \in A}
            /\ B = {i \in Served : i \in B}
        BY <1>4 DEF Changes
      <3>2. \A i : i \in A <=> i \in B
        BY <2>1
      <3> HIDE DEF A, B
      <3>3. A = B
        BY <3>1, <3>2
      <3> QED
        BY <3>3 DEF A, B
    <2>3. ASSUME Changes(n) # {} PROVE AddressAfter(n)' = AddressAfter(n)
      <3>1. Changes(n) \in SUBSET (0 .. n)
        BY <1>3, <1>7 DEF Changes
      <3>2. Max(Changes(n)) \in Changes(n)
        BY <1>3, <2>3, <3>1, MaxIsMember
      <3>3. Max(Changes(n)) \in Served
        BY <3>2 DEF Changes
      <3>4. PICK i : i = Max(Changes(n)) /\ log'[i] = log[i]
        BY <1>7, <3>3
      <3>5. AddressAfter(n) = AddressOf(log[i])
        BY <3>4 DEF AddressAfter, AddressOf
      <3>6. AddressAfter(n)' = AddressOf(log'[i])
        BY <1>4, <2>2, <3>4
      <3> QED
        BY <3>4, <3>5, <3>6
    <2> QED
      BY <1>11, <2>2, <2>3
  <1> QED
    BY <1>10, <1>11

\* What SessionFollowsHistory says of one call.
RightAnswer(call, loggedIn, address) ==
    LET request == call.request
        answer == call.answer
    IN  UsesJarOnly(request) =>
          /\ request.path = "/me" /\ request.method = "GET" =>
                IF loggedIn THEN answer.status = 200 /\ answer.body = address
                ELSE answer.status = 401
          /\ request.path = "/profile/email" /\ request.method = "POST" /\ Token \in request.csrf =>
                /\ loggedIn
                /\ answer.status = IF decodeUpdateEmailRequest(request.payload) THEN 200 ELSE 400

\* The property says of every call that it is answered rightly after those before it.
LEMMA HistoryOfCalls ==
    SessionFollowsHistory <=>
        (case.handler = "api" =>
            \A i \in Served : RightAnswer(log[i], Changes(i - 1) # {}, AddressAfter(i - 1)))
  BY Zenon DEF SessionFollowsHistory, RightAnswer, Token

\* What the handler is sent is the request, but for cookies and headers.
LEMMA SentAsAsked ==
    ASSUME NEW request
    PROVE  /\ httpRequest(request).method = request.method
           /\ httpRequest(request).path = request.path
           /\ httpRequest(request).payload = request.payload
  BY DEF httpRequest

\* The call of a step that leaves its cookies to the jar is answered rightly.
LEMMA CallIsRight ==
    ASSUME case \in Cases, HeldSession, NEW request \in case.requests, ~Refused(request),
           NEW reply, reply = ServeHTTP(sessions, httpRequest(request))
    PROVE  RightAnswer(Entry(request, reply), Changes(Len(log)) # {}, AddressAfter(Len(log)))
  <1> DEFINE sent == httpRequest(request)
             loggedIn == Changes(Len(log)) # {}
             answer == reply.answer
             call == Entry(request, reply)
  <1>1. call.request = request /\ call.answer = answer
    BY DEF Entry
  <1>2. sent.method = request.method /\ sent.path = request.path /\ sent.payload = request.payload
    BY SentAsAsked
  <1>3. ASSUME UsesJarOnly(request) PROVE case.jar
    BY <1>3 DEF UsesJarOnly, Refused, resolveCookieJar
  <1>4. sessionCookieName \in Range(CookieNames) /\ csrfCookieName \in Range(CookieNames)
    BY CookieNamesAssumption
  <1>5. ASSUME loggedIn, UsesJarOnly(request)
        PROVE  /\ JarNames
               /\ requestCookie(sent, sessionCookieName) = sessionID
               /\ requestCookie(sent, csrfCookieName) = csrfToken
               /\ jar[csrfCookieName].value = csrfToken
               /\ authenticatedAccount(sessions, sent)
               /\ sessions[requestCookie(sent, sessionCookieName)] = AddressAfter(Len(log))
    <2>1. JarOfLogin /\ DOMAIN sessions = {sessionID} /\ sessions[sessionID] = AddressAfter(Len(log))
      BY <1>3, <1>5 DEF HeldSession
    <2>2. /\ DOMAIN jar = {sessionCookieName, csrfCookieName}
          /\ jar[sessionCookieName].name = sessionCookieName /\ jar[csrfCookieName].name = csrfCookieName
          /\ jar[sessionCookieName].value = sessionID /\ jar[csrfCookieName].value = csrfToken
      BY <2>1 DEF JarOfLogin, Cookie
    <2>3. JarNames
      BY <2>2 DEF JarNames
    <2>4. requestCookie(sent, sessionCookieName) = sessionID
      BY <1>4, <1>5, <2>2, <2>3, JarIsSent
    <2>5. requestCookie(sent, csrfCookieName) = csrfToken
      BY <1>4, <1>5, <2>2, <2>3, JarIsSent
    <2> QED
      BY <2>1, <2>2, <2>3, <2>4, <2>5 DEF authenticatedAccount
  <1>6. ASSUME ~loggedIn PROVE ~authenticatedAccount(sessions, sent) /\ DOMAIN jar = {}
    BY <1>6 DEF HeldSession, authenticatedAccount
  <1> HIDE DEF sent, call, loggedIn
  <1>7. ASSUME UsesJarOnly(request), request.path = "/me", request.method = "GET"
        PROVE  IF loggedIn THEN answer.status = 200 /\ answer.body = AddressAfter(Len(log))
               ELSE answer.status = 401
    <2>1. reply = handleMe(sessions, sent)
      BY <1>2, <1>7, Routes DEF sent
    <2>2. IF authenticatedAccount(sessions, sent)
          THEN /\ answer.status = 200
               /\ answer.body = sessions[requestCookie(sent, sessionCookieName)]
          ELSE answer.status = 401
      BY <1>2, <1>7, <2>1, MeAnswers
    <2>3. CASE loggedIn
      BY <1>5, <1>7, <2>2, <2>3
    <2>4. CASE ~loggedIn
      BY <1>6, <2>2, <2>4
    <2> QED
      BY <2>3, <2>4
  <1>8. ASSUME UsesJarOnly(request), request.path = "/profile/email", request.method = "POST",
               Token \in request.csrf
        PROVE  /\ loggedIn
               /\ answer.status = IF decodeUpdateEmailRequest(request.payload) THEN 200 ELSE 400
    <2>1. csrfCookieName \in DOMAIN jar
      <3>1. ~applyCSRFHeaderFails(request)
        BY DEF Refused
      <3>2. \A csrf \in request.csrf : ~(\A cookies \in resolveCookieJar : csrf.cookie \notin DOMAIN cookies)
        BY <3>1 DEF applyCSRFHeaderFails
      <3>3. Token.cookie = csrfCookieName
        BY DEF Token
      <3>4. \E cookies \in resolveCookieJar : csrfCookieName \in DOMAIN cookies
        BY <1>8, <3>2, <3>3
      <3> QED
        BY <3>4 DEF resolveCookieJar
    <2>2. loggedIn
      BY <1>6, <2>1
    <2>3. reply = handleProfileEmail(sessions, sent)
      BY <1>2, <1>8, Routes DEF sent
    <2>4. requestHeader(sent, csrfHeaderName) = jar[csrfCookieName].value
      BY <1>8, TokenIsSent DEF sent
    <2>5. validCSRF(sent)
      <3>1. csrfToken # Absent
        BY DEF csrfToken, Absent
      <3> QED
        BY <1>5, <1>8, <2>2, <2>4, <3>1 DEF validCSRF
    <2>6. authenticatedAccount(sessions, sent)
      BY <1>5, <1>8, <2>2
    <2>7. UpdateStatus(sent, answer)
      BY <1>2, <1>8, <2>3, <2>5, <2>6, UpdateAnswers
    <2> QED
      BY <1>2, <2>2, <2>7 DEF UpdateStatus
  <1> HIDE DEF answer
  <1> QED
    BY <1>1, <1>7, <1>8 DEF RightAnswer, loggedIn, call

\* The jar after a call: with both cookies of a login, or as it was.
LEMMA JarAfterLogin ==
    ASSUME jar \in MapsTo(AnyCookie), DOMAIN jar = {} \/ DOMAIN jar = {sessionCookieName, csrfCookieName},
           jar' = store(jar, << Cookie(sessionCookieName, sessionID, 0),
                                Cookie(csrfCookieName, csrfToken, 0) >>)
    PROVE  JarOfLogin'
  <1> DEFINE a == Cookie(sessionCookieName, sessionID, 0)
             b == Cookie(csrfCookieName, csrfToken, 0)
             set == <<a, b>>
  <1>1. /\ sessionCookieName \in Texts /\ sessionID \in Texts
        /\ csrfCookieName \in Texts /\ csrfToken \in Texts
    BY DEF Texts
  <1>2. sessionCookieName # csrfCookieName
    BY DEF sessionCookieName, csrfCookieName
  <1>3. /\ a \in AnyCookie /\ a.name = sessionCookieName /\ a.maxAge = 0
        /\ b \in AnyCookie /\ b.name = csrfCookieName /\ b.maxAge = 0
    BY <1>1 DEF Cookie, AnyCookie
  <1> HIDE DEF a, b
  <1>4. set \in Seq(AnyCookie) /\ Len(set) = 2 /\ set[1] = a /\ set[2] = b
    BY <1>3
  <1> HIDE DEF set
  <1>5. jar' \in MapsTo(AnyCookie) /\ HoldsLast(jar', jar, set, 2)
    <2>1. jar' = store(jar, set)
      BY DEF set, a, b
    <2> QED
      BY <1>4, <2>1, StoreHoldsLast
  <1>6. LastOf(set, 2, 1) /\ LastOf(set, 2, 2)
    BY <1>2, <1>3, <1>4 DEF LastOf
  <1>7. /\ sessionCookieName \in DOMAIN jar' /\ jar'[sessionCookieName] = a
        /\ csrfCookieName \in DOMAIN jar' /\ jar'[csrfCookieName] = b
    BY <1>3, <1>4, <1>5, <1>6 DEF HoldsLast
  <1>8. ASSUME NEW name \in DOMAIN jar' PROVE name \in {sessionCookieName, csrfCookieName}
    <2> SUFFICES ASSUME name \notin {sessionCookieName, csrfCookieName} PROVE FALSE
      OBVIOUS
    <2>1. NoneOf(set, 2, name)
      <3>1. \A j \in 1 .. 2 : j = 1 \/ j = 2
        OBVIOUS
      <3> QED
        BY <1>3, <1>4, <3>1 DEF NoneOf
    <2>2. name \in Texts
      BY <1>5, MapTypes
    <2>3. name \in DOMAIN jar
      BY <1>5, <2>1, <2>2 DEF HoldsLast
    <2> QED
      BY <2>3
  <1>9. DOMAIN jar' = {sessionCookieName, csrfCookieName}
    BY <1>7, <1>8
  <1> QED
    BY <1>7, <1>9 DEF JarOfLogin, a, b

\* Any other answer of the API sets no cookie and leaves the jar alone.
LEMMA JarAfterOther ==
    ASSUME jar \in MapsTo(AnyCookie), jar' = store(jar, <<>>)
    PROVE  DOMAIN jar' = DOMAIN jar /\ (JarOfLogin => JarOfLogin')
  <1>1. <<>> \in Seq(AnyCookie) /\ Len(<<>>) = 0
    OBVIOUS
  <1>2. jar' \in MapsTo(AnyCookie) /\ HoldsLast(jar', jar, <<>>, 0)
    BY <1>1, StoreHoldsLast
  <1>3. \A name \in Texts : /\ name \in DOMAIN jar' <=> name \in DOMAIN jar
                            /\ name \in DOMAIN jar => jar'[name] = jar[name]
    BY <1>2 DEF HoldsLast, NoneOf
  <1>4. DOMAIN jar' \subseteq Texts /\ DOMAIN jar \subseteq Texts
    BY <1>2, MapTypes
  <1>5. DOMAIN jar' = DOMAIN jar
    BY <1>3, <1>4
  <1> QED
    BY <1>3, <1>4, <1>5 DEF JarOfLogin

\* A call that is answered leaves the API and the jar with the session of the calls so far.
LEMMA AnswerKeepsSession ==
    ASSUME LogTyped, jar \in MapsTo(AnyCookie), HeldSession, NEW request, NEW reply,
           reply = ServeHTTP(sessions, httpRequest(request)), ServedWith(request, reply),
           sessions' = reply.sessions, case' = case
    PROVE  HeldSession'
  <1> DEFINE sent == httpRequest(request)
             e == Entry(request, reply)
             before == Changes(Len(log)) # {}
             after == Changes(Len(log))' # {}
             answer == reply.answer
             both == << Cookie(sessionCookieName, sessionID, 0), Cookie(csrfCookieName, csrfToken, 0) >>
  <1>1. log' = Append(log, e) /\ jar' = IF case.jar THEN store(jar, answer.cookies) ELSE jar
    BY DEF ServedWith, Stored
  <1>2. e.served /\ e.request = request /\ e.answer = answer
    BY DEF Entry
  <1>3. sent.path = request.path /\ sent.payload = request.payload
    BY SentAsAsked
  <1> HIDE DEF e, sent, both
  <1>4. IF IsChange(e)
        THEN after /\ AddressAfter(Len(log))' = AddressOf(e)
        ELSE /\ after <=> before
             /\ before => AddressAfter(Len(log))' = AddressAfter(Len(log))
    BY <1>1, ChangesGrow
  <1>5. /\ ~before => DOMAIN sessions = {} /\ DOMAIN jar = {}
        /\ before => /\ DOMAIN sessions = {sessionID}
                     /\ sessions[sessionID] = AddressAfter(Len(log))
                     /\ case.jar => JarOfLogin
    BY DEF HeldSession
  <1>6. HeldSession' <=> IF after
                         THEN /\ DOMAIN sessions' = {sessionID}
                              /\ sessions'[sessionID] = AddressAfter(Len(log))'
                              /\ case.jar => JarOfLogin'
                         ELSE DOMAIN sessions' = {} /\ DOMAIN jar' = {}
    BY DEF HeldSession
  <1> HIDE DEF before, after, answer
  <1>7. ASSUME answer.cookies = <<>>
        PROVE  DOMAIN jar' = DOMAIN jar /\ (JarOfLogin => JarOfLogin')
    <2>1. CASE case.jar
      BY <1>1, <1>7, <2>1, JarAfterOther
    <2>2. CASE ~case.jar
      BY <1>1, <2>2 DEF JarOfLogin
    <2> QED
      BY <2>1, <2>2
  <1>8. ASSUME answer.cookies = <<>>, sessions' = sessions, ~IsChange(e)
        PROVE  HeldSession'
    BY <1>4, <1>5, <1>6, <1>7, <1>8
  <1>9. CASE request.path = "/login"
    <2>1. reply = handleLogin(sessions, sent)
      BY <1>3, <1>9, Routes DEF sent
    <2>2. CASE /\ answer.status = 200
               /\ answer.cookies = both
               /\ DOMAIN reply.sessions = DOMAIN sessions \cup {sessionID}
               /\ reply.sessions[sessionID] = account.email
      <3>1. IsChange(e) /\ AddressOf(e) = account.email
        BY <1>2, <1>9, <2>2 DEF IsChange, AddressOf
      <3>2. DOMAIN sessions = {} \/ DOMAIN sessions = {sessionID}
        BY <1>5
      <3>3. DOMAIN sessions' = {sessionID} /\ sessions'[sessionID] = account.email
        BY <2>2, <3>2
      <3>4. ASSUME case.jar PROVE JarOfLogin'
        <4>1. DOMAIN jar = {} \/ DOMAIN jar = {sessionCookieName, csrfCookieName}
          BY <1>5, <3>4 DEF JarOfLogin
        <4>2. jar' = store(jar, both)
          BY <1>1, <2>2, <3>4
        <4> QED
          BY <4>1, <4>2, JarAfterLogin DEF both
      <3> QED
        BY <1>4, <1>6, <3>1, <3>3, <3>4
    <2>3. CASE /\ answer.status # 200
               /\ answer.cookies = <<>>
               /\ reply.sessions = sessions
      BY <1>2, <1>8, <2>3 DEF IsChange
    <2> QED
      BY <2>1, <2>2, <2>3, LoginAnswers DEF answer, both
  <1>10. CASE request.path = "/me"
    <2>1. reply = handleMe(sessions, sent)
      BY <1>3, <1>10, Routes DEF sent
    <2>2. answer.cookies = <<>> /\ reply.sessions = sessions
      BY <2>1, MeAnswers DEF answer
    <2>3. ~IsChange(e)
      BY <1>2, <1>10 DEF IsChange
    <2> QED
      BY <1>8, <2>2, <2>3
  <1>11. CASE request.path = "/profile/email"
    <2>1. reply = handleProfileEmail(sessions, sent)
      BY <1>3, <1>11, Routes DEF sent
    <2>2. answer.cookies = <<>> /\ UpdateEffect(sessions, sent, reply)
      BY <2>1, UpdateAnswers DEF answer
    <2>3. CASE answer.status = 200
      <3>1. /\ authenticatedAccount(sessions, sent)
            /\ sessions' = [sessions EXCEPT ![requestCookie(sent, sessionCookieName)] =
                                sent.payload.email]
        BY <2>2, <2>3 DEF UpdateEffect, answer
      <3>2. IsChange(e) /\ AddressOf(e) = request.payload.email
        BY <1>2, <1>11, <2>3 DEF IsChange, AddressOf
      <3>3. requestCookie(sent, sessionCookieName) \in DOMAIN sessions
        BY <3>1 DEF authenticatedAccount
      <3>4. before
        BY <1>5, <3>3
      <3>5. DOMAIN sessions = {sessionID} /\ requestCookie(sent, sessionCookieName) = sessionID
        BY <1>5, <3>3, <3>4
      <3>6. sessions' = [sessions EXCEPT ![sessionID] = request.payload.email]
        BY <1>3, <3>1, <3>5
      <3>7. DOMAIN sessions' = {sessionID} /\ sessions'[sessionID] = request.payload.email
        BY <3>5, <3>6
      <3>8. case.jar => JarOfLogin'
        BY <1>5, <1>7, <2>2, <3>4
      <3> QED
        BY <1>4, <1>6, <3>2, <3>7, <3>8
    <2>4. CASE answer.status # 200
      <3>1. reply.sessions = sessions
        BY <2>2, <2>4 DEF UpdateEffect, answer
      <3>2. ~IsChange(e)
        BY <1>2, <2>4 DEF IsChange
      <3> QED
        BY <1>8, <2>2, <3>1, <3>2
    <2> QED
      BY <2>3, <2>4
  <1>12. CASE request.path \notin {"/login", "/me", "/profile/email"}
    <2>1. reply.sessions = sessions /\ answer.cookies = <<>>
      BY <1>3, <1>12, Routes DEF sent, answer
    <2>2. ~IsChange(e)
      BY <1>2, <1>12 DEF IsChange
    <2> QED
      BY <1>8, <2>1, <2>2
  <1> QED
    BY <1>9, <1>10, <1>11, <1>12

\* With a call that is right at the end, all calls of the log are.
LEMMA HistoryGrows ==
    ASSUME LogTyped, NEW e, log' = Append(log, e), case' = case, case.handler = "api",
           SessionFollowsHistory,
           e.served => RightAnswer(e, Changes(Len(log)) # {}, AddressAfter(Len(log)))
    PROVE  SessionFollowsHistory'
  <1>1. PICK S : log \in Seq(S)
    BY DEF LogTyped
  <1>2. /\ Len(log) \in Nat /\ DOMAIN log = 1 .. Len(log) /\ DOMAIN log' = 1 .. Len(log) + 1
        /\ \A i \in 1 .. Len(log) : log'[i] = log[i]
        /\ log'[Len(log) + 1] = e
    BY <1>1
  <1>3. SessionFollowsHistory' <=>
            (case'.handler = "api" =>
                \A i \in Served' :
                    RightAnswer(log'[i], Changes(i - 1)' # {}, AddressAfter(i - 1)'))
    BY Zenon DEF SessionFollowsHistory, RightAnswer, Token
  <1>4. ASSUME NEW call, NEW n \in 0 .. Len(log),
               RightAnswer(call, Changes(n) # {}, AddressAfter(n))
        PROVE  RightAnswer(call, Changes(n)' # {}, AddressAfter(n)')
    <2>1. Changes(n)' = Changes(n) /\ (Changes(n) # {} => AddressAfter(n)' = AddressAfter(n))
      BY ChangesStay
    <2>2. CASE Changes(n) # {}
      BY <1>4, <2>1, <2>2
    <2>3. CASE Changes(n) = {}
      BY <1>4, <2>1, <2>3 DEF RightAnswer
    <2> QED
      BY <2>2, <2>3
  <1>5. ASSUME NEW i \in Served'
        PROVE  RightAnswer(log'[i], Changes(i - 1)' # {}, AddressAfter(i - 1)')
    <2>1. i \in 1 .. Len(log) + 1 /\ log'[i].served
      BY <1>2 DEF Served
    <2>2. i - 1 \in 0 .. Len(log)
      BY <1>2, <2>1
    <2>3. RightAnswer(log'[i], Changes(i - 1) # {}, AddressAfter(i - 1))
      <3>1. CASE i \in 1 .. Len(log)
        <4>1. i \in Served /\ log'[i] = log[i]
          BY <1>2, <2>1, <3>1 DEF Served
        <4> QED
          BY <4>1, HistoryOfCalls
      <3>2. CASE i = Len(log) + 1
        <4>1. i - 1 = Len(log) /\ e.served /\ log'[i] = e
          BY <1>2, <2>1, <3>2
        <4> QED
          BY <4>1
      <3> QED
        BY <1>2, <2>1, <3>1, <3>2
    <2> QED
      BY <1>4, <2>2, <2>3
  <1> QED
    BY <1>3, <1>5

-----------------------------------------------------------------------------

\* The jar of a case has exactly the cookies whose last Set-Cookie, over all the answers so
\* far, did not delete them, each as it was last set: for any answers in any order, served
\* to calls that then failed or not.
THEOREM JarHasLastSet == Spec => []JarIsLastSet
  <1>1. SessionInv => JarIsLastSet
    BY DEF SessionInv
  <1> QED
    BY <1>1, SessionInvariant, PTL

\* After every call of a case with a jar, a cookie that the step captured is in the jar with
\* the captured value, or was a deletion and is gone: the two loops over the Set-Cookies of
\* an answer agree for every answer, with any number of cookies of a name.
THEOREM CapturedIsStored == Spec => []CapturedAgreesWithJar
  <1>1. Init => CapturedAgreesWithJar
    BY DEF Init, CapturedAgreesWithJar
  <1>2. ASSUME SessionInv, CapturedAgreesWithJar, [Next]_vars
        PROVE  CapturedAgreesWithJar'
    <2> USE DEF SessionInv
    <2>1. CASE InvokeRefused
      <3>1. PICK e : log' = Append(log, e) /\ ~e.served
        BY <2>1 DEF InvokeRefused
      <3>2. PICK S : log \in Seq(S)
        BY <1>2 DEF LogTyped
      <3>3. Last(log') = e
        BY <3>1, <3>2 DEF Last
      <3> QED
        BY <3>1, <3>3 DEF CapturedAgreesWithJar
    <2>2. CASE InvokeServed
      <3>1. PICK request \in case.requests : \E reply \in Serve(httpRequest(request)) :
               ServedWith(request, reply)
        BY <2>2, Zenon DEF InvokeServed, ServedWith, Entry
      <3>2. PICK reply \in Serve(httpRequest(request)) : ServedWith(request, reply)
        BY <3>1
      <3>3. case' = case
        BY <2>2 DEF InvokeServed
      <3>4. reply.answer.cookies \in Seq(AnyCookie)
        BY AnswerTypes
      <3> QED
        BY <1>2, <3>2, <3>3, <3>4, ServedAgrees
    <2>3. CASE UNCHANGED vars
      <3>1. case' = case /\ jar' = jar /\ log' = log
        BY <2>3 DEF vars
      <3> QED
        BY <1>2, <3>1 DEF CapturedAgreesWithJar
    <2> QED
      BY <1>2, <2>1, <2>2, <2>3 DEF Next
  <1> QED
    BY <1>1, <1>2, SessionInvariant, PTL DEF Spec

\* The steps of a case that leave cookies and token to the jar are in the session of the last
\* login, whatever the other calls of the case were and however they failed: GET /me answers
\* with the address that the last change left, and is refused exactly when no login was
\* accepted before; an update with the token of the jar is never forbidden.  The session of
\* the API and the jar of the harness are two pieces of state that nothing but the answers
\* ties together.
THEOREM StepsShareSession == Spec => []SessionFollowsHistory
  <1> DEFINE Inv == case.handler = "api" => HeldSession /\ SessionFollowsHistory
  <1>1. Init => Inv
    <2> SUFFICES ASSUME Init PROVE HeldSession /\ SessionFollowsHistory
      OBVIOUS
    <2>1. jar = <<>> /\ sessions = <<>> /\ log = <<>>
      BY DEF Init
    <2>2. DOMAIN jar = {} /\ DOMAIN sessions = {} /\ Served = {}
      BY <2>1 DEF Served
    <2>3. Changes(Len(log)) = {}
      BY <2>2 DEF Changes
    <2>4. HeldSession
      BY <2>2, <2>3 DEF HeldSession
    <2>5. SessionFollowsHistory
      BY <2>2, HistoryOfCalls
    <2> QED
      BY <2>4, <2>5
  <1>2. ASSUME SessionInv, Inv, [Next]_vars PROVE Inv'
    <2> SUFFICES ASSUME case'.handler = "api" PROVE HeldSession' /\ SessionFollowsHistory'
      OBVIOUS
    <2>1. case' = case
      BY <1>2 DEF Next, InvokeRefused, InvokeServed, vars
    <2>2. HeldSession /\ SessionFollowsHistory /\ case.handler = "api"
      BY <1>2, <2>1
    <2>3. LogTyped /\ jar \in MapsTo(AnyCookie) /\ case \in Cases
      BY <1>2 DEF SessionInv
    <2>4. CASE InvokeRefused
      <3>1. PICK e : log' = Append(log, e) /\ ~e.served
        BY <2>4 DEF InvokeRefused
      <3>2. jar' = jar /\ sessions' = sessions
        BY <2>4 DEF InvokeRefused
      <3>3. SessionFollowsHistory'
        BY <2>1, <2>2, <2>3, <3>1, HistoryGrows
      <3>4. /\ Changes(Len(log))' = {} <=> Changes(Len(log)) = {}
            /\ Changes(Len(log)) # {} => AddressAfter(Len(log))' = AddressAfter(Len(log))
        BY <2>3, <3>1, ChangesGrow DEF IsChange
      <3>5. HeldSession'
        BY <2>1, <2>2, <3>2, <3>4 DEF HeldSession, JarOfLogin
      <3> QED
        BY <3>3, <3>5
    <2>5. CASE InvokeServed
      <3>1. PICK request \in case.requests :
               /\ ~Refused(request)
               /\ \E reply \in Serve(httpRequest(request)) :
                     ServedWith(request, reply) /\ sessions' = reply.sessions
        BY <2>5, Zenon DEF InvokeServed, ServedWith, Entry
      <3>2. PICK reply \in Serve(httpRequest(request)) :
               ServedWith(request, reply) /\ sessions' = reply.sessions
        BY <3>1
      <3>3. reply = ServeHTTP(sessions, httpRequest(request))
        BY <2>2, <3>2 DEF Serve
      <3>4. HeldSession'
        BY <2>1, <2>2, <2>3, <3>2, <3>3, AnswerKeepsSession
      <3> DEFINE e == Entry(request, reply)
      <3>5. RightAnswer(e, Changes(Len(log)) # {}, AddressAfter(Len(log)))
        BY <2>2, <2>3, <3>1, <3>3, CallIsRight
      <3>6. log' = Append(log, e)
        BY <3>2 DEF ServedWith
      <3> HIDE DEF e
      <3>7. SessionFollowsHistory'
        BY <2>1, <2>2, <2>3, <3>5, <3>6, HistoryGrows
      <3> QED
        BY <3>4, <3>7
    <2>6. CASE UNCHANGED vars
      <3>1. case' = case /\ jar' = jar /\ sessions' = sessions /\ log' = log
        BY <2>6 DEF vars
      <3>2. HeldSession'
        BY <2>2, <3>1 DEF HeldSession, JarOfLogin, Changes, AddressAfter, Served
      <3>3. SessionFollowsHistory'
        <4>1. Served' = Served
          BY <3>1 DEF Served
        <4>2. \A n : Changes(n)' = Changes(n)
          BY <3>1, <4>1 DEF Changes
        <4>3. \A n : AddressAfter(n)' = AddressAfter(n)
          BY <3>1, <4>2 DEF AddressAfter
        <4>4. SessionFollowsHistory' <=>
                  (case'.handler = "api" =>
                      \A i \in Served' :
                          RightAnswer(log'[i], Changes(i - 1)' # {}, AddressAfter(i - 1)'))
          BY Zenon DEF SessionFollowsHistory, RightAnswer, Token
        <4> QED
          BY <2>2, <3>1, <4>1, <4>2, <4>3, <4>4, HistoryOfCalls
      <3> QED
        BY <3>2, <3>3
    <2> QED
      BY <1>2, <2>4, <2>5, <2>6 DEF Next
  <1>3. Init /\ [][Next]_vars => []Inv
    <2> HIDE DEF Inv
    <2>1. Spec => []SessionInv
      BY SessionInvariant
    <2> QED
      BY <1>1, <1>2, <2>1, PTL DEF Spec
  <1> HIDE DEF Inv
  <1>4. Inv => SessionFollowsHistory
    BY DEF Inv, SessionFollowsHistory
  <1> QED
    BY <1>3, <1>4, PTL DEF Spec
=============================================================================
