---------------------------- MODULE AdmissionProofs ----------------------------
(***************************************************************************)
(* Proofs about what stands between a client and a run: the limiter of     *)
(* failed authentications (AuthLimiter), what llama.cpp knows of its       *)
(* binaries when a run is admitted (Discovery), and the planning of a      *)
(* sweep (SweepPlan).  The first two keep a Map whose order decides what   *)
(* is evicted, and share the lemmas of part 1.                             *)
(***************************************************************************)
EXTENDS AuthLimiter, Discovery, SweepPlan, SequenceTheorems, FiniteSetTheorems,
        WellFoundedInduction, TLAPS

-------------------------------------------------------------------------------
(***************************************************************************)
(* Part 1: KeepOnly.                                                       *)
(***************************************************************************)

\* The least number principle, for a set of natural numbers.
LEMMA HasLeast ==
  ASSUME NEW S \in SUBSET Nat, S # {}
  PROVE  \E m \in S : \A k \in S : m <= k
<1> DEFINE R == OpToRel(<, Nat)
<1>1. IsWellFoundedOn(R, Nat)
  BY NatLessThanWellFounded
<1>2. \A k, m \in Nat : k < m => <<k, m>> \in R
  BY DEF OpToRel
<1> HIDE DEF R
<1>3. PICK m \in S : \A k \in S : ~ (<<k, m>> \in R)
  BY <1>1, WFMin
<1>4. \A k \in S : ~ (k < m)
  BY <1>2, <1>3
<1>5. \A k \in S : m <= k
  BY <1>4
<1>6. QED
  BY <1>5

\* A set with the empty sequence that is closed under Append has every
\* sequence.
LEMMA ClosedUnderAppend ==
  ASSUME NEW T, NEW B, <<>> \in B,
         \A s \in Seq(T), e \in T : s \in B => Append(s, e) \in B
  PROVE  \A s \in Seq(T) : s \in B
<1> DEFINE Left == {n \in Nat : \E s \in Seq(T) : Len(s) = n /\ s \notin B}
<1>1. SUFFICES ASSUME NEW s0 \in Seq(T), s0 \notin B
               PROVE  FALSE
  OBVIOUS
<1>2. Len(s0) \in Left
  BY <1>1
<1>3. PICK n \in Left : \A k \in Left : n <= k
  BY <1>2, HasLeast
<1>4. PICK s \in Seq(T) : Len(s) = n /\ s \notin B
  BY <1>3
<1>5. s # <<>>
  BY <1>4
<1>6. PICK r \in Seq(T), e \in T : s = Append(r, e)
  BY <1>5, SequenceEmptyOrAppend
<1>7. Len(r) \in Nat /\ Len(s) = Len(r) + 1
  BY <1>6
<1>8. r \in B
  BY <1>3, <1>4, <1>7
<1>9. QED
  BY <1>4, <1>6, <1>8

\* What is kept of each of the first n prefixes of s.
Kept(f, s, S, n) ==
    f = [i \in 0 .. n |-> IF i = 0 THEN <<>>
                          ELSE IF s[i] \in S THEN Append(f[i - 1], s[i])
                          ELSE f[i - 1]]

LEMMA KeptExists ==
  ASSUME NEW s, NEW S, NEW n \in Nat
  PROVE  \E f : Kept(f, s, S, n)
<1> DEFINE Bad == {m \in Nat : ~ \E f : Kept(f, s, S, m)}
<1>1. SUFFICES ASSUME Bad # {}
               PROVE  FALSE
  OBVIOUS
<1>2. PICK m \in Bad : \A k \in Bad : m <= k
  BY <1>1, HasLeast
<1>3. CASE m = 0
  <2> DEFINE f == [i \in 0 .. m |-> <<>>]
  <2>1. Kept(f, s, S, m)
    BY <1>3 DEF Kept
  <2>2. QED
    BY <2>1
<1>4. CASE m # 0
  <2>1. m - 1 \in Nat /\ m - 1 \notin Bad
    BY <1>2, <1>4
  <2>2. PICK g : Kept(g, s, S, m - 1)
    BY <2>1
  <2> DEFINE Next1(q) == IF s[m] \in S THEN Append(q, s[m]) ELSE q
             f == [i \in 0 .. m |-> IF i < m THEN g[i] ELSE Next1(g[m - 1])]
  <2>3. \A i \in 0 .. m : f[i] = IF i = 0 THEN <<>>
                                 ELSE IF s[i] \in S THEN Append(f[i - 1], s[i])
                                 ELSE f[i - 1]
    <3>1. \A i \in 0 .. m - 1 : g[i] = IF i = 0 THEN <<>>
                                 ELSE IF s[i] \in S THEN Append(g[i - 1], s[i])
                                 ELSE g[i - 1]
      BY <2>2 DEF Kept
    <3>2. \A i \in 0 .. m - 1 : f[i] = g[i]
      BY <2>1
    <3>3. f[m] = Next1(f[m - 1])
      BY <2>1, <3>2
    <3> HIDE DEF f
    <3>4. QED
      BY <1>4, <2>1, <3>1, <3>2, <3>3
  <2>4. f = [i \in 0 .. m |-> f[i]]
    OBVIOUS
  <2> HIDE DEF f
  <2>5. Kept(f, s, S, m)
    BY <2>3, <2>4 DEF Kept
  <2>6. QED
    BY <2>5
<1>5. QED
  BY <1>3, <1>4

\* What is kept of a prefix depends on the prefix alone.
LEMMA KeptUnique ==
  ASSUME NEW s, NEW t, NEW S, NEW m \in Nat, NEW n \in Nat,
         NEW f, NEW g, Kept(f, s, S, m), Kept(g, t, S, n),
         NEW k \in Nat, k <= m, k <= n, \A i \in 1 .. k : s[i] = t[i]
  PROVE  f[k] = g[k]
<1> DEFINE Bad == {i \in 0 .. k : f[i] # g[i]}
<1>1. SUFFICES ASSUME Bad # {}
               PROVE  FALSE
  BY k \in 0 .. k
<1>2. Bad \in SUBSET Nat
  OBVIOUS
<1>3. PICK i \in Bad : \A j \in Bad : i <= j
  BY <1>1, <1>2, HasLeast
<1>4. i \in 0 .. k /\ i \in 0 .. m /\ i \in 0 .. n /\ f[i] # g[i]
  BY <1>3
<1>5. f[i] = IF i = 0 THEN <<>> ELSE IF s[i] \in S THEN Append(f[i - 1], s[i])
                                ELSE f[i - 1]
  BY <1>4 DEF Kept
<1>6. g[i] = IF i = 0 THEN <<>> ELSE IF t[i] \in S THEN Append(g[i - 1], t[i])
                                ELSE g[i - 1]
  BY <1>4 DEF Kept
<1>7. CASE i = 0
  BY <1>4, <1>5, <1>6, <1>7
<1>8. CASE i # 0
  <2>1. i - 1 \in 0 .. k /\ i \in 1 .. k /\ i - 1 \notin Bad
    BY <1>3, <1>4, <1>8
  <2>2. f[i - 1] = g[i - 1] /\ s[i] = t[i]
    BY <2>1
  <2>3. QED
    BY <1>4, <1>5, <1>6, <2>2
<1>9. QED
  BY <1>7, <1>8

LEMMA KeepOnlyIsKept ==
  ASSUME NEW T, NEW s \in Seq(T), NEW S
  PROVE  \E f : Kept(f, s, S, Len(s)) /\ KeepOnly(s, S) = f[Len(s)]
<1>1. Len(s) \in Nat
  OBVIOUS
<1> DEFINE f == CHOOSE g : Kept(g, s, S, Len(s))
<1>2. Kept(f, s, S, Len(s))
  BY <1>1, KeptExists
<1>3. KeepOnly(s, S) = f[Len(s)]
  BY DEF KeepOnly, Kept
<1> HIDE DEF f
<1>4. QED
  BY <1>2, <1>3

\* KeepOnly, from the front to the end.
LEMMA KeepOnlyEmpty ==
  ASSUME NEW S
  PROVE  KeepOnly(<<>>, S) = <<>>
<1>1. <<>> \in Seq({}) /\ Len(<<>>) = 0
  OBVIOUS
<1>2. PICK f : Kept(f, <<>>, S, 0) /\ KeepOnly(<<>>, S) = f[0]
  BY <1>1, KeepOnlyIsKept
<1>3. QED
  BY <1>2 DEF Kept

LEMMA KeepOnlyAppend ==
  ASSUME NEW T, NEW s \in Seq(T), NEW e \in T, NEW S
  PROVE  KeepOnly(Append(s, e), S) = IF e \in S THEN Append(KeepOnly(s, S), e)
                                                ELSE KeepOnly(s, S)
<1> DEFINE t == Append(s, e)
           n == Len(s)
<1>1. /\ t \in Seq(T) /\ n \in Nat /\ Len(t) = n + 1 /\ t[n + 1] = e
      /\ \A i \in 1 .. n : s[i] = t[i]
  BY AppendProperties
<1>2. PICK f : Kept(f, s, S, n) /\ KeepOnly(s, S) = f[n]
  BY KeepOnlyIsKept
<1> HIDE DEF t, n
<1>3. PICK g : Kept(g, t, S, n + 1) /\ KeepOnly(t, S) = g[n + 1]
  BY <1>1, KeepOnlyIsKept
<1>4. f[n] = g[n]
  BY <1>1, <1>2, <1>3, KeptUnique
<1>5. g[n + 1] = IF e \in S THEN Append(g[n], e) ELSE g[n]
  <2>1. n + 1 \in 0 .. n + 1 /\ n + 1 # 0 /\ (n + 1) - 1 = n
    BY <1>1
  <2>2. g[n + 1] = IF t[n + 1] \in S THEN Append(g[(n + 1) - 1], t[n + 1])
                                    ELSE g[(n + 1) - 1]
    BY <1>3, <2>1 DEF Kept
  <2>3. QED
    BY <1>1, <2>1, <2>2
<1>6. QED
  BY <1>2, <1>3, <1>4, <1>5 DEF t

LEMMA ToSetAppend ==
  ASSUME NEW T, NEW s \in Seq(T), NEW e \in T
  PROVE  ToSet(Append(s, e)) = ToSet(s) \cup {e}
<1> DEFINE t == Append(s, e)
<1>1. /\ t \in Seq(T) /\ Len(s) \in Nat /\ Len(t) = Len(s) + 1
      /\ t[Len(s) + 1] = e /\ \A i \in 1 .. Len(s) : t[i] = s[i]
      /\ DOMAIN s = 1 .. Len(s) /\ DOMAIN t = 1 .. Len(t)
  BY AppendProperties
<1> HIDE DEF t
<1>2. DOMAIN t = DOMAIN s \cup {Len(s) + 1}
  BY <1>1
<1>3. ToSet(t) = ToSet(s) \cup {e}
  BY <1>1, <1>2 DEF ToSet
<1>4. QED
  BY <1>3 DEF t

LEMMA KeepOnlyElements ==
  ASSUME NEW T, NEW S, NEW s \in Seq(T)
  PROVE  /\ KeepOnly(s, S) \in Seq(T)
         /\ ToSet(KeepOnly(s, S)) = ToSet(s) \cap S
         /\ Len(KeepOnly(s, S)) <= Len(s)
<1> DEFINE Good(q) == /\ KeepOnly(q, S) \in Seq(T)
                      /\ ToSet(KeepOnly(q, S)) = ToSet(q) \cap S
                      /\ Len(KeepOnly(q, S)) <= Len(q)
           B == {q \in Seq(T) : Good(q)}
<1>1. <<>> \in B
  <2>1. ToSet(<<>>) = {} /\ <<>> \in Seq(T) /\ Len(<<>>) = 0
    BY DEF ToSet
  <2>2. KeepOnly(<<>>, S) = <<>>
    BY KeepOnlyEmpty
  <2>3. ToSet(KeepOnly(<<>>, S)) = ToSet(<<>>) \cap S
    BY Zenon, <2>1, <2>2
  <2>4. KeepOnly(<<>>, S) \in Seq(T)
    BY Zenon, <2>1, <2>2
  <2>5. Len(KeepOnly(<<>>, S)) = Len(<<>>)
    BY Zenon, <2>2
  <2>6. QED
    BY <2>1, <2>3, <2>4, <2>5
<1>2. ASSUME NEW q \in Seq(T), NEW e \in T, q \in B
      PROVE  Append(q, e) \in B
  <2> DEFINE k == KeepOnly(q, S)
             a == KeepOnly(Append(q, e), S)
  <2>1. k \in Seq(T) /\ ToSet(k) = ToSet(q) \cap S /\ Len(k) <= Len(q)
    BY <1>2
  <2>2. a = IF e \in S THEN Append(k, e) ELSE k
    BY KeepOnlyAppend
  <2>3. Append(q, e) \in Seq(T) /\ Len(Append(q, e)) = Len(q) + 1 /\ Len(q) \in Nat
    BY AppendProperties
  <2>4. ToSet(Append(q, e)) = ToSet(q) \cup {e}
    BY ToSetAppend
  <2> HIDE DEF k
  <2>5. Append(k, e) \in Seq(T) /\ Len(Append(k, e)) = Len(k) + 1 /\ Len(k) \in Nat
    BY <2>1, AppendProperties
  <2>6. ToSet(Append(k, e)) = ToSet(k) \cup {e}
    BY <2>1, ToSetAppend
  <2> HIDE DEF a
  <2>7. a \in Seq(T) /\ Len(a) <= Len(Append(q, e))
    BY <2>1, <2>2, <2>3, <2>5
  <2>8. ToSet(a) = ToSet(Append(q, e)) \cap S
    BY <2>1, <2>2, <2>4, <2>6
  <2>9. QED
    BY <2>3, <2>7, <2>8 DEF a
<1> HIDE DEF B
<1>3. \A q \in Seq(T) : q \in B
  BY <1>1, <1>2, ClosedUnderAppend
<1>4. QED
  BY <1>3 DEF B

\* Two deletions in turn are one.
LEMMA KeepOnlyTwice ==
  ASSUME NEW T, NEW A, NEW C, NEW s \in Seq(T)
  PROVE  KeepOnly(KeepOnly(s, A), C) = KeepOnly(s, A \cap C)
<1> DEFINE Good(q) == KeepOnly(KeepOnly(q, A), C) = KeepOnly(q, A \cap C)
           B == {q \in Seq(T) : Good(q)}
<1>1. <<>> \in B
  BY KeepOnlyEmpty
<1>2. ASSUME NEW q \in Seq(T), NEW e \in T, q \in B
      PROVE  Append(q, e) \in B
  <2> DEFINE k == KeepOnly(q, A)
  <2>1. k \in Seq(T) /\ KeepOnly(k, C) = KeepOnly(q, A \cap C)
    BY <1>2, KeepOnlyElements
  <2>2. KeepOnly(Append(q, e), A) = IF e \in A THEN Append(k, e) ELSE k
    BY KeepOnlyAppend
  <2>3. KeepOnly(Append(q, e), A \cap C) =
            IF e \in A \cap C THEN Append(KeepOnly(q, A \cap C), e)
                              ELSE KeepOnly(q, A \cap C)
    BY KeepOnlyAppend
  <2> HIDE DEF k
  <2>4. KeepOnly(Append(k, e), C) = IF e \in C THEN Append(KeepOnly(k, C), e)
                                               ELSE KeepOnly(k, C)
    BY <2>1, KeepOnlyAppend
  <2>5. Append(q, e) \in Seq(T)
    BY AppendProperties
  <2>6. KeepOnly(KeepOnly(Append(q, e), A), C) = KeepOnly(Append(q, e), A \cap C)
    <3>1. CASE e \in A /\ e \in C
      BY <2>1, <2>2, <2>3, <2>4, <3>1
    <3>2. CASE e \in A /\ e \notin C
      BY <2>1, <2>2, <2>3, <2>4, <3>2
    <3>3. CASE e \notin A
      BY <2>1, <2>2, <2>3, <3>3
    <3>4. QED
      BY <3>1, <3>2, <3>3
  <2>7. QED
    BY <2>5, <2>6
<1> HIDE DEF B
<1>3. \A q \in Seq(T) : q \in B
  BY <1>1, <1>2, ClosedUnderAppend
<1>4. QED
  BY <1>3 DEF B

\* Only the entries that are there matter.
LEMMA KeepOnlySame ==
  ASSUME NEW T, NEW A, NEW C, NEW s \in Seq(T),
         \A e \in ToSet(s) : e \in A <=> e \in C
  PROVE  KeepOnly(s, A) = KeepOnly(s, C)
<1> DEFINE Agree(q) == \A e \in ToSet(q) : e \in A <=> e \in C
           B == {q \in Seq(T) : Agree(q) => KeepOnly(q, A) = KeepOnly(q, C)}
<1>1. <<>> \in B
  BY KeepOnlyEmpty
<1>2. ASSUME NEW q \in Seq(T), NEW e \in T, q \in B
      PROVE  Append(q, e) \in B
  <2>1. KeepOnly(Append(q, e), A) = IF e \in A THEN Append(KeepOnly(q, A), e)
                                               ELSE KeepOnly(q, A)
    BY KeepOnlyAppend
  <2>2. KeepOnly(Append(q, e), C) = IF e \in C THEN Append(KeepOnly(q, C), e)
                                               ELSE KeepOnly(q, C)
    BY KeepOnlyAppend
  <2>3. ToSet(Append(q, e)) = ToSet(q) \cup {e}
    BY ToSetAppend
  <2>4. ASSUME Agree(Append(q, e))
        PROVE  KeepOnly(Append(q, e), A) = KeepOnly(Append(q, e), C)
    <3>1. KeepOnly(q, A) = KeepOnly(q, C)
      BY <1>2, <2>3, <2>4
    <3>2. e \in A <=> e \in C
      BY <2>3, <2>4
    <3>3. QED
      BY <2>1, <2>2, <3>1, <3>2
  <2>5. Append(q, e) \in Seq(T)
    BY AppendProperties
  <2>6. QED
    BY <2>4, <2>5
<1> HIDE DEF B
<1>3. \A q \in Seq(T) : q \in B
  BY <1>1, <1>2, ClosedUnderAppend
<1>4. QED
  BY <1>3 DEF B

LEMMA KeepOnlyAll ==
  ASSUME NEW T, NEW S, NEW s \in Seq(T), ToSet(s) \subseteq S
  PROVE  KeepOnly(s, S) = s
<1> DEFINE B == {q \in Seq(T) : ToSet(q) \subseteq S => KeepOnly(q, S) = q}
<1>1. <<>> \in B
  BY KeepOnlyEmpty
<1>2. ASSUME NEW q \in Seq(T), NEW e \in T, q \in B
      PROVE  Append(q, e) \in B
  <2>1. KeepOnly(Append(q, e), S) = IF e \in S THEN Append(KeepOnly(q, S), e)
                                               ELSE KeepOnly(q, S)
    BY KeepOnlyAppend
  <2>2. ToSet(Append(q, e)) = ToSet(q) \cup {e} /\ Append(q, e) \in Seq(T)
    BY ToSetAppend, AppendProperties
  <2>3. ASSUME ToSet(Append(q, e)) \subseteq S
        PROVE  KeepOnly(Append(q, e), S) = Append(q, e)
    BY <1>2, <2>1, <2>2, <2>3
  <2>4. QED
    BY <2>2, <2>3
<1> HIDE DEF B
<1>3. \A q \in Seq(T) : q \in B
  BY <1>1, <1>2, ClosedUnderAppend
<1>4. QED
  BY <1>3 DEF B

-------------------------------------------------------------------------------
(***************************************************************************)
(* Part 2: Discovery.  What the validations know, and how fresh it is.     *)
(***************************************************************************)

ValidationRecord ==
    [at : {"idle", "guard", "guard wait", "strict", "strict wait", "verdict",
           "answered"},
     request : Requests,
     hints : Binaries \cup {Unknown, Unneeded},
     flags : Binaries \cup {Unknown, Unneeded},
     probed : Nat,
     verdict : {"none", "accepted", "refused"}]

ProbeRecord == [since : Nat, read : Binaries \cup {Unread, Unneeded}]

DiscoveryTypeOK ==
    /\ binary \in [Machines -> Binaries]
    /\ changedAt \in [Machines -> Nat]
    /\ cache \in Seq(CacheEntry)
    /\ probes \in [Remotes -> ProbeRecord]
    /\ localFlags \in Binaries \cup {Unread, Unneeded}
    /\ validation \in [Validations -> ValidationRecord]
    /\ now \in Nat

\* A probe is not older than ProbeMs, and what it read was there since.
ProbesAreFresh ==
    \A r \in Remotes : Probing(r) =>
        /\ probes[r].since <= now /\ now <= probes[r].since + ProbeMs
        /\ probes[r].read \in Binaries =>
              \/ probes[r].read = binary[r]
              \/ changedAt[r] >= probes[r].since

\* A summary was true within the time of a probe before it was cached.
Honest(e) ==
    /\ e.expiresAt <= now + RemoteHelpCacheTtlMs
    /\ \/ e.value = binary[e.key]
       \/ changedAt[e.key] + RemoteHelpCacheTtlMs + ProbeMs >= e.expiresAt

CacheIsHonest == \A e \in ToSet(cache) : Honest(e)

\* What is known of machine m is true, or was until recently.
Knows(m, known) ==
    known \in Binaries =>
        \/ known = binary[m]
        \/ now < changedAt[m] + RemoteHelpCacheTtlMs + ProbeMs

\* The probes a validation has spent and what it has learnt, by its place.
Accounted(v) ==
    LET w == validation[v]
    IN  /\ w.at \in {"idle", "guard"} => w.probed = 0 /\ w.hints = Unneeded
        /\ w.at = "guard wait" => w.probed <= 1 /\ Target(v) # Local
        /\ w.at = "strict" =>
              /\ w.probed <= 1
              /\ w.hints = Unneeded => w.probed = 0
              /\ w.hints \in Binaries => Found(Target(v)) # {}
        /\ w.at = "strict wait" =>
              /\ w.hints \notin Binaries
              /\ w.hints = Unneeded => w.probed <= 1
        /\ w.at \in {"verdict", "answered"} => (w.probed > 1 => w.hints = Unknown)
        /\ w.at \in {"idle", "guard", "guard wait", "strict", "strict wait"}
              => w.flags = Unneeded

Informed(v) ==
    Target(v) # Local =>
        /\ At(v, "strict") \/ At(v, "verdict")
              => Knows(Target(v), validation[v].hints)
        /\ At(v, "verdict") => Knows(Target(v), validation[v].flags)

DiscoveryInv ==
    /\ DiscoveryTypeOK
    /\ ProbesAreFresh
    /\ CacheIsHonest
    /\ \A v \in Validations : Accounted(v) /\ Informed(v)

\* The entries a reader finds are those of its machine that have not expired.
LEMMA SweptElements ==
  ASSUME NEW c \in Seq(CacheEntry), NEW n
  PROVE  LET k == KeepOnly(c, {e \in CacheEntry : e.expiresAt > n})
         IN  /\ k \in Seq(CacheEntry)
             /\ ToSet(k) = {e \in ToSet(c) : e.expiresAt > n}
             /\ Len(k) <= Len(c)
<1> DEFINE S == {e \in CacheEntry : e.expiresAt > n}
<1>1. ToSet(c) \subseteq CacheEntry
  BY DEF ToSet
<1>2. ToSet(c) \cap S = {e \in ToSet(c) : e.expiresAt > n}
  BY <1>1
<1> HIDE DEF S
<1>3. /\ KeepOnly(c, S) \in Seq(CacheEntry)
      /\ ToSet(KeepOnly(c, S)) = ToSet(c) \cap S
      /\ Len(KeepOnly(c, S)) <= Len(c)
  BY KeepOnlyElements
<1>4. QED
  BY <1>2, <1>3 DEF S

LEMMA FoundElements ==
  ASSUME cache \in Seq(CacheEntry), NEW r
  PROVE  Found(r) = {e \in ToSet(cache) : e.expiresAt > now /\ e.key = r}
<1>1. ToSet(SweepExpiredCacheEntries(cache)) =
          {e \in ToSet(cache) : e.expiresAt > now}
  BY SweptElements DEF SweepExpiredCacheEntries
<1>2. QED
  BY <1>1 DEF Found

LEMMA FoundElementsNext ==
  ASSUME (cache \in Seq(CacheEntry))', NEW r
  PROVE  Found(r)' = {e \in ToSet(cache') : e.expiresAt > now' /\ e.key = r}
<1>1. ToSet(SweepExpiredCacheEntries(cache))' =
          {e \in ToSet(cache') : e.expiresAt > now'}
  BY SweptElements DEF SweepExpiredCacheEntries
<1>2. QED
  BY <1>1 DEF Found

LEMMA CacheElements ==
  ASSUME NEW c \in Seq(CacheEntry)
  PROVE  ToSet(c) \subseteq CacheEntry
  BY DEF ToSet

LEMMA TargetType ==
  ASSUME DiscoveryTypeOK, NEW v \in Validations
  PROVE  /\ validation[v] \in ValidationRecord
         /\ Target(v) \in Machines
         /\ Target(v) # Local => Target(v) \in Remotes
<1>1. validation[v] \in ValidationRecord
  BY DEF DiscoveryTypeOK
<1>2. validation[v].request \in Requests
  BY <1>1 DEF ValidationRecord
<1>3. QED
  BY <1>1, <1>2, DiscoveryAssumption DEF Target, Request, Machines

\* What a continuation of validation v leaves alone.
OnlyContinues(v) ==
    /\ UNCHANGED <<binary, changedAt, now>>
    /\ cache' = cache \/ cache' = SweepExpiredCacheEntries(cache)
    /\ (probes \in [Remotes -> ProbeRecord])' /\ ProbesAreFresh'
    /\ (localFlags \in Binaries \cup {Unread, Unneeded})'
    /\ (validation \in [Validations -> ValidationRecord])'
    /\ \A u \in Validations \ {v} : validation'[u] = validation[u]

LEMMA ContinueFrame ==
  ASSUME DiscoveryInv, NEW v \in Validations, OnlyContinues(v)
  PROVE  /\ \A r : Found(r)' = Found(r)
         /\ DiscoveryTypeOK' /\ ProbesAreFresh' /\ CacheIsHonest'
         /\ \A u \in Validations \ {v} : Accounted(u)' /\ Informed(u)'
<1>1. cache \in Seq(CacheEntry)
  BY DEF DiscoveryInv, DiscoveryTypeOK
<1>2. /\ SweepExpiredCacheEntries(cache) \in Seq(CacheEntry)
      /\ ToSet(SweepExpiredCacheEntries(cache)) =
             {e \in ToSet(cache) : e.expiresAt > now}
  BY <1>1, SweptElements DEF SweepExpiredCacheEntries
<1>3. cache' \in Seq(CacheEntry) /\ now' = now
  BY <1>1, <1>2 DEF OnlyContinues
<1>4. /\ ToSet(cache') \subseteq ToSet(cache)
      /\ \A e \in ToSet(cache) : e.expiresAt > now => e \in ToSet(cache')
  BY <1>2 DEF OnlyContinues
<1>5. \A r : Found(r)' = Found(r)
  <2> TAKE r
  <2>1. Found(r) = {e \in ToSet(cache) : e.expiresAt > now /\ e.key = r}
    BY <1>1, FoundElements
  <2>2. Found(r)' = {e \in ToSet(cache') : e.expiresAt > now' /\ e.key = r}
    BY <1>3, FoundElementsNext
  <2>3. QED
    BY <1>3, <1>4, <2>1, <2>2
<1>6. DiscoveryTypeOK'
  BY <1>3 DEF DiscoveryInv, DiscoveryTypeOK, OnlyContinues
<1>7. CacheIsHonest'
  BY <1>4 DEF DiscoveryInv, CacheIsHonest, Honest, OnlyContinues
<1>8. ASSUME NEW u \in Validations \ {v}
      PROVE  Accounted(u)' /\ Informed(u)'
  <2>1. validation'[u] = validation[u] /\ Accounted(u) /\ Informed(u)
    BY DEF DiscoveryInv, OnlyContinues
  <2>2. Accounted(u)'
    BY <1>5, <2>1 DEF Accounted, Target, Request
  <2>3. Informed(u)'
    BY <2>1 DEF Informed, Target, Request, At, Knows, OnlyContinues
  <2>4. QED
    BY <2>2, <2>3
<1>9. QED
  BY <1>5, <1>6, <1>7, <1>8 DEF OnlyContinues

\* A continuation of v keeps the invariant if it keeps it for v.
LEMMA ContinueKeeps ==
  ASSUME DiscoveryInv, NEW v \in Validations, OnlyContinues(v),
         Accounted(v)', Informed(v)'
  PROVE  DiscoveryInv'
<1>1. /\ DiscoveryTypeOK' /\ ProbesAreFresh' /\ CacheIsHonest'
      /\ \A u \in Validations \ {v} : Accounted(u)' /\ Informed(u)'
  BY ContinueFrame
<1>2. \A u \in Validations : Accounted(u)' /\ Informed(u)'
  BY <1>1
<1>3. QED
  BY <1>1, <1>2 DEF DiscoveryInv

\* The validation's record changes to w, and nothing else but w's.
Moves(v, w) == validation' = [validation EXCEPT ![v] = w]

LEMMA MovesFrame ==
  ASSUME DiscoveryInv, NEW v \in Validations, NEW w \in ValidationRecord,
         Moves(v, w)
  PROVE  /\ validation' \in [Validations -> ValidationRecord]
         /\ validation'[v] = w
         /\ \A u \in Validations \ {v} : validation'[u] = validation[u]
  BY DEF DiscoveryInv, DiscoveryTypeOK, Moves

\* A continuation that touches neither the cache nor a probe.
LEMMA QuietMove ==
  ASSUME DiscoveryInv, NEW v \in Validations, NEW w \in ValidationRecord,
         Moves(v, w), UNCHANGED <<binary, changedAt, cache, probes, now>>,
         localFlags' \in Binaries \cup {Unread, Unneeded}
  PROVE  OnlyContinues(v) /\ validation'[v] = w /\ \A r : Found(r)' = Found(r)
<1>1. /\ validation' \in [Validations -> ValidationRecord]
      /\ validation'[v] = w
      /\ \A u \in Validations \ {v} : validation'[u] = validation[u]
  BY MovesFrame
<1>2. ProbesAreFresh'
  BY DEF DiscoveryInv, ProbesAreFresh, Probing
<1>3. OnlyContinues(v)
  BY <1>1, <1>2 DEF OnlyContinues, DiscoveryInv, DiscoveryTypeOK
<1>4. QED
  BY <1>1, <1>3, ContinueFrame

LEMMA AnswerKeeps ==
  ASSUME DiscoveryInv, NEW v \in Validations, Answer(v)
  PROVE  DiscoveryInv'
<1> DEFINE w == [validation[v] EXCEPT !.at = "answered",
                    !.verdict = IF Issues(v) = {} THEN "accepted" ELSE "refused"]
<1>1. validation[v] \in ValidationRecord
  BY TargetType DEF DiscoveryInv
<1>2. w \in ValidationRecord
  BY <1>1 DEF ValidationRecord
<1>3. Moves(v, w)
  BY DEF Answer, Moves, DiscoveryInv, DiscoveryTypeOK
<1>4. /\ w.at = "answered" /\ w.probed = validation[v].probed
      /\ w.hints = validation[v].hints /\ validation[v].at = "verdict"
  BY <1>1 DEF ValidationRecord, Answer, At
<1> HIDE DEF w
<1>5. OnlyContinues(v) /\ validation'[v] = w
  BY <1>2, <1>3, QuietMove DEF Answer, DiscoveryInv, DiscoveryTypeOK
<1>6. Accounted(v)'
  BY <1>4, <1>5 DEF Accounted, DiscoveryInv
<1>7. Informed(v)'
  BY <1>4, <1>5 DEF Informed, At
<1>8. QED
  BY <1>5, <1>6, <1>7, ContinueKeeps

LEMMA NoStrictCheckKeeps ==
  ASSUME DiscoveryInv, NEW v \in Validations, NoStrictCheck(v)
  PROVE  DiscoveryInv'
<1> DEFINE w == [validation[v] EXCEPT !.at = "verdict"]
<1>1. validation[v] \in ValidationRecord
  BY TargetType DEF DiscoveryInv
<1>2. w \in ValidationRecord
  BY <1>1 DEF ValidationRecord
<1>3. Moves(v, w)
  BY DEF NoStrictCheck, Moves, DiscoveryInv, DiscoveryTypeOK
<1>4. /\ w.at = "verdict" /\ w.probed = validation[v].probed
      /\ w.request = validation[v].request
      /\ w.flags = validation[v].flags
      /\ w.hints = validation[v].hints /\ validation[v].at = "strict"
  BY <1>1 DEF ValidationRecord, NoStrictCheck, At
<1> HIDE DEF w
<1>5. OnlyContinues(v) /\ validation'[v] = w
  BY <1>2, <1>3, QuietMove DEF NoStrictCheck, DiscoveryInv, DiscoveryTypeOK
<1>6. Accounted(v) /\ Informed(v)
  BY DEF DiscoveryInv
<1>7. ~ (w.probed > 1)
  <2>1. validation[v].probed \in Nat
    BY <1>1 DEF ValidationRecord
  <2>2. validation[v].probed <= 1
    BY <1>4, <1>6 DEF Accounted
  <2>3. QED
    BY <1>4, <2>1, <2>2
<1>8. Accounted(v)'
  BY <1>4, <1>5, <1>7 DEF Accounted
<1>9. Unneeded \notin Binaries /\ w.flags = Unneeded
  BY <1>4, <1>6, DiscoveryAssumption DEF Accounted
<1>10. Informed(v)'
  BY <1>4, <1>5, <1>6, <1>9 DEF Informed, At, Target, Request, Knows, OnlyContinues
<1>11. QED
  BY <1>5, <1>8, <1>10, ContinueKeeps

LEMMA StrictWithoutProfileKeeps ==
  ASSUME DiscoveryInv, NEW v \in Validations, StrictWithoutProfile(v)
  PROVE  DiscoveryInv'
<1> DEFINE w == [validation[v] EXCEPT !.at = "verdict", !.flags = Unknown]
<1>1. validation[v] \in ValidationRecord
  BY TargetType DEF DiscoveryInv
<1>2. w \in ValidationRecord
  BY <1>1 DEF ValidationRecord
<1>3. Moves(v, w)
  BY DEF StrictWithoutProfile, Moves, DiscoveryInv, DiscoveryTypeOK
<1>4. /\ w.at = "verdict" /\ w.probed = validation[v].probed
      /\ w.request = validation[v].request
      /\ w.flags = Unknown
      /\ w.hints = validation[v].hints /\ validation[v].at = "strict"
  BY <1>1 DEF ValidationRecord, StrictWithoutProfile, NeedsFlags, At
<1> HIDE DEF w
<1>5. OnlyContinues(v) /\ validation'[v] = w
  BY <1>2, <1>3, QuietMove
     DEF StrictWithoutProfile, DiscoveryInv, DiscoveryTypeOK
<1>6. Accounted(v) /\ Informed(v)
  BY DEF DiscoveryInv
<1>7. ~ (w.probed > 1)
  <2>1. validation[v].probed \in Nat
    BY <1>1 DEF ValidationRecord
  <2>2. validation[v].probed <= 1
    BY <1>4, <1>6 DEF Accounted
  <2>3. QED
    BY <1>4, <2>1, <2>2
<1>8. Accounted(v)'
  BY <1>4, <1>5, <1>7 DEF Accounted
<1>9. w.flags \notin Binaries
  BY <1>4, DiscoveryAssumption
<1>10. Informed(v)'
  BY <1>4, <1>5, <1>6, <1>9 DEF Informed, At, Target, Request, Knows, OnlyContinues
<1>11. QED
  BY <1>5, <1>8, <1>10, ContinueKeeps

LEMMA StrictLocalKeeps ==
  ASSUME DiscoveryInv, NEW v \in Validations, StrictLocal(v)
  PROVE  DiscoveryInv'
<1>1. validation[v] \in ValidationRecord /\ validation[v].probed \in Nat
  BY TargetType DEF DiscoveryInv, ValidationRecord
<1>2. Accounted(v) /\ validation[v].at = "strict" /\ Target(v) = Local
  BY DEF DiscoveryInv, StrictLocal, NeedsFlags, At
<1>3. Found(Target(v)) = {}
  <2>1. cache \in Seq(CacheEntry)
    BY DEF DiscoveryInv, DiscoveryTypeOK
  <2>2. ToSet(cache) \subseteq CacheEntry
    BY <2>1, CacheElements
  <2>3. Found(Local) = {e \in ToSet(cache) : e.expiresAt > now /\ e.key = Local}
    BY <2>1, FoundElements
  <2>4. QED
    BY <1>2, <2>2, <2>3, DiscoveryAssumption DEF CacheEntry
<1>4. /\ validation[v].probed <= 1 /\ validation[v].hints \notin Binaries
  BY <1>2, <1>3 DEF Accounted
<1>5. ASSUME NEW w \in ValidationRecord, Moves(v, w),
             w.at \in {"verdict", "strict wait"},
             w.at = "strict wait" => w.flags = Unneeded,
             w.probed = validation[v].probed, w.hints = validation[v].hints,
             w.request = validation[v].request
      PROVE  DiscoveryInv'
  <2>1. OnlyContinues(v) /\ validation'[v] = w
    BY <1>5, QuietMove DEF StrictLocal, DiscoveryInv, DiscoveryTypeOK
  <2>2. w.probed <= 1 /\ ~ (w.probed > 1)
    <3>1. validation[v].probed <= 1 /\ ~ (validation[v].probed > 1)
      BY <1>1, <1>4
    <3>2. w.probed = validation[v].probed
      BY <1>5
    <3>3. QED
      BY <3>1, <3>2
  <2>3. Accounted(v)'
    BY <1>4, <1>5, <2>1, <2>2 DEF Accounted
  <2>4. Informed(v)'
    BY <1>2, <1>5, <2>1 DEF Informed, Target, Request
  <2>5. QED
    BY <2>1, <2>3, <2>4, ContinueKeeps
<1>6. CASE localFlags \in Binaries
  <2> DEFINE w == [validation[v] EXCEPT !.at = "verdict", !.flags = localFlags]
  <2>1. w \in ValidationRecord
    BY <1>1, <1>6 DEF ValidationRecord
  <2>2. Moves(v, w)
    BY <1>6 DEF StrictLocal, Moves, DiscoveryInv, DiscoveryTypeOK
  <2>3. /\ w.at = "verdict" /\ w.probed = validation[v].probed
        /\ w.hints = validation[v].hints /\ w.request = validation[v].request
    BY <1>1 DEF ValidationRecord
  <2> HIDE DEF w
  <2>4. QED
    BY <1>5, <2>1, <2>2, <2>3
<1>7. CASE localFlags \notin Binaries
  <2> DEFINE w == [validation[v] EXCEPT !.at = "strict wait"]
  <2>1. w \in ValidationRecord
    BY <1>1 DEF ValidationRecord
  <2>2. Moves(v, w)
    BY <1>7 DEF StrictLocal, Moves, DiscoveryInv, DiscoveryTypeOK
  <2>3. /\ w.at = "strict wait" /\ w.probed = validation[v].probed
        /\ w.hints = validation[v].hints /\ w.request = validation[v].request
        /\ w.flags = Unneeded
    BY <1>1, <1>2 DEF ValidationRecord, Accounted
  <2> HIDE DEF w
  <2>4. QED
    BY <1>5, <2>1, <2>2, <2>3
<1>8. QED
  BY <1>6, <1>7

\* What a reader finds is true, or was until recently.
LEMMA ReaderKnows ==
  ASSUME DiscoveryInv, NEW r \in Remotes, NEW e \in Found(r)
  PROVE  e.value \in Binaries /\ Knows(r, e.value)
<1>1. cache \in Seq(CacheEntry) /\ now \in Nat
  BY DEF DiscoveryInv, DiscoveryTypeOK
<1>2. e \in ToSet(cache) /\ e.expiresAt > now /\ e.key = r
  BY <1>1, FoundElements
<1>3. e \in CacheEntry /\ Honest(e)
  BY <1>1, <1>2, CacheElements DEF DiscoveryInv, CacheIsHonest
<1>4. e.value \in Binaries /\ e.expiresAt \in Nat
  BY <1>3 DEF CacheEntry
<1>5. changedAt[r] \in Nat
  BY DEF DiscoveryInv, DiscoveryTypeOK, Machines
<1>6. RemoteHelpCacheTtlMs \in Nat /\ ProbeMs \in Nat
  BY DiscoveryAssumption
<1>7. Knows(r, e.value)
  BY <1>1, <1>2, <1>3, <1>4, <1>5, <1>6 DEF Honest, Knows
<1>8. QED
  BY <1>4, <1>7

\* A continuation that reads the cache and starts no probe.
LEMMA ReadFrame ==
  ASSUME DiscoveryInv, NEW v \in Validations, NEW w \in ValidationRecord,
         Moves(v, w), UNCHANGED <<binary, changedAt, probes, localFlags, now>>,
         cache' = SweepExpiredCacheEntries(cache)
  PROVE  OnlyContinues(v) /\ validation'[v] = w /\ \A r : Found(r)' = Found(r)
<1>1. /\ validation' \in [Validations -> ValidationRecord]
      /\ validation'[v] = w
      /\ \A u \in Validations \ {v} : validation'[u] = validation[u]
  BY MovesFrame
<1>2. ProbesAreFresh'
  BY DEF DiscoveryInv, ProbesAreFresh, Probing
<1>3. OnlyContinues(v)
  BY <1>1, <1>2 DEF OnlyContinues, DiscoveryInv, DiscoveryTypeOK
<1>4. QED
  BY <1>1, <1>3, ContinueFrame

\* A continuation that starts a probe.
LEMMA StartFrame ==
  ASSUME DiscoveryInv, NEW v \in Validations, NEW w \in ValidationRecord,
         Moves(v, w), UNCHANGED <<binary, changedAt, localFlags, now>>,
         cache' = SweepExpiredCacheEntries(cache), NEW r \in Remotes,
         probes' = [probes EXCEPT ![r] = [since |-> now, read |-> Unread]]
  PROVE  OnlyContinues(v) /\ validation'[v] = w /\ \A m : Found(m)' = Found(m)
<1>1. /\ validation' \in [Validations -> ValidationRecord]
      /\ validation'[v] = w
      /\ \A u \in Validations \ {v} : validation'[u] = validation[u]
  BY MovesFrame
<1> DEFINE p == [since |-> now, read |-> Unread]
<1>2. now \in Nat /\ probes \in [Remotes -> ProbeRecord]
  BY DEF DiscoveryInv, DiscoveryTypeOK
<1>3. p \in ProbeRecord /\ p.since = now /\ p.read = Unread
  BY <1>2 DEF ProbeRecord
<1> HIDE DEF p
<1>4. probes' = [probes EXCEPT ![r] = p]
  BY DEF p
<1>5. probes' \in [Remotes -> ProbeRecord]
  BY <1>2, <1>3, <1>4
<1>6. ASSUME NEW m \in Remotes, Probing(m)'
      PROVE  /\ probes'[m].since <= now' /\ now' <= probes'[m].since + ProbeMs
             /\ probes'[m].read \in Binaries =>
                   \/ probes'[m].read = binary'[m]
                   \/ changedAt'[m] >= probes'[m].since
  <2>1. CASE m = r
    <3>1. probes'[m] = p
      BY <1>2, <1>4, <2>1
    <3>2. Unread \notin Binaries /\ ProbeMs \in Nat
      BY DiscoveryAssumption
    <3>3. QED
      BY <1>2, <1>3, <3>1, <3>2
  <2>2. CASE m # r
    <3>1. probes'[m] = probes[m]
      BY <1>2, <1>4, <2>2
    <3>2. Probing(m)
      BY <1>6, <3>1 DEF Probing
    <3>3. QED
      BY <3>1, <3>2 DEF DiscoveryInv, ProbesAreFresh
  <2>3. QED
    BY <2>1, <2>2
<1>7. ProbesAreFresh'
  BY <1>6 DEF ProbesAreFresh
<1>8. OnlyContinues(v)
  BY <1>1, <1>5, <1>7 DEF OnlyContinues, DiscoveryInv, DiscoveryTypeOK
<1>9. QED
  BY <1>1, <1>8, ContinueFrame

LEMMA OneMore == \A k \in Nat : k + 1 \in Nat
  OBVIOUS

\* A reader that finds nothing waits, and has spent a probe or joined one.
LEMMA DiscoverMisses ==
  ASSUME DiscoveryInv, NEW v \in Validations, Target(v) \in Remotes,
         NEW place, NEW field, NEW wait \in {"guard wait", "strict wait"},
         Discover(v, place, wait, field), Found(Target(v)) = {},
         UNCHANGED <<binary, changedAt, localFlags, now>>
  PROVE  /\ OnlyContinues(v)
         /\ \E n \in {validation[v].probed, validation[v].probed + 1} :
               validation'[v] = [validation[v] EXCEPT !.at = wait, !.probed = n]
<1>1. validation[v] \in ValidationRecord /\ validation[v].probed \in Nat
  BY TargetType DEF DiscoveryInv, ValidationRecord
<1>2. cache' = SweepExpiredCacheEntries(cache)
  BY DEF Discover
<1>3. CASE Probing(Target(v))
  <2> DEFINE w == [validation[v] EXCEPT !.at = wait,
                                        !.probed = validation[v].probed]
  <2>1. w \in ValidationRecord
    BY <1>1 DEF ValidationRecord
  <2>2. /\ validation' = [validation EXCEPT ![v].at = wait]
        /\ UNCHANGED probes
    BY <1>3 DEF Discover
  <2>3. w = [validation[v] EXCEPT !.at = wait]
    BY <1>1 DEF ValidationRecord
  <2>4. Moves(v, w)
    BY <2>2, <2>3 DEF Moves, DiscoveryInv, DiscoveryTypeOK
  <2> HIDE DEF w
  <2>5. OnlyContinues(v) /\ validation'[v] = w
    BY <1>2, <2>1, <2>2, <2>4, ReadFrame
  <2>6. QED
    BY <2>5 DEF w
<1>4. CASE ~ Probing(Target(v))
  <2> DEFINE w == [validation[v] EXCEPT !.at = wait,
                                        !.probed = validation[v].probed + 1]
  <2>1. w \in ValidationRecord
    <3>1. validation[v].probed + 1 \in Nat
      BY Zenon, <1>1, OneMore
    <3>2. QED
      BY <1>1, <3>1 DEF ValidationRecord
  <2>2. /\ validation' = [validation EXCEPT ![v].at = wait,
                                            ![v].probed = @ + 1]
        /\ probes' = [probes EXCEPT ![Target(v)] = [since |-> now,
                                                    read |-> Unread]]
    BY <1>4 DEF Discover
  <2>3. Moves(v, w)
    BY <1>1, <2>2 DEF Moves, DiscoveryInv, DiscoveryTypeOK, ValidationRecord
  <2> HIDE DEF w
  <2>4. OnlyContinues(v) /\ validation'[v] = w
    BY <1>2, <2>1, <2>2, <2>3, StartFrame
  <2>5. QED
    BY <2>4 DEF w
<1>5. QED
  BY <1>3, <1>4

LEMMA GuardKeeps ==
  ASSUME DiscoveryInv, NEW v \in Validations, Guard(v)
  PROVE  DiscoveryInv'
<1>1. validation[v] \in ValidationRecord /\ validation[v].probed \in Nat
  BY TargetType DEF DiscoveryInv, ValidationRecord
<1>2. /\ Accounted(v) /\ validation[v].at = "guard"
      /\ validation[v].probed = 0 /\ validation[v].hints = Unneeded
      /\ validation[v].flags = Unneeded
  BY DEF DiscoveryInv, Guard, At, Accounted
<1>3. Unneeded \notin Binaries
  BY DiscoveryAssumption
<1>4. CASE Target(v) = Local \/ ~Request(v).profileFound \/ Request(v).selectsGpu
  <2> DEFINE w == [validation[v] EXCEPT !.at = "strict"]
  <2>1. w \in ValidationRecord
    BY <1>1 DEF ValidationRecord
  <2>2. Moves(v, w) /\ UNCHANGED <<cache, probes>>
    BY <1>4 DEF Guard, Moves, DiscoveryInv, DiscoveryTypeOK
  <2>3. /\ w.at = "strict" /\ w.probed = 0 /\ w.hints = Unneeded
        /\ w.flags = Unneeded
    BY <1>1, <1>2 DEF ValidationRecord
  <2> HIDE DEF w
  <2>4. OnlyContinues(v) /\ validation'[v] = w
    BY <2>1, <2>2, QuietMove DEF Guard, DiscoveryInv, DiscoveryTypeOK
  <2>5. Accounted(v)'
    <3>1. 0 <= 1
      OBVIOUS
    <3>2. QED
      BY Zenon, <1>3, <2>3, <2>4, <3>1 DEF Accounted
  <2>6. Informed(v)'
    BY <1>3, <2>3, <2>4 DEF Informed, At, Knows
  <2>7. QED
    BY <2>4, <2>5, <2>6, ContinueKeeps
<1>5. CASE ~ (Target(v) = Local \/ ~Request(v).profileFound
                                \/ Request(v).selectsGpu)
  <2>1. /\ Discover(v, "strict", "guard wait", "hints")
        /\ UNCHANGED <<binary, changedAt, localFlags, now>>
    BY <1>5 DEF Guard
  <2>2. Target(v) \in Remotes /\ Target(v) # Local
    BY <1>5, TargetType DEF DiscoveryInv
  <2>3. CASE Found(Target(v)) = {}
    <3>1. PICK n \in {validation[v].probed, validation[v].probed + 1} :
             /\ OnlyContinues(v)
             /\ validation'[v] = [validation[v] EXCEPT !.at = "guard wait",
                                                       !.probed = n]
      BY <2>1, <2>2, <2>3, DiscoverMisses
    <3> DEFINE w == validation'[v]
    <3>2. /\ w.at = "guard wait" /\ w.probed = n /\ w.flags = Unneeded
          /\ w.request = validation[v].request
      BY <1>1, <1>2, <3>1 DEF ValidationRecord
    <3>3. n <= 1
      BY <1>2, <3>1
    <3> HIDE DEF w
    <3>4. validation'[v] = w
      BY DEF w
    <3>5. Accounted(v)'
      BY <2>2, <3>2, <3>3, <3>4 DEF Accounted, Target, Request
    <3>6. Informed(v)'
      BY <3>2, <3>4 DEF Informed, At
    <3>7. QED
      BY <3>1, <3>5, <3>6, ContinueKeeps
  <2>4. CASE Found(Target(v)) # {}
    <3>1. PICK e \in Found(Target(v)) :
             validation' = [validation EXCEPT ![v].at = "strict",
                                              ![v]["hints"] = e.value]
      BY <2>1, <2>4 DEF Discover
    <3>2. cache' = SweepExpiredCacheEntries(cache) /\ UNCHANGED probes
      BY <2>1, <2>4 DEF Discover
    <3>3. e.value \in Binaries /\ Knows(Target(v), e.value)
      BY <2>2, ReaderKnows
    <3> DEFINE w == [validation[v] EXCEPT !.at = "strict", !.hints = e.value]
    <3>4. w \in ValidationRecord
      BY <1>1, <3>3 DEF ValidationRecord
    <3>5. Moves(v, w)
      BY <3>1 DEF Moves, DiscoveryInv, DiscoveryTypeOK
    <3>6. /\ w.at = "strict" /\ w.probed = 0 /\ w.hints = e.value
          /\ w.flags = Unneeded /\ w.request = validation[v].request
      BY <1>1, <1>2 DEF ValidationRecord
    <3> HIDE DEF w
    <3>7. /\ OnlyContinues(v) /\ validation'[v] = w
          /\ \A r : Found(r)' = Found(r)
      BY <2>1, <3>2, <3>4, <3>5, ReadFrame
    <3>8. Found(Target(v))' # {}
      BY <2>4, <3>6, <3>7 DEF Target, Request
    <3>9. Accounted(v)'
      <4>1. 0 <= 1
        OBVIOUS
      <4>2. QED
        BY Zenon, <3>6, <3>7, <3>8, <4>1 DEF Accounted
    <3>10. Informed(v)'
      BY <3>3, <3>6, <3>7
         DEF Informed, At, Knows, Target, Request, OnlyContinues
    <3>11. QED
      BY <3>7, <3>9, <3>10, ContinueKeeps
  <2>5. QED
    BY <2>3, <2>4
<1>6. QED
  BY <1>4, <1>5

LEMMA StrictRemoteKeeps ==
  ASSUME DiscoveryInv, NEW v \in Validations, StrictRemote(v)
  PROVE  DiscoveryInv'
<1>1. validation[v] \in ValidationRecord /\ validation[v].probed \in Nat
  BY TargetType DEF DiscoveryInv, ValidationRecord
<1>2. /\ Accounted(v) /\ Informed(v) /\ validation[v].at = "strict"
      /\ validation[v].flags = Unneeded
      /\ Target(v) \in Remotes /\ Target(v) # Local
  BY TargetType DEF DiscoveryInv, StrictRemote, NeedsFlags, At, Accounted
<1>3. /\ Discover(v, "verdict", "strict wait", "flags")
      /\ UNCHANGED <<binary, changedAt, localFlags, now>>
  BY DEF StrictRemote
<1>4. validation[v].probed <= 1 /\ ~ (validation[v].probed > 1)
  BY <1>1, <1>2 DEF Accounted
<1>5. CASE Found(Target(v)) = {}
  <2>1. PICK n \in {validation[v].probed, validation[v].probed + 1} :
           /\ OnlyContinues(v)
           /\ validation'[v] = [validation[v] EXCEPT !.at = "strict wait",
                                                     !.probed = n]
    BY <1>2, <1>3, <1>5, DiscoverMisses
  <2>2. validation[v].hints \notin Binaries
    BY <1>2, <1>5 DEF Accounted
  <2>3. validation[v].hints = Unneeded => n <= 1
    <3>1. validation[v].hints = Unneeded => validation[v].probed = 0
      BY <1>2 DEF Accounted
    <3>2. QED
      BY <3>1
  <2> DEFINE w == validation'[v]
  <2>4. /\ w.at = "strict wait" /\ w.probed = n /\ w.flags = Unneeded
        /\ w.hints = validation[v].hints
    BY <1>1, <1>2, <2>1 DEF ValidationRecord
  <2> HIDE DEF w
  <2>5. validation'[v] = w
    BY DEF w
  <2>6. Accounted(v)'
    BY <2>2, <2>3, <2>4, <2>5 DEF Accounted
  <2>7. Informed(v)'
    BY <2>4, <2>5 DEF Informed, At
  <2>8. QED
    BY <2>1, <2>6, <2>7, ContinueKeeps
<1>6. CASE Found(Target(v)) # {}
  <2>1. PICK e \in Found(Target(v)) :
           validation' = [validation EXCEPT ![v].at = "verdict",
                                            ![v]["flags"] = e.value]
    BY <1>3, <1>6 DEF Discover
  <2>2. cache' = SweepExpiredCacheEntries(cache) /\ UNCHANGED probes
    BY <1>3, <1>6 DEF Discover
  <2>3. e.value \in Binaries /\ Knows(Target(v), e.value)
    BY <1>2, ReaderKnows
  <2> DEFINE w == [validation[v] EXCEPT !.at = "verdict", !.flags = e.value]
  <2>4. w \in ValidationRecord
    BY <1>1, <2>3 DEF ValidationRecord
  <2>5. Moves(v, w)
    BY <2>1 DEF Moves, DiscoveryInv, DiscoveryTypeOK
  <2>6. /\ w.at = "verdict" /\ w.probed = validation[v].probed
        /\ w.hints = validation[v].hints /\ w.flags = e.value
        /\ w.request = validation[v].request
    BY <1>1 DEF ValidationRecord
  <2> HIDE DEF w
  <2>7. OnlyContinues(v) /\ validation'[v] = w
    BY <1>3, <2>2, <2>4, <2>5, ReadFrame
  <2>8. Knows(Target(v), validation[v].hints)
    BY <1>2 DEF Informed, At
  <2>9. ~ (w.probed > 1)
    BY <1>4, <2>6
  <2>10. Accounted(v)'
    BY <2>6, <2>7, <2>9 DEF Accounted
  <2>11. Informed(v)'
    BY <2>3, <2>6, <2>7, <2>8
       DEF Informed, At, Knows, Target, Request, OnlyContinues
  <2>12. QED
    BY <2>7, <2>10, <2>11, ContinueKeeps
<1>7. QED
  BY <1>5, <1>6

\* While no continuation is due, a validation left alone keeps its part of the
\* invariant whatever becomes of the world.
LEMMA RestKeeps ==
  ASSUME DiscoveryInv, ~Runnable, NEW u \in Validations,
         validation'[u] = validation[u]
  PROVE  Accounted(u)' /\ Informed(u)'
<1>1. validation[u].at \notin {"guard", "strict", "verdict"}
  BY DEF Runnable
<1>2. Accounted(u)
  BY DEF DiscoveryInv
<1>3. Accounted(u)'
  BY <1>1, <1>2 DEF Accounted, Target, Request
<1>4. Informed(u)'
  BY <1>1 DEF Informed, At
<1>5. QED
  BY <1>3, <1>4

\* The callers that waited for machine m go on with its answer.
LEMMA ResumedKeeps ==
  ASSUME DiscoveryInv, ~Runnable, NEW m \in Machines,
         NEW told \in Binaries \cup {Unknown},
         validation' = Resumed(m, told),
         m # Local => Knows(m, told)',
         m # Local /\ told \in Binaries => Found(m)' # {}
  PROVE  /\ validation' \in [Validations -> ValidationRecord]
         /\ \A u \in Validations : Accounted(u)' /\ Informed(u)'
<1>1. told # Unneeded
  BY DiscoveryAssumption
<1>2. ASSUME NEW u \in Validations
      PROVE  /\ validation'[u] \in ValidationRecord
             /\ Accounted(u)' /\ Informed(u)'
  <2>1. validation[u] \in ValidationRecord /\ Accounted(u)
    BY TargetType DEF DiscoveryInv
  <2>2. validation'[u] =
            CASE At(u, "guard wait") /\ Target(u) = m ->
                   [validation[u] EXCEPT !.at = "strict", !.hints = told]
              [] At(u, "strict wait") /\ Target(u) = m ->
                   [validation[u] EXCEPT !.at = "verdict", !.flags = told]
              [] OTHER -> validation[u]
    BY DEF Resumed
  <2>3. CASE At(u, "guard wait") /\ Target(u) = m
    <3> DEFINE w == [validation[u] EXCEPT !.at = "strict", !.hints = told]
    <3>1. validation'[u] = w
      BY <2>2, <2>3 DEF At
    <3>2. w \in ValidationRecord
      BY <2>1 DEF ValidationRecord
    <3>3. /\ w.at = "strict" /\ w.hints = told
          /\ w.flags = validation[u].flags /\ w.probed = validation[u].probed
          /\ w.request = validation[u].request
      BY <2>1 DEF ValidationRecord
    <3> HIDE DEF w
    <3>4. /\ w.probed <= 1 /\ w.flags = Unneeded /\ Target(u)' = m
          /\ m # Local
      BY <2>1, <2>3, <3>1, <3>3 DEF Accounted, At, Target, Request
    <3>5. Accounted(u)'
      BY <1>1, <3>1, <3>3, <3>4 DEF Accounted
    <3>6. Informed(u)'
      BY <3>1, <3>3, <3>4 DEF Informed, At
    <3>7. QED
      BY <3>1, <3>2, <3>5, <3>6
  <2>4. CASE At(u, "strict wait") /\ Target(u) = m
    <3> DEFINE w == [validation[u] EXCEPT !.at = "verdict", !.flags = told]
    <3>1. validation'[u] = w
      BY <2>2, <2>4 DEF At
    <3>2. w \in ValidationRecord
      BY <2>1 DEF ValidationRecord
    <3>3. /\ w.at = "verdict" /\ w.flags = told
          /\ w.hints = validation[u].hints /\ w.probed = validation[u].probed
          /\ w.request = validation[u].request
      BY <2>1 DEF ValidationRecord
    <3>4. /\ w.hints \notin Binaries /\ w.hints \in {Unknown, Unneeded}
          /\ w.hints = Unneeded => validation[u].probed <= 1
      BY <2>1, <2>4, <3>3 DEF Accounted, At, ValidationRecord
    <3>5. validation[u].probed \in Nat
      BY <2>1 DEF ValidationRecord
    <3> HIDE DEF w
    <3>6. w.probed > 1 => w.hints = Unknown
      <4>1. ~ (validation[u].probed <= 1 /\ validation[u].probed > 1)
        BY <3>5
      <4>2. QED
        BY <3>3, <3>4, <4>1
    <3>7. Accounted(u)'
      BY <3>1, <3>3, <3>6 DEF Accounted
    <3>8. Target(u)' = m
      BY <2>4, <3>1, <3>3 DEF Target, Request
    <3>9. Informed(u)'
      BY <3>1, <3>3, <3>4, <3>8 DEF Informed, At, Knows
    <3>10. QED
      BY <3>1, <3>2, <3>7, <3>9
  <2>5. CASE /\ ~ (At(u, "guard wait") /\ Target(u) = m)
             /\ ~ (At(u, "strict wait") /\ Target(u) = m)
    <3>1. validation'[u] = validation[u]
      BY <2>2, <2>5
    <3>2. QED
      BY <2>1, <3>1, RestKeeps
  <2>6. QED
    BY <2>3, <2>4, <2>5
<1>3. validation' \in [Validations -> ValidationRecord]
  <2> DEFINE Gets(u) ==
                CASE At(u, "guard wait") /\ Target(u) = m ->
                       [validation[u] EXCEPT !.at = "strict", !.hints = told]
                  [] At(u, "strict wait") /\ Target(u) = m ->
                       [validation[u] EXCEPT !.at = "verdict", !.flags = told]
                  [] OTHER -> validation[u]
  <2>0. validation' = [u \in Validations |-> Gets(u)]
    BY DEF Resumed
  <2> HIDE DEF Gets
  <2>1. validation' = [u \in Validations |-> validation'[u]]
    BY <2>0
  <2>2. QED
    BY <1>2, <2>1
<1>4. QED
  BY <1>2, <1>3

LEMMA AskKeeps ==
  ASSUME DiscoveryInv, NEW v \in Validations, NEW q \in Requests, Ask(v, q)
  PROVE  DiscoveryInv'
<1> DEFINE w == [NoValidation EXCEPT !.at = "guard", !.request = q]
<1>1. w \in ValidationRecord
  BY DiscoveryAssumption DEF NoValidation, ValidationRecord
<1>2. /\ w.at = "guard" /\ w.probed = 0 /\ w.hints = Unneeded
      /\ w.flags = Unneeded
  BY DEF NoValidation
<1>3. Moves(v, w)
  BY DEF Ask, Moves, DiscoveryInv, DiscoveryTypeOK
<1> HIDE DEF w
<1>4. OnlyContinues(v) /\ validation'[v] = w
  BY <1>1, <1>3, QuietMove DEF Ask, DiscoveryInv, DiscoveryTypeOK
<1>5. Accounted(v)'
  BY <1>2, <1>4 DEF Accounted
<1>6. Informed(v)'
  BY <1>2, <1>4 DEF Informed, At
<1>7. QED
  BY <1>4, <1>5, <1>6, ContinueKeeps

LEMMA ProbeReadsKeeps ==
  ASSUME DiscoveryInv, NEW r \in Remotes, ProbeReads(r)
  PROVE  DiscoveryInv'
<1>1. /\ probes \in [Remotes -> ProbeRecord] /\ binary[r] \in Binaries
      /\ probes[r] \in ProbeRecord
  BY DEF DiscoveryInv, DiscoveryTypeOK, Machines
<1> DEFINE p == [probes[r] EXCEPT !.read = binary[r]]
<1>2. p \in ProbeRecord /\ p.since = probes[r].since /\ p.read = binary[r]
  BY <1>1 DEF ProbeRecord
<1>3. probes' = [probes EXCEPT ![r] = p]
  BY <1>1 DEF ProbeReads
<1> HIDE DEF p
<1>4. Probing(r)
  BY DiscoveryAssumption DEF ProbeReads, Probing, NoProbe
<1>5. ASSUME NEW m \in Remotes, Probing(m)'
      PROVE  /\ probes'[m].since <= now' /\ now' <= probes'[m].since + ProbeMs
             /\ probes'[m].read \in Binaries =>
                   \/ probes'[m].read = binary'[m]
                   \/ changedAt'[m] >= probes'[m].since
  <2>1. CASE m = r
    BY <1>1, <1>2, <1>3, <1>4, <2>1
       DEF DiscoveryInv, ProbesAreFresh, ProbeReads
  <2>2. CASE m # r
    <3>1. probes'[m] = probes[m]
      BY <1>1, <1>3, <2>2
    <3>2. QED
      BY <1>5, <3>1 DEF DiscoveryInv, ProbesAreFresh, ProbeReads, Probing
  <2>3. QED
    BY <2>1, <2>2
<1>6. ProbesAreFresh'
  BY <1>5 DEF ProbesAreFresh
<1>7. probes' \in [Remotes -> ProbeRecord]
  BY <1>1, <1>2, <1>3
<1>8. DiscoveryTypeOK'
  BY <1>7 DEF DiscoveryInv, DiscoveryTypeOK, ProbeReads
<1>9. CacheIsHonest'
  BY DEF DiscoveryInv, CacheIsHonest, Honest, ProbeReads
<1>10. \A u \in Validations : Accounted(u)' /\ Informed(u)'
  BY RestKeeps DEF ProbeReads
<1>11. QED
  BY <1>6, <1>8, <1>9, <1>10 DEF DiscoveryInv

\* A discovery that has ended is forgotten; the others are as fresh as before.
LEMMA ForgottenProbe ==
  ASSUME DiscoveryInv, NEW r \in Remotes, UNCHANGED <<binary, changedAt, now>>,
         probes' = [probes EXCEPT ![r] = NoProbe]
  PROVE  probes' \in [Remotes -> ProbeRecord] /\ ProbesAreFresh'
<1>1. probes \in [Remotes -> ProbeRecord]
  BY DEF DiscoveryInv, DiscoveryTypeOK
<1>2. NoProbe \in ProbeRecord
  BY DEF NoProbe, ProbeRecord
<1>3. probes' \in [Remotes -> ProbeRecord]
  BY <1>1, <1>2
<1>4. \A m \in Remotes : Probing(m)' => m # r /\ probes'[m] = probes[m]
  BY <1>1 DEF Probing, NoProbe
<1>5. ProbesAreFresh'
  BY <1>4 DEF DiscoveryInv, ProbesAreFresh, Probing
<1>6. QED
  BY <1>3, <1>5

LEMMA ProbeRejectsKeeps ==
  ASSUME DiscoveryInv, NEW r \in Remotes, ProbeRejects(r)
  PROVE  DiscoveryInv'
<1>1. probes' \in [Remotes -> ProbeRecord] /\ ProbesAreFresh'
  BY ForgottenProbe DEF ProbeRejects
<1>2. Unknown \notin Binaries /\ r \in Machines
  BY DiscoveryAssumption DEF Machines
<1>3. Knows(r, Unknown)'
  BY <1>2 DEF Knows
<1>4. /\ validation' \in [Validations -> ValidationRecord]
      /\ \A u \in Validations : Accounted(u)' /\ Informed(u)'
  BY <1>2, <1>3, ResumedKeeps DEF ProbeRejects
<1>5. DiscoveryTypeOK'
  BY <1>1, <1>4 DEF DiscoveryInv, DiscoveryTypeOK, ProbeRejects
<1>6. CacheIsHonest'
  BY DEF DiscoveryInv, CacheIsHonest, Honest, ProbeRejects
<1>7. QED
  BY <1>1, <1>4, <1>5, <1>6 DEF DiscoveryInv

LEMMA LocalSettlesKeeps ==
  ASSUME DiscoveryInv, LocalSettles
  PROVE  DiscoveryInv'
<1>1. Local \in Machines /\ binary[Local] \in Binaries
  BY DEF DiscoveryInv, DiscoveryTypeOK, Machines
<1>2. PICK told \in Binaries \cup {Unknown} :
         validation' = Resumed(Local, told)
  BY <1>1 DEF LocalSettles
<1>3. /\ validation' \in [Validations -> ValidationRecord]
      /\ \A u \in Validations : Accounted(u)' /\ Informed(u)'
  BY <1>1, <1>2, ResumedKeeps DEF LocalSettles
<1>4. localFlags' \in Binaries \cup {Unread, Unneeded}
  BY <1>1 DEF LocalSettles
<1>5. DiscoveryTypeOK'
  BY <1>3, <1>4 DEF DiscoveryInv, DiscoveryTypeOK, LocalSettles
<1>6. ProbesAreFresh'
  BY DEF DiscoveryInv, ProbesAreFresh, Probing, LocalSettles
<1>7. CacheIsHonest'
  BY DEF DiscoveryInv, CacheIsHonest, Honest, LocalSettles
<1>8. QED
  BY <1>3, <1>5, <1>6, <1>7 DEF DiscoveryInv

\* Room is made for the newest entry, which stays.
LEMMA TrimKeepsTheNewest ==
  ASSUME NEW c \in Seq(CacheEntry), NEW e \in CacheEntry
  PROVE  LET t == TrimCacheEntries(Append(c, e))
         IN  /\ t \in Seq(CacheEntry)
             /\ ToSet(t) \subseteq ToSet(c) \cup {e}
             /\ e \in ToSet(t)
<1> DEFINE a == Append(c, e)
           K == RemoteHelpCacheMaxEntries
           t == TrimCacheEntries(a)
<1>1. /\ a \in Seq(CacheEntry) /\ Len(a) \in Nat \ {0} /\ a[Len(a)] = e
      /\ DOMAIN a = 1 .. Len(a)
  BY AppendProperties
<1>2. ToSet(a) = ToSet(c) \cup {e}
  BY ToSetAppend
<1>3. K \in Nat \ {0}
  BY DiscoveryAssumption
<1>4. t = IF Len(a) > K THEN SubSeq(a, Len(a) - K + 1, Len(a)) ELSE a
  BY DEF TrimCacheEntries
<1> HIDE DEF a, K
<1>5. CASE Len(a) > K
  <2> DEFINE m == Len(a) - K + 1
             n == Len(a)
  <2>1. m \in 1 .. n /\ n \in Nat /\ n - m + 1 = K
    BY <1>1, <1>3, <1>5
  <2>2. \A i \in m .. n : a[i] \in CacheEntry
    BY <1>1, <2>1
  <2> HIDE DEF m, n
  <2>3. /\ SubSeq(a, m, n) \in Seq(CacheEntry)
        /\ Len(SubSeq(a, m, n)) = IF m <= n THEN n - m + 1 ELSE 0
        /\ \A i \in 1 .. n - m + 1 : SubSeq(a, m, n)[i] = a[m + i - 1]
    BY <2>1, <2>2, SubSeqProperties
  <2> DEFINE s == SubSeq(a, m, n)
  <2>4. s \in Seq(CacheEntry) /\ DOMAIN s = 1 .. K
        /\ \A i \in 1 .. K : s[i] = a[m + i - 1] /\ m + i - 1 \in 1 .. n
    BY <1>3, <2>1, <2>3
  <2>5. s[K] = e /\ K \in 1 .. K
    BY <1>1, <1>3, <2>1, <2>4 DEF m, n
  <2>6. t = s
    BY <1>4, <1>5 DEF m, n
  <2>7. ToSet(s) \subseteq ToSet(a) /\ e \in ToSet(s)
    BY <1>1, <2>4, <2>5 DEF ToSet, n
  <2>8. QED
    BY <1>2, <2>4, <2>6, <2>7 DEF a
<1>6. CASE ~ (Len(a) > K)
  BY <1>1, <1>2, <1>4, <1>6 DEF a
<1>7. QED
  BY <1>5, <1>6

LEMMA ProbeResolvesKeeps ==
  ASSUME DiscoveryInv, NEW r \in Remotes, ProbeResolves(r)
  PROVE  DiscoveryInv'
<1>1. probes' \in [Remotes -> ProbeRecord] /\ ProbesAreFresh'
  BY ForgottenProbe DEF ProbeResolves
<1>2. PICK told \in Binaries : told = probes[r].read
  BY DEF ProbeResolves
<1>3. /\ cache \in Seq(CacheEntry) /\ now \in Nat /\ changedAt[r] \in Nat
      /\ r \in Machines /\ probes[r].since \in Nat
      /\ RemoteHelpCacheTtlMs \in Nat /\ RemoteHelpCacheTtlMs > 0
      /\ ProbeMs \in Nat
  BY DiscoveryAssumption
     DEF DiscoveryInv, DiscoveryTypeOK, Machines, ProbeRecord
<1>4. PICK e \in CacheEntry :
         e = [key |-> r, value |-> told, expiresAt |-> now + RemoteHelpCacheTtlMs]
  <2> DEFINE end == now + RemoteHelpCacheTtlMs
  <2>1. end \in Nat
    BY <1>3
  <2> HIDE DEF end
  <2>2. [key |-> r, value |-> told, expiresAt |-> end] \in CacheEntry
    BY <2>1 DEF CacheEntry
  <2>3. QED
    BY Zenon, <2>2 DEF end
<1>5. /\ e.key = r /\ e.value = told
      /\ e.expiresAt = now + RemoteHelpCacheTtlMs
  BY <1>4
<1>6. /\ cache' \in Seq(CacheEntry) /\ e \in ToSet(cache')
      /\ ToSet(cache') \subseteq ToSet(cache) \cup {e}
  <2>1. cache' = TrimCacheEntries(Append(SweepExpiredCacheEntries(cache), e))
    BY <1>2, <1>4 DEF ProbeResolves
  <2>2. /\ SweepExpiredCacheEntries(cache) \in Seq(CacheEntry)
        /\ ToSet(SweepExpiredCacheEntries(cache)) \subseteq ToSet(cache)
    BY <1>3, SweptElements DEF SweepExpiredCacheEntries
  <2>3. QED
    BY <2>1, <2>2, TrimKeepsTheNewest
<1>7. Probing(r)
  BY <1>2, DiscoveryAssumption DEF Probing, NoProbe
<1>8. \/ told = binary[r]
      \/ /\ changedAt[r] >= probes[r].since
         /\ now <= probes[r].since + ProbeMs
  BY <1>2, <1>7 DEF DiscoveryInv, ProbesAreFresh
<1>9. Knows(r, told)'
  BY <1>3, <1>8 DEF Knows, ProbeResolves
<1>10. Found(r)' # {}
  <2>1. Found(r)' = {x \in ToSet(cache') : x.expiresAt > now' /\ x.key = r}
    BY <1>6, FoundElementsNext
  <2>2. e.expiresAt > now' /\ e.key = r
    BY <1>3, <1>5 DEF ProbeResolves
  <2>3. QED
    BY <1>6, <2>1, <2>2
<1>11. CacheIsHonest'
  <2>1. \A x \in ToSet(cache) : Honest(x)'
    BY DEF DiscoveryInv, CacheIsHonest, Honest, ProbeResolves
  <2>2. Honest(e)'
    BY <1>3, <1>5, <1>8 DEF Honest, ProbeResolves
  <2>3. QED
    BY <1>6, <2>1, <2>2 DEF CacheIsHonest
<1>12. validation' = Resumed(r, told)
  BY <1>2 DEF ProbeResolves
<1>13. ~Runnable
  BY DEF ProbeResolves
<1>14. /\ validation' \in [Validations -> ValidationRecord]
       /\ \A u \in Validations : Accounted(u)' /\ Informed(u)'
  BY <1>3, <1>9, <1>10, <1>12, <1>13, ResumedKeeps
<1>15. DiscoveryTypeOK'
  BY <1>1, <1>6, <1>14 DEF DiscoveryInv, DiscoveryTypeOK, ProbeResolves
<1>16. QED
  BY <1>1, <1>11, <1>14, <1>15 DEF DiscoveryInv

LEMMA ChangeKeeps ==
  ASSUME DiscoveryInv, NEW m \in Machines, NEW b \in Binaries, Change(m, b)
  PROVE  DiscoveryInv'
<1>1. /\ now \in Nat /\ RemoteHelpCacheTtlMs \in Nat /\ ProbeMs \in Nat
      /\ binary \in [Machines -> Binaries] /\ changedAt \in [Machines -> Nat]
      /\ cache \in Seq(CacheEntry) /\ probes \in [Remotes -> ProbeRecord]
  BY DiscoveryAssumption DEF DiscoveryInv, DiscoveryTypeOK
<1>2. /\ binary' = [binary EXCEPT ![m] = b]
      /\ changedAt' = [changedAt EXCEPT ![m] = now]
  BY DEF Change
<1>3. DiscoveryTypeOK'
  BY <1>1, <1>2 DEF DiscoveryInv, DiscoveryTypeOK, Change
<1>4. ProbesAreFresh'
  <2>1. ASSUME NEW r \in Remotes, Probing(r)
        PROVE  /\ probes[r].since <= now /\ now <= probes[r].since + ProbeMs
               /\ probes[r].read \in Binaries =>
                     \/ probes[r].read = binary'[r]
                     \/ changedAt'[r] >= probes[r].since
    <3>1. r \in Machines
      BY DEF Machines
    <3>2. CASE r = m
      BY <1>1, <1>2, <2>1, <3>1, <3>2 DEF DiscoveryInv, ProbesAreFresh
    <3>3. CASE r # m
      BY <1>1, <1>2, <2>1, <3>1, <3>3 DEF DiscoveryInv, ProbesAreFresh
    <3>4. QED
      BY <3>2, <3>3
  <2>2. QED
    BY <2>1 DEF ProbesAreFresh, Probing, Change
<1>5. CacheIsHonest'
  <2>1. ASSUME NEW e \in ToSet(cache)
        PROVE  Honest(e)'
    <3>1. e \in CacheEntry /\ Honest(e)
      BY <1>1, CacheElements DEF DiscoveryInv, CacheIsHonest
    <3>2. e.key \in Machines /\ e.expiresAt \in Nat
      BY <3>1 DEF CacheEntry, Machines
    <3>3. CASE e.key = m
      <4>1. changedAt'[e.key] = now
        BY <1>1, <1>2, <3>2, <3>3
      <4>2. QED
        BY <1>1, <3>1, <3>2, <4>1 DEF Honest, Change
    <3>4. CASE e.key # m
      <4>1. changedAt'[e.key] = changedAt[e.key] /\ binary'[e.key] = binary[e.key]
        BY <1>1, <1>2, <3>2, <3>4
      <4>2. QED
        BY <3>1, <4>1 DEF Honest, Change
    <3>5. QED
      BY <3>3, <3>4
  <2>2. QED
    BY <2>1 DEF CacheIsHonest, Change
<1>6. \A u \in Validations : Accounted(u)' /\ Informed(u)'
  BY RestKeeps DEF Change
<1>7. QED
  BY <1>3, <1>4, <1>5, <1>6 DEF DiscoveryInv

LEMMA ClockKeeps ==
  ASSUME DiscoveryInv, Tick
  PROVE  DiscoveryInv'
<1>1. /\ now \in Nat /\ now' = now + 1
      /\ RemoteHelpCacheTtlMs \in Nat /\ ProbeMs \in Nat
      /\ cache \in Seq(CacheEntry) /\ probes \in [Remotes -> ProbeRecord]
  BY DiscoveryAssumption DEF DiscoveryInv, DiscoveryTypeOK, Tick
<1>2. DiscoveryTypeOK'
  BY <1>1 DEF DiscoveryInv, DiscoveryTypeOK, Tick
<1>3. ProbesAreFresh'
  <2>1. ASSUME NEW r \in Remotes, Probing(r)
        PROVE  probes[r].since <= now' /\ now' <= probes[r].since + ProbeMs
    <3>1. probes[r].since \in Nat
      BY <1>1 DEF ProbeRecord
    <3>2. now - probes[r].since < ProbeMs
      BY <2>1 DEF Tick
    <3>3. probes[r].since <= now
      BY <2>1 DEF DiscoveryInv, ProbesAreFresh
    <3>4. QED
      BY <1>1, <3>1, <3>2, <3>3
  <2>2. QED
    BY <2>1 DEF DiscoveryInv, ProbesAreFresh, Probing, Tick
<1>4. CacheIsHonest'
  <2>1. ASSUME NEW e \in ToSet(cache)
        PROVE  Honest(e)'
    <3>1. e \in CacheEntry /\ Honest(e)
      BY <1>1, CacheElements DEF DiscoveryInv, CacheIsHonest
    <3>2. e.expiresAt \in Nat
      BY <3>1 DEF CacheEntry
    <3>3. QED
      BY <1>1, <3>1, <3>2 DEF Honest, Tick
  <2>2. QED
    BY <2>1 DEF CacheIsHonest, Tick
<1>5. \A u \in Validations : Accounted(u)' /\ Informed(u)'
  BY RestKeeps DEF Tick
<1>6. QED
  BY <1>2, <1>3, <1>4, <1>5 DEF DiscoveryInv

LEMMA DiscoveryStarts ==
  ASSUME Init
  PROVE  DiscoveryInv
<1>1. DiscoveryTypeOK
  <2>1. binary \in [Machines -> Binaries]
    BY DiscoveryAssumption DEF Init, Machines
  <2>2. NoProbe \in ProbeRecord /\ NoValidation \in ValidationRecord
    BY DiscoveryAssumption
       DEF NoProbe, ProbeRecord, NoValidation, ValidationRecord
  <2>3. now \in Nat
    BY DiscoveryAssumption DEF Init
  <2>4. QED
    BY <2>1, <2>2, <2>3 DEF Init, DiscoveryTypeOK
<1>2. ProbesAreFresh
  BY DEF Init, ProbesAreFresh, Probing
<1>3. CacheIsHonest
  BY DEF Init, CacheIsHonest, ToSet
<1>4. ASSUME NEW u \in Validations
      PROVE  Accounted(u) /\ Informed(u)
  <2>1. /\ validation[u].at = "idle" /\ validation[u].probed = 0
        /\ validation[u].hints = Unneeded /\ validation[u].flags = Unneeded
    BY DEF Init, NoValidation
  <2>2. QED
    BY <2>1 DEF Accounted, Informed, At
<1>5. QED
  BY <1>1, <1>2, <1>3, <1>4 DEF DiscoveryInv

LEMMA DiscoveryStep ==
  ASSUME DiscoveryInv, [Next]_vars
  PROVE  DiscoveryInv'
<1>1. CASE \E v \in Validations, q \in Requests : Ask(v, q)
  BY <1>1, AskKeeps
<1>2. CASE \E v \in Validations : Continue(v)
  BY <1>2, GuardKeeps, NoStrictCheckKeeps, StrictWithoutProfileKeeps,
     StrictRemoteKeeps, StrictLocalKeeps, AnswerKeeps DEF Continue
<1>3. CASE \E r \in Remotes : ProbeReads(r) \/ Settle(r)
  BY <1>3, ProbeReadsKeeps, ProbeResolvesKeeps, ProbeRejectsKeeps DEF Settle
<1>4. CASE LocalSettles
  BY <1>4, LocalSettlesKeeps
<1>5. CASE \E m \in Machines, b \in Binaries : Change(m, b)
  BY <1>5, ChangeKeeps
<1>6. CASE Tick
  BY <1>6, ClockKeeps
<1>7. CASE UNCHANGED vars
  <2>1. DiscoveryTypeOK'
    BY <1>7 DEF vars, DiscoveryInv, DiscoveryTypeOK
  <2>2. ProbesAreFresh'
    BY <1>7 DEF vars, DiscoveryInv, ProbesAreFresh, Probing
  <2>3. CacheIsHonest'
    BY <1>7 DEF vars, DiscoveryInv, CacheIsHonest, Honest
  <2>4. ASSUME NEW u \in Validations
        PROVE  Accounted(u)' /\ Informed(u)'
    <3>1. Accounted(u) /\ Informed(u)
      BY DEF DiscoveryInv
    <3>2. Accounted(u)'
      BY <1>7, <3>1 DEF vars, Accounted, Target, Request, Found,
         SweepExpiredCacheEntries
    <3>3. Informed(u)'
      BY <1>7, <3>1 DEF vars, Informed, Knows, At, Target, Request
    <3>4. QED
      BY <3>2, <3>3
  <2>5. QED
    BY <2>1, <2>2, <2>3, <2>4 DEF DiscoveryInv
<1>8. QED
  BY <1>1, <1>2, <1>3, <1>4, <1>5, <1>6, <1>7 DEF Next

\* Probes, summaries and validations are accounted for, whatever is asked,
\* answered and installed in whatever order.
THEOREM DiscoveryInvariant == Spec => []DiscoveryInv
<1>1. Init => DiscoveryInv
  BY DiscoveryStarts
<1>2. DiscoveryInv /\ [Next]_vars => DiscoveryInv'
  BY DiscoveryStep
<1>3. QED
  BY <1>1, <1>2, PTL DEF Spec

\* No verdict rests on a summary older than its lifetime and the time of a
\* probe (discoverRemoteHelpSummaryWithCache), for any number of validations,
\* machines and installations, any lifetime, and any size of the cache.
THEOREM KnowledgeIsFresh == Spec => []VerdictsRestOnFreshKnowledge
<1>1. ASSUME DiscoveryInv
      PROVE  VerdictsRestOnFreshKnowledge
  <2>1. ASSUME NEW v \in Validations, At(v, "verdict"), Target(v) # Local,
               now >= changedAt[Target(v)] + RemoteHelpCacheTtlMs + ProbeMs,
               NEW known \in {validation[v].hints, validation[v].flags},
               known \in Binaries
        PROVE  known = binary[Target(v)]
    <3>1. Knows(Target(v), known)
      BY <1>1, <2>1 DEF DiscoveryInv, Informed
    <3>2. /\ now \in Nat /\ changedAt[Target(v)] \in Nat
          /\ RemoteHelpCacheTtlMs \in Nat /\ ProbeMs \in Nat
      BY <1>1, TargetType, DiscoveryAssumption DEF DiscoveryInv, DiscoveryTypeOK
    <3>3. QED
      BY <2>1, <3>1, <3>2 DEF Knows
  <2>2. QED
    BY <2>1 DEF VerdictsRestOnFreshKnowledge
<1>2. QED
  BY <1>1, DiscoveryInvariant, PTL

\* One probe serves the guard and the strict check: a validation probes again
\* only if the discovery its guard waited for has failed, for any cache that
\* holds at least one summary.
THEOREM OneProbeIsEnough == Spec => []OneProbeServesBoth
<1>1. ASSUME DiscoveryInv
      PROVE  OneProbeServesBoth
  <2>1. ASSUME NEW v \in Validations, validation[v].probed > 1
        PROVE  validation[v].hints = Unknown
    <3>1. validation[v] \in ValidationRecord /\ Accounted(v)
      BY <1>1, TargetType DEF DiscoveryInv
    <3>2. validation[v].probed \in Nat
      BY <3>1 DEF ValidationRecord
    <3>3. validation[v].probed # 0 /\ ~ (validation[v].probed <= 1)
      BY <2>1, <3>2
    <3>4. QED
      BY <2>1, <3>1, <3>3 DEF Accounted, ValidationRecord
  <2>2. QED
    BY <2>1 DEF OneProbeServesBoth
<1>2. QED
  BY <1>1, DiscoveryInvariant, PTL

-------------------------------------------------------------------------------
(***************************************************************************)
(* Part 3: AuthLimiter.  The windows in force - the records without the    *)
(* expired ones - are what AuthPromise keeps; every method is followed by  *)
(* what it does to them.                                                   *)
(***************************************************************************)

\* No client has two records.
OneEach(records) ==
    \A i, j \in DOMAIN records :
        records[i].client = records[j].client => i = j

\* The Map as it may be between two methods.
Kempt(records) ==
    /\ records \in Seq(AuthFailureRecord)
    /\ OneEach(records)
    /\ Len(records) <= MaxTrackedClients

LimiterState == [records : Seq(AuthFailureRecord), operations : Nat]

\* The failures a window counts are its client's last attempts, all of them
\* within the window.
HasCause(w) ==
    LET recent == attempts[w.client]
    IN  /\ w.failures \in 1 .. MaxFailures + 1
        /\ w.failures <= Len(recent)
        /\ w.windowEndsAt <= clock + WindowMs
        /\ \A i \in Len(recent) - w.failures + 1 .. Len(recent) :
              w.windowEndsAt <= recent[i] + WindowMs

AuthInv ==
    /\ limiter \in LimiterState
    /\ Kempt(limiter.records)
    /\ clock \in Nat
    /\ attempts \in [Clients -> Seq(Nat)]
    /\ \A c \in Clients : Len(attempts[c]) <= MaxFailures + 1
    /\ \A w \in ToSet(PruneExpired(limiter.records, clock)) : HasCause(w)

\* A deletion that deletes something makes room.
LEMMA KeepOnlyMakesRoom ==
  ASSUME NEW T, NEW S, NEW s \in Seq(T), NEW d \in ToSet(s), d \notin S
  PROVE  Len(KeepOnly(s, S)) < Len(s)
<1> DEFINE B == {q \in Seq(T) : d \in ToSet(q) => Len(KeepOnly(q, S)) < Len(q)}
<1>1. <<>> \in B
  <2>1. ToSet(<<>>) = {} /\ <<>> \in Seq(T)
    BY DEF ToSet
  <2>2. QED
    BY Zenon, <2>1
<1>2. ASSUME NEW q \in Seq(T), NEW e \in T, q \in B
      PROVE  Append(q, e) \in B
  <2> DEFINE k == KeepOnly(q, S)
             a == Append(q, e)
  <2>1. KeepOnly(a, S) = IF e \in S THEN Append(k, e) ELSE k
    BY KeepOnlyAppend
  <2>2. k \in Seq(T) /\ Len(k) <= Len(q)
    BY KeepOnlyElements
  <2>3. /\ a \in Seq(T) /\ Len(a) = Len(q) + 1 /\ Len(q) \in Nat
        /\ ToSet(a) = ToSet(q) \cup {e}
    BY ToSetAppend, AppendProperties
  <2>4. d \in ToSet(q) => Len(k) < Len(q)
    BY <1>2
  <2> HIDE DEF k, a
  <2>5. Len(k) \in Nat /\ Len(Append(k, e)) = Len(k) + 1
    BY <2>2, AppendProperties
  <2>6. d \in ToSet(a) => Len(KeepOnly(a, S)) < Len(a)
    <3>1. CASE e \in S
      BY <2>1, <2>3, <2>4, <2>5, <3>1
    <3>2. CASE e \notin S
      BY <2>1, <2>2, <2>3, <2>5, <3>2
    <3>3. QED
      BY <3>1, <3>2
  <2>7. QED
    BY <2>3, <2>6 DEF a
<1> HIDE DEF B
<1>3. \A q \in Seq(T) : q \in B
  BY <1>1, <1>2, ClosedUnderAppend
<1>4. QED
  BY <1>3 DEF B

LEMMA RecordElements ==
  ASSUME NEW R \in Seq(AuthFailureRecord)
  PROVE  /\ ToSet(R) \subseteq AuthFailureRecord
         /\ DOMAIN R = 1 .. Len(R) /\ Len(R) \in Nat
         /\ \A i \in DOMAIN R : R[i] \in ToSet(R)
         /\ \A x \in ToSet(R) : \E i \in DOMAIN R : R[i] = x
         /\ \A c : PlacesOf(R, c) = {} <=> \A x \in ToSet(R) : x.client # c
  BY DEF ToSet, PlacesOf

LEMMA OneEachAppend ==
  ASSUME NEW R \in Seq(AuthFailureRecord), NEW e \in AuthFailureRecord
  PROVE  OneEach(Append(R, e)) <=>
             OneEach(R) /\ PlacesOf(R, e.client) = {}
<1> DEFINE a == Append(R, e)
           n == Len(R)
<1>1. /\ a \in Seq(AuthFailureRecord) /\ n \in Nat /\ Len(a) = n + 1
      /\ \A i \in 1 .. n : a[i] = R[i]
      /\ a[n + 1] = e /\ DOMAIN R = 1 .. n /\ DOMAIN a = 1 .. n + 1
  BY AppendProperties
<1> HIDE DEF a, n
<1>2. \A i : i \in DOMAIN a <=> i \in DOMAIN R \/ i = n + 1
  BY <1>1
<1>3. n + 1 \in DOMAIN a /\ n + 1 \notin DOMAIN R
  BY <1>1
<1>4. ASSUME OneEach(a)
      PROVE  OneEach(R) /\ PlacesOf(R, e.client) = {}
  <2>1. OneEach(R)
    BY <1>1, <1>2, <1>4 DEF OneEach
  <2>2. \A i \in DOMAIN R : R[i].client # e.client
    BY <1>1, <1>2, <1>3, <1>4 DEF OneEach
  <2>3. QED
    BY <2>1, <2>2 DEF PlacesOf
<1>5. ASSUME OneEach(R), PlacesOf(R, e.client) = {}
      PROVE  OneEach(a)
  <2>1. \A i \in DOMAIN R : R[i].client # e.client
    BY <1>5 DEF PlacesOf
  <2>2. QED
    BY <1>1, <1>2, <1>5, <2>1 DEF OneEach
<1>6. QED
  BY <1>4, <1>5 DEF a

LEMMA OneEachKept ==
  ASSUME NEW R \in Seq(AuthFailureRecord), OneEach(R), NEW S
  PROVE  OneEach(KeepOnly(R, S))
<1> DEFINE T == AuthFailureRecord
           B == {q \in Seq(T) : OneEach(q) => OneEach(KeepOnly(q, S))}
<1>1. <<>> \in B
  <2>1. <<>> \in Seq(T) /\ OneEach(<<>>)
    BY DEF OneEach
  <2>2. QED
    BY <2>1, KeepOnlyEmpty
<1>2. ASSUME NEW q \in Seq(T), NEW e \in T, q \in B
      PROVE  Append(q, e) \in B
  <2> DEFINE k == KeepOnly(q, S)
  <2>1. KeepOnly(Append(q, e), S) = IF e \in S THEN Append(k, e) ELSE k
    BY KeepOnlyAppend
  <2>2. k \in Seq(T) /\ ToSet(k) \subseteq ToSet(q)
    BY KeepOnlyElements
  <2>3. ASSUME OneEach(Append(q, e))
        PROVE  OneEach(KeepOnly(Append(q, e), S))
    <3>1. OneEach(q) /\ PlacesOf(q, e.client) = {}
      BY <2>3, OneEachAppend
    <3>2. OneEach(k)
      BY <1>2, <3>1
    <3> HIDE DEF k
    <3>3. PlacesOf(k, e.client) = {}
      BY <2>2, <3>1, RecordElements
    <3>4. OneEach(Append(k, e))
      BY <2>2, <3>2, <3>3, OneEachAppend
    <3>5. QED
      BY <2>1, <3>2, <3>4
  <2>4. Append(q, e) \in Seq(T)
    BY AppendProperties
  <2>5. QED
    BY <2>3, <2>4
<1> HIDE DEF B
<1>3. \A q \in Seq(T) : q \in B
  BY <1>1, <1>2, ClosedUnderAppend
<1>4. QED
  BY <1>3 DEF B

\* Every deletion leaves the Map as it may be.
LEMMA KemptKept ==
  ASSUME NEW R, Kempt(R), NEW S
  PROVE  /\ Kempt(KeepOnly(R, S))
         /\ ToSet(KeepOnly(R, S)) = ToSet(R) \cap S
         /\ Len(KeepOnly(R, S)) <= Len(R)
<1>1. R \in Seq(AuthFailureRecord) /\ OneEach(R) /\ Len(R) <= MaxTrackedClients
  BY DEF Kempt
<1> DEFINE k == KeepOnly(R, S)
<1>2. /\ k \in Seq(AuthFailureRecord) /\ ToSet(k) = ToSet(R) \cap S
      /\ Len(k) <= Len(R) /\ OneEach(k)
  BY <1>1, KeepOnlyElements, OneEachKept
<1> HIDE DEF k
<1>3. Len(k) \in Nat /\ Len(R) \in Nat /\ MaxTrackedClients \in Nat
  BY <1>1, <1>2, AuthLimiterAssumption
<1>4. QED
  BY <1>1, <1>2, <1>3 DEF Kempt, k

\* A client's record is the only one with its key.
LEMMA OneRecord ==
  ASSUME NEW R, Kempt(R), NEW x \in ToSet(R), NEW y \in ToSet(R),
         x.client = y.client
  PROVE  x = y
<1>1. PICK i \in DOMAIN R : R[i] = x
  BY RecordElements DEF Kempt
<1>2. PICK j \in DOMAIN R : R[j] = y
  BY RecordElements DEF Kempt
<1>3. QED
  BY <1>1, <1>2 DEF Kempt, OneEach

\* A record at the end of the Map without its client's other record.
LEMMA KemptAppend ==
  ASSUME NEW R, Kempt(R), NEW e \in AuthFailureRecord,
         PlacesOf(R, e.client) = {}, Len(R) < MaxTrackedClients
  PROVE  Kempt(Append(R, e)) /\ ToSet(Append(R, e)) = ToSet(R) \cup {e}
<1>1. R \in Seq(AuthFailureRecord) /\ OneEach(R)
  BY DEF Kempt
<1>2. /\ Append(R, e) \in Seq(AuthFailureRecord)
      /\ Len(Append(R, e)) = Len(R) + 1 /\ Len(R) \in Nat
  BY <1>1, AppendProperties
<1>3. OneEach(Append(R, e)) /\ ToSet(Append(R, e)) = ToSet(R) \cup {e}
  BY <1>1, OneEachAppend, ToSetAppend
<1>4. MaxTrackedClients \in Nat
  BY AuthLimiterAssumption
<1>5. QED
  BY <1>2, <1>3, <1>4 DEF Kempt

LEMMA PrunedElements ==
  ASSUME NEW R, Kempt(R), NEW t
  PROVE  LET W == PruneExpired(R, t)
         IN  /\ Kempt(W) /\ Len(W) <= Len(R)
             /\ ToSet(W) = {x \in ToSet(R) : ~ Expired(x, t)}
             /\ PruneExpired(W, t) = W
<1> DEFINE S == {e \in AuthFailureRecord : ~ Expired(e, t)}
           W == KeepOnly(R, S)
<1>1. /\ Kempt(W) /\ ToSet(W) = ToSet(R) \cap S /\ Len(W) <= Len(R)
  BY KemptKept
<1>2. R \in Seq(AuthFailureRecord) /\ ToSet(R) \subseteq AuthFailureRecord
  BY RecordElements DEF Kempt
<1>3. ToSet(W) = {x \in ToSet(R) : ~ Expired(x, t)}
  BY <1>1, <1>2
<1>4. KeepOnly(W, S) = W
  <2>1. W \in Seq(AuthFailureRecord) /\ ToSet(W) \subseteq S
    BY <1>1 DEF Kempt
  <2> HIDE DEF W, S
  <2>2. QED
    BY <2>1, KeepOnlyAll
<1>5. QED
  BY <1>1, <1>3, <1>4 DEF PruneExpired

LEMMA WithoutElements ==
  ASSUME NEW R, Kempt(R), NEW c
  PROVE  LET Q == Without(R, c)
         IN  /\ Kempt(Q) /\ Len(Q) <= Len(R)
             /\ ToSet(Q) = {x \in ToSet(R) : x.client # c}
             /\ PlacesOf(Q, c) = {}
             /\ PlacesOf(R, c) = {} => Q = R
             /\ PlacesOf(R, c) # {} => Len(Q) < Len(R)
<1> DEFINE S == {e \in AuthFailureRecord : e.client # c}
           Q == KeepOnly(R, S)
<1>1. /\ Kempt(Q) /\ ToSet(Q) = ToSet(R) \cap S /\ Len(Q) <= Len(R)
  BY KemptKept
<1>2. R \in Seq(AuthFailureRecord) /\ ToSet(R) \subseteq AuthFailureRecord
  BY RecordElements DEF Kempt
<1>3. ToSet(Q) = {x \in ToSet(R) : x.client # c}
  BY <1>1, <1>2
<1>4. PlacesOf(Q, c) = {}
  <2>1. Q \in Seq(AuthFailureRecord)
    BY <1>1 DEF Kempt
  <2> HIDE DEF Q
  <2>2. QED
    BY <1>3, <2>1, RecordElements
<1>5. ASSUME PlacesOf(R, c) = {}
      PROVE  Q = R
  <2>1. \A x \in ToSet(R) : x.client # c
    BY <1>2, <1>5, RecordElements
  <2>2. ToSet(R) \subseteq S
    BY <1>2, <2>1
  <2> HIDE DEF S
  <2>3. QED
    BY <1>2, <2>2, KeepOnlyAll
<1>6. ASSUME PlacesOf(R, c) # {}
      PROVE  Len(Q) < Len(R)
  <2>1. PICK x \in ToSet(R) : x.client = c
    BY <1>2, <1>6, RecordElements
  <2>2. x \notin S
    BY <2>1
  <2> HIDE DEF S
  <2>3. QED
    BY <1>2, <2>1, <2>2, KeepOnlyMakesRoom
<1>7. QED
  BY <1>1, <1>3, <1>4, <1>5, <1>6 DEF Without

\* Which of two deletions comes first makes no difference.
LEMMA PruneWithout ==
  ASSUME NEW R, Kempt(R), NEW c, NEW t
  PROVE  PruneExpired(Without(R, c), t) = Without(PruneExpired(R, t), c)
<1> DEFINE A == {e \in AuthFailureRecord : e.client # c}
           C == {e \in AuthFailureRecord : ~ Expired(e, t)}
<1>1. R \in Seq(AuthFailureRecord)
  BY DEF Kempt
<1>2. A \cap C = C \cap A
  OBVIOUS
<1> HIDE DEF A, C
<1>3. KeepOnly(KeepOnly(R, A), C) = KeepOnly(R, A \cap C)
  BY <1>1, KeepOnlyTwice
<1>4. KeepOnly(KeepOnly(R, C), A) = KeepOnly(R, C \cap A)
  BY <1>1, KeepOnlyTwice
<1>5. KeepOnly(KeepOnly(R, A), C) = KeepOnly(KeepOnly(R, C), A)
  BY <1>2, <1>3, <1>4
<1>6. QED
  BY <1>5 DEF PruneExpired, Without, A, C

LEMMA PruneAppend ==
  ASSUME NEW R, Kempt(R), NEW e \in AuthFailureRecord, NEW t
  PROVE  PruneExpired(Append(R, e), t) =
             IF Expired(e, t) THEN PruneExpired(R, t)
                              ELSE Append(PruneExpired(R, t), e)
<1> DEFINE C == {x \in AuthFailureRecord : ~ Expired(x, t)}
<1>1. R \in Seq(AuthFailureRecord) /\ (e \in C <=> ~ Expired(e, t))
  BY DEF Kempt
<1> HIDE DEF C
<1>2. KeepOnly(Append(R, e), C) = IF e \in C THEN Append(KeepOnly(R, C), e)
                                             ELSE KeepOnly(R, C)
  BY <1>1, KeepOnlyAppend
<1>3. QED
  BY <1>1, <1>2 DEF PruneExpired, C

LEMMA WithoutAppend ==
  ASSUME NEW R, Kempt(R), NEW e \in AuthFailureRecord, NEW c, e.client = c
  PROVE  Without(Append(R, e), c) = Without(R, c)
<1> DEFINE A == {x \in AuthFailureRecord : x.client # c}
<1>1. R \in Seq(AuthFailureRecord) /\ e \notin A
  BY DEF Kempt
<1> HIDE DEF A
<1>2. KeepOnly(Append(R, e), A) = IF e \in A THEN Append(KeepOnly(R, A), e)
                                             ELSE KeepOnly(R, A)
  BY <1>1, KeepOnlyAppend
<1>3. QED
  BY <1>1, <1>2 DEF Without, A

LEMMA WithoutTwice ==
  ASSUME NEW R, Kempt(R), NEW c
  PROVE  Without(Without(R, c), c) = Without(R, c)
  BY WithoutElements

\* touchRecord moves a client's window to the end.
LEMMA TouchRecordView ==
  ASSUME NEW R, Kempt(R), NEW e \in AuthFailureRecord, NEW t,
         PlacesOf(R, e.client) # {}, ~ Expired(e, t)
  PROVE  LET T == TouchRecord(R, e, t)
         IN  /\ Kempt(T) /\ ToSet(T) = ToSet(Without(R, e.client)) \cup {e}
             /\ PruneExpired(T, t) =
                    Append(Without(PruneExpired(R, t), e.client), e)
<1> DEFINE Q == Without(R, e.client)
<1>1. /\ Kempt(Q) /\ PlacesOf(Q, e.client) = {} /\ Len(Q) < Len(R)
  BY WithoutElements
<1>2. PruneExpired(Q, t) = Without(PruneExpired(R, t), e.client)
  BY PruneWithout
<1> HIDE DEF Q
<1>3. Len(Q) < MaxTrackedClients
  <2>1. Len(Q) \in Nat /\ Len(R) \in Nat /\ Len(R) <= MaxTrackedClients
    BY <1>1 DEF Kempt
  <2>2. MaxTrackedClients \in Nat
    BY AuthLimiterAssumption
  <2>3. QED
    BY <1>1, <2>1, <2>2
<1>4. Kempt(Append(Q, e)) /\ ToSet(Append(Q, e)) = ToSet(Q) \cup {e}
  BY <1>1, <1>3, KemptAppend
<1>5. PruneExpired(Append(Q, e), t) = Append(PruneExpired(Q, t), e)
  BY <1>1, PruneAppend
<1>6. QED
  BY <1>2, <1>4, <1>5 DEF TouchRecord, Q

\* The periodic cleanup is not seen in the windows in force.
LEMMA MaybeCleanupView ==
  ASSUME NEW l \in LimiterState, Kempt(l.records), NEW t
  PROVE  LET m == MaybeCleanup(l, t)
         IN  /\ m \in LimiterState /\ Kempt(m.records)
             /\ ToSet(m.records) \subseteq ToSet(l.records)
             /\ PruneExpired(m.records, t) = PruneExpired(l.records, t)
<1> DEFINE R == l.records
           W == PruneExpired(R, t)
           n == (l.operations + 1) % CleanupInterval
<1>1. /\ Kempt(W) /\ PruneExpired(W, t) = W
      /\ ToSet(W) = {x \in ToSet(R) : ~ Expired(x, t)}
  BY PrunedElements
<1>2. n \in Nat
  BY AuthLimiterAssumption DEF LimiterState
<1> HIDE DEF W, n
<1>3. MaybeCleanup(l, t) = [records |-> IF n = 0 THEN W ELSE R,
                            operations |-> n]
  BY DEF MaybeCleanup, W, n
<1>4. R \in Seq(AuthFailureRecord) /\ W \in Seq(AuthFailureRecord)
  BY <1>1 DEF Kempt
<1>5. QED
  BY <1>1, <1>2, <1>3, <1>4 DEF LimiterState, W

\* What a look for client c at time t answers and leaves behind: nothing
\* changes for a client without a window; another's window goes to the end.
SeenAs(out, l, c, t) ==
    LET W   == PruneExpired(l.records, t)
        new == out.limiter.records
    IN  /\ out.limiter \in LimiterState /\ Kempt(new)
        /\ PlacesOf(W, c) = {} =>
              /\ ~ out.blocked
              /\ PlacesOf(new, c) = {}
              /\ PruneExpired(new, t) = W
        /\ \A w \in ToSet(W) : w.client = c =>
              /\ out.blocked <=> w.failures > MaxFailures
              /\ PruneExpired(new, t) = Append(Without(W, c), w)

\* The record that a method picks by the client's place.
LEMMA PickedRecord ==
  ASSUME NEW R, Kempt(R), NEW c, PlacesOf(R, c) # {}
  PROVE  LET e == R[CHOOSE i \in PlacesOf(R, c) : TRUE]
         IN  e \in ToSet(R) /\ e \in AuthFailureRecord /\ e.client = c
<1> DEFINE i == CHOOSE j \in PlacesOf(R, c) : TRUE
<1>1. i \in PlacesOf(R, c)
  OBVIOUS
<1> HIDE DEF i
<1>2. i \in DOMAIN R /\ R[i].client = c
  BY <1>1 DEF PlacesOf
<1>3. R \in Seq(AuthFailureRecord)
  BY DEF Kempt
<1>4. R[i] \in ToSet(R) /\ ToSet(R) \subseteq AuthFailureRecord
  BY <1>2, <1>3, RecordElements
<1>5. QED
  BY <1>2, <1>4 DEF i

LEMMA IsBlockedView ==
  ASSUME NEW l \in LimiterState, Kempt(l.records), NEW c, NEW t
  PROVE  SeenAs(IsBlocked(l, c, t), l, c, t)
<1> DEFINE m == MaybeCleanup(l, t)
           R == m.records
           W == PruneExpired(l.records, t)
           out == IsBlocked(l, c, t)
<1>1. m \in LimiterState /\ Kempt(m.records) /\ PruneExpired(m.records, t) = W
  BY MaybeCleanupView
<1> HIDE DEF m, W
<1>2. /\ Kempt(W) /\ ToSet(W) = {x \in ToSet(R) : ~ Expired(x, t)}
  BY <1>1, PrunedElements
<1>3. R \in Seq(AuthFailureRecord) /\ W \in Seq(AuthFailureRecord)
  BY <1>1, <1>2 DEF Kempt
<1>4. CASE PlacesOf(R, c) = {}
  <2>1. out = [limiter |-> m, blocked |-> FALSE]
    BY <1>4 DEF IsBlocked, m
  <2>2. \A w \in ToSet(W) : w.client # c
    BY <1>2, <1>3, <1>4, RecordElements
  <2>3. out.limiter = m /\ ~ out.blocked
    BY <2>1
  <2> HIDE DEF out
  <2>4. QED
    BY <1>1, <1>4, <2>2, <2>3 DEF SeenAs, W, out
<1>5. CASE PlacesOf(R, c) # {}
  <2> DEFINE e == R[CHOOSE i \in PlacesOf(R, c) : TRUE]
  <2>1. e \in ToSet(R) /\ e \in AuthFailureRecord /\ e.client = c
    BY <1>1, <1>5, PickedRecord
  <2>2. out = IF Expired(e, t)
              THEN [limiter |-> [m EXCEPT !.records = Without(R, c)],
                    blocked |-> FALSE]
              ELSE [limiter |-> [m EXCEPT !.records = TouchRecord(R, e, t)],
                    blocked |-> e.failures > MaxFailures]
    BY <1>5 DEF IsBlocked, m
  <2> HIDE DEF e, out
  <2>3. CASE Expired(e, t)
    <3>1. out.limiter = [m EXCEPT !.records = Without(R, c)] /\ ~ out.blocked
      BY <2>2, <2>3
    <3>2. Kempt(Without(R, c)) /\ PlacesOf(Without(R, c), c) = {}
      BY <1>1, WithoutElements
    <3>3. Without(R, c) \in Seq(AuthFailureRecord)
      BY <3>2 DEF Kempt
    <3>4. /\ out.limiter \in LimiterState
          /\ out.limiter.records = Without(R, c)
      BY <1>1, <3>1, <3>3 DEF LimiterState
    <3>5. \A x \in ToSet(W) : x.client # c
      <4>1. ASSUME NEW x \in ToSet(W), x.client = c
            PROVE  FALSE
        <5>1. x \in ToSet(R) /\ ~ Expired(x, t)
          BY <1>2
        <5>2. x = e
          BY <1>1, <2>1, <4>1, <5>1, OneRecord
        <5>3. QED
          BY <2>3, <5>1, <5>2
      <4>2. QED
        BY <4>1
    <3>6. PlacesOf(W, c) = {} /\ Without(W, c) = W
      BY <1>2, <1>3, <3>5, RecordElements, WithoutElements
    <3>7. PruneExpired(Without(R, c), t) = W
      BY <1>1, <3>6, PruneWithout
    <3>8. QED
      BY <3>1, <3>2, <3>4, <3>5, <3>7 DEF SeenAs, W, out
  <2>4. CASE ~ Expired(e, t)
    <3> DEFINE T == TouchRecord(R, e, t)
    <3>1. /\ Kempt(T)
          /\ PruneExpired(T, t) = Append(Without(W, c), e)
      BY <1>1, <1>5, <2>1, <2>4, TouchRecordView
    <3> HIDE DEF T
    <3>2. T \in Seq(AuthFailureRecord)
      BY <3>1 DEF Kempt
    <3>3. out.limiter = [m EXCEPT !.records = T]
      BY <2>2, <2>4 DEF T
    <3>4. out.blocked <=> e.failures > MaxFailures
      BY <2>2, <2>4
    <3>5. out.limiter \in LimiterState /\ out.limiter.records = T
      BY <1>1, <3>2, <3>3 DEF LimiterState
    <3>6. e \in ToSet(W)
      BY <1>2, <2>1, <2>4
    <3>7. PlacesOf(W, c) # {}
      BY <1>3, <2>1, <3>6, RecordElements
    <3>8. \A w \in ToSet(W) : w.client = c => w = e
      BY <1>2, <2>1, <3>6, OneRecord
    <3>9. QED
      BY <3>1, <3>4, <3>5, <3>7, <3>8 DEF SeenAs, W, out
  <2>5. QED
    BY <2>3, <2>4
<1>6. QED
  BY <1>4, <1>5 DEF out

\* What a failure of client c at time t leaves behind, if the look before it
\* has left no record of c but a window in force.
FailedAs(new, l, c, t) ==
    LET W     == PruneExpired(l.records, t)
        first == [client |-> c, failures |-> 1, windowEndsAt |-> t + WindowMs]
        roomy == IF Len(W) < MaxTrackedClients THEN W ELSE Tail(W)
    IN  /\ new \in LimiterState /\ Kempt(new.records)
        /\ PlacesOf(W, c) = {} =>
              /\ PlacesOf(roomy, c) = {} /\ Kempt(roomy)
              /\ PruneExpired(new.records, t) = Append(roomy, first)
        /\ \A w \in ToSet(W) : w.client = c =>
              PruneExpired(new.records, t) =
                  Append(Without(W, c), [w EXCEPT !.failures = @ + 1])

LEMMA KemptTail ==
  ASSUME NEW R, Kempt(R), R # <<>>
  PROVE  /\ Kempt(Tail(R)) /\ Len(Tail(R)) = Len(R) - 1
         /\ ToSet(Tail(R)) \subseteq ToSet(R)
<1> DEFINE T == Tail(R)
<1>1. R \in Seq(AuthFailureRecord) /\ OneEach(R) /\ Len(R) <= MaxTrackedClients
  BY DEF Kempt
<1>2. /\ T \in Seq(AuthFailureRecord) /\ Len(T) = Len(R) - 1
      /\ \A i \in 1 .. Len(T) : T[i] = R[i + 1]
  BY <1>1, HeadTailProperties
<1>3. /\ Len(R) \in Nat /\ Len(T) \in Nat
      /\ DOMAIN T = 1 .. Len(T) /\ DOMAIN R = 1 .. Len(R)
      /\ MaxTrackedClients \in Nat
  BY <1>1, <1>2, AuthLimiterAssumption
<1> HIDE DEF T
<1>4. \A i \in DOMAIN T : T[i] = R[i + 1] /\ i + 1 \in DOMAIN R /\ i \in Nat
  BY <1>2, <1>3
<1>5. OneEach(T)
  <2>1. ASSUME NEW i \in DOMAIN T, NEW j \in DOMAIN T, T[i].client = T[j].client
        PROVE  i = j
    <3>1. i + 1 = j + 1
      BY <1>1, <1>4, <2>1 DEF OneEach
    <3>2. QED
      BY <1>4, <3>1
  <2>2. QED
    BY <2>1 DEF OneEach
<1>6. ToSet(T) \subseteq ToSet(R)
  BY <1>4 DEF ToSet
<1>7. Kempt(T)
  BY <1>1, <1>2, <1>3, <1>5 DEF Kempt
<1>8. QED
  BY <1>2, <1>6, <1>7 DEF T

LEMMA StillWithout ==
  ASSUME NEW R, Kempt(R), NEW Q, Kempt(Q), ToSet(Q) \subseteq ToSet(R),
         NEW c, PlacesOf(R, c) = {}
  PROVE  PlacesOf(Q, c) = {}
<1>1. R \in Seq(AuthFailureRecord) /\ Q \in Seq(AuthFailureRecord)
  BY DEF Kempt
<1>2. \A x \in ToSet(R) : x.client # c
  BY <1>1, RecordElements
<1>3. \A x \in ToSet(Q) : x.client # c
  BY <1>2
<1>4. QED
  BY <1>1, <1>3, RecordElements

\* ensureCapacity makes room for one more: expired records go first, and of
\* the windows in force at most one, the client's not seen for the longest time.
LEMMA EnsureCapacityView ==
  ASSUME NEW R, Kempt(R), NEW c, PlacesOf(R, c) = {}, NEW t
  PROVE  LET E == EnsureCapacity(R, c, t)
             W == PruneExpired(R, t)
         IN  /\ Kempt(E) /\ Len(E) < MaxTrackedClients /\ PlacesOf(E, c) = {}
             /\ PruneExpired(E, t) =
                    IF Len(W) < MaxTrackedClients THEN W ELSE Tail(W)
<1> DEFINE W == PruneExpired(R, t)
           E == EnsureCapacity(R, c, t)
           M == MaxTrackedClients
<1>1. /\ Kempt(W) /\ PruneExpired(W, t) = W /\ Len(W) <= Len(R)
      /\ ToSet(W) = {x \in ToSet(R) : ~ Expired(x, t)}
  BY PrunedElements
<1>2. E = IF Len(R) < M THEN R
          ELSE IF Len(W) - M + 1 <= 0 THEN W
          ELSE SubSeq(W, (Len(W) - M + 1) + 1, Len(W))
  BY DEF EnsureCapacity
<1> HIDE DEF W, E
<1>3. /\ R \in Seq(AuthFailureRecord) /\ W \in Seq(AuthFailureRecord)
      /\ Len(R) \in Nat /\ Len(W) \in Nat /\ M \in Nat \ {0}
      /\ Len(W) <= M /\ Len(R) <= M
  BY <1>1, AuthLimiterAssumption DEF Kempt
<1>4. PlacesOf(W, c) = {}
  <2>1. ToSet(W) \subseteq ToSet(R)
    BY <1>1
  <2>2. QED
    BY <1>1, <2>1, StillWithout
<1>5. CASE Len(R) < M
  <2>1. E = R /\ Len(W) < M
    BY <1>1, <1>2, <1>3, <1>5
  <2>2. QED
    BY <1>5, <2>1 DEF E, W
<1>6. CASE ~ (Len(R) < M) /\ Len(W) < M
  <2>1. E = W
    BY <1>2, <1>3, <1>6
  <2>2. QED
    BY <1>1, <1>4, <1>6, <2>1 DEF E, W
<1>7. CASE ~ (Len(R) < M) /\ ~ (Len(W) < M)
  <2>1. Len(W) = M /\ (Len(W) - M + 1) + 1 = 2 /\ W # <<>>
    BY <1>3, <1>7
  <2>2. E = SubSeq(W, 2, Len(W))
    BY <1>2, <1>3, <1>7, <2>1
  <2>3. E = Tail(W)
    BY <1>3, <2>1, <2>2, TailIsSubSeq
  <2>4. /\ Kempt(E) /\ Len(E) = Len(W) - 1 /\ ToSet(E) \subseteq ToSet(W)
    BY <1>1, <2>1, <2>3, KemptTail
  <2>5. E \in Seq(AuthFailureRecord)
    BY <2>4 DEF Kempt
  <2>6. PlacesOf(E, c) = {}
    BY <1>1, <1>4, <2>4, StillWithout
  <2>7. PruneExpired(E, t) = E
    <3>1. ToSet(E) \subseteq {x \in AuthFailureRecord : ~ Expired(x, t)}
      BY <1>1, <2>4, <2>5, RecordElements
    <3>2. QED
      BY <2>5, <3>1, KeepOnlyAll DEF PruneExpired
  <2>8. Len(E) < M
    BY <1>3, <2>1, <2>4
  <2>9. QED
    BY <1>7, <2>3, <2>4, <2>6, <2>7, <2>8 DEF E, W
<1>8. QED
  BY <1>5, <1>6, <1>7

LEMMA RecordFailureView ==
  ASSUME NEW l \in LimiterState, Kempt(l.records), NEW c \in Clients,
         NEW t \in Nat,
         \A x \in ToSet(l.records) : x.client = c => ~ Expired(x, t)
  PROVE  FailedAs(RecordFailure(l, c, t), l, c, t)
<1> DEFINE m == MaybeCleanup(l, t)
           R == m.records
           W == PruneExpired(l.records, t)
           first == [client |-> c, failures |-> 1, windowEndsAt |-> t + WindowMs]
           roomy == IF Len(W) < MaxTrackedClients THEN W ELSE Tail(W)
           new == RecordFailure(l, c, t)
           E == EnsureCapacity(R, c, t)
           live == {i \in PlacesOf(R, c) : ~ Expired(R[i], t)}
<1>1. /\ m \in LimiterState /\ Kempt(m.records)
      /\ PruneExpired(m.records, t) = W
      /\ ToSet(m.records) \subseteq ToSet(l.records)
  BY MaybeCleanupView
<1>2. new = [m EXCEPT !.records =
                IF live # {}
                THEN LET record == R[CHOOSE i \in live : TRUE]
                     IN  TouchRecord(R, [record EXCEPT !.failures = @ + 1], t)
                ELSE IF PlacesOf(E, c) = {}
                THEN Append(E, first)
                ELSE [E EXCEPT ![CHOOSE i \in PlacesOf(E, c) : TRUE] = first]]
  BY DEF RecordFailure
<1>3. /\ Kempt(W) /\ ToSet(W) = {x \in ToSet(R) : ~ Expired(x, t)}
  BY <1>1, PrunedElements
<1>4. R \in Seq(AuthFailureRecord) /\ W \in Seq(AuthFailureRecord)
  BY <1>1, <1>3 DEF Kempt
<1>5. /\ t + WindowMs \in Nat /\ ~ (t >= t + WindowMs)
  BY AuthLimiterAssumption
<1>6. /\ first \in AuthFailureRecord /\ first.client = c
      /\ ~ Expired(first, t)
  BY <1>5 DEF AuthFailureRecord, Expired
<1> HIDE DEF m, W, new, first
<1>7. ASSUME NEW T, Kempt(T), new = [m EXCEPT !.records = T]
      PROVE  /\ new \in LimiterState /\ new.records = T
  BY <1>1, <1>7 DEF LimiterState, Kempt
<1>8. CASE PlacesOf(R, c) = {}
  <2>1. /\ Kempt(E) /\ Len(E) < MaxTrackedClients /\ PlacesOf(E, c) = {}
        /\ PruneExpired(E, t) = roomy
    BY <1>1, <1>8, EnsureCapacityView
  <2>2. live = {}
    BY <1>8
  <2> HIDE DEF E, live, roomy
  <2>3. new = [m EXCEPT !.records = Append(E, first)]
    BY <1>2, <2>1, <2>2
  <2>4. Kempt(Append(E, first))
    BY <1>6, <2>1, KemptAppend
  <2>5. PruneExpired(Append(E, first), t) = Append(roomy, first)
    BY <1>6, <2>1, PruneAppend
  <2>6. Kempt(roomy)
    BY <2>1, PrunedElements
  <2>7. ToSet(roomy) \subseteq ToSet(E)
    BY <2>1, PrunedElements
  <2>8. PlacesOf(roomy, c) = {}
    BY <2>1, <2>6, <2>7, StillWithout
  <2>9. \A w \in ToSet(W) : w.client # c
    BY <1>3, <1>4, <1>8, RecordElements
  <2>10. new \in LimiterState /\ new.records = Append(E, first)
    BY <1>7, <2>3, <2>4
  <2>11. QED
    BY <2>4, <2>5, <2>6, <2>8, <2>9, <2>10 DEF FailedAs, W, new, roomy, first
<1>9. CASE PlacesOf(R, c) # {}
  <2>1. live = PlacesOf(R, c)
    <3>1. ASSUME NEW i \in PlacesOf(R, c)
          PROVE  ~ Expired(R[i], t)
      <4>1. R[i] \in ToSet(R) /\ R[i].client = c
        BY <1>4, RecordElements DEF PlacesOf
      <4>2. QED
        BY <1>1, <4>1
    <3>2. QED
      BY <3>1
  <2> DEFINE e == R[CHOOSE i \in PlacesOf(R, c) : TRUE]
             f == [e EXCEPT !.failures = @ + 1]
  <2>2. e \in ToSet(R) /\ e \in AuthFailureRecord /\ e.client = c
    BY <1>1, <1>9, PickedRecord
  <2>3. new = [m EXCEPT !.records = TouchRecord(R, f, t)]
    BY <1>2, <1>9, <2>1
  <2> HIDE DEF e, live
  <2>4. ~ Expired(e, t)
    BY <1>1, <2>2
  <2>5. /\ f \in AuthFailureRecord /\ f.client = c /\ ~ Expired(f, t)
    BY <2>2, <2>4 DEF AuthFailureRecord, Expired
  <2> DEFINE T == TouchRecord(R, f, t)
  <2> HIDE DEF f
  <2>6. /\ Kempt(T) /\ PruneExpired(T, t) = Append(Without(W, c), f)
    BY <1>1, <1>9, <2>5, TouchRecordView
  <2> HIDE DEF T
  <2>7. new \in LimiterState /\ new.records = T
    BY <1>7, <2>3, <2>6 DEF T
  <2>8. e \in ToSet(W)
    BY <1>3, <2>2, <2>4
  <2>9. PlacesOf(W, c) # {}
    BY <1>4, <2>2, <2>8, RecordElements
  <2>10. \A w \in ToSet(W) : w.client = c => w = e
    BY <1>3, <2>2, <2>8, OneRecord
  <2>11. \A w \in ToSet(W) : w.client = c =>
            PruneExpired(new.records, t) =
                Append(Without(W, c), [w EXCEPT !.failures = @ + 1])
    BY <2>6, <2>7, <2>10 DEF f
  <2>12. QED
    BY <2>6, <2>7, <2>9, <2>11 DEF FailedAs, W, new
<1>10. QED
  BY <1>8, <1>9 DEF new

\* The windows in force, and what each request makes of them.
InForce == PruneExpired(limiter.records, clock)

LimiterOK == limiter \in LimiterState /\ Kempt(limiter.records)

LEMMA InForceElements ==
  ASSUME LimiterOK
  PROVE  /\ Kempt(InForce) /\ InForce \in Seq(AuthFailureRecord)
         /\ ToSet(InForce) = {x \in ToSet(limiter.records) : ~ Expired(x, clock)}
         /\ ToSet(InForce) \subseteq AuthFailureRecord
         /\ \A c : PlacesOf(InForce, c) = {} <=>
                       \A w \in ToSet(InForce) : w.client # c
<1>1. /\ Kempt(InForce)
      /\ ToSet(InForce) = {x \in ToSet(limiter.records) : ~ Expired(x, clock)}
  BY PrunedElements DEF InForce, LimiterOK
<1>2. InForce \in Seq(AuthFailureRecord)
  BY <1>1 DEF Kempt
<1>3. QED
  BY <1>1, <1>2, RecordElements

LEMMA RefuseBlockedView ==
  ASSUME LimiterOK, NEW c \in Clients, RefuseBlocked(c)
  PROVE  /\ LimiterOK'
         /\ \E w \in ToSet(InForce) :
               /\ w.client = c /\ w.failures > MaxFailures
               /\ InForce' = Append(Without(InForce, c), w)
<1>1. SeenAs(IsBlocked(limiter, c, clock), limiter, c, clock)
  BY IsBlockedView DEF LimiterOK
<1> DEFINE out == IsBlocked(limiter, c, clock)
<1>2. out.blocked /\ limiter' = out.limiter /\ clock' = clock
  BY DEF RefuseBlocked
<1> HIDE DEF out
<1>3. SeenAs(out, limiter, c, clock)
  BY <1>1 DEF out
<1>4. LimiterOK'
  BY <1>2, <1>3 DEF SeenAs, LimiterOK
<1>5. PlacesOf(InForce, c) # {}
  BY <1>2, <1>3 DEF SeenAs, InForce
<1>6. PICK w \in ToSet(InForce) : w.client = c
  BY <1>5, InForceElements
<1>7. /\ w.failures > MaxFailures
      /\ PruneExpired(limiter'.records, clock') = Append(Without(InForce, c), w)
  BY <1>2, <1>3, <1>6 DEF SeenAs, InForce
<1>8. QED
  BY <1>4, <1>6, <1>7 DEF InForce

LEMMA AuthorizedView ==
  ASSUME LimiterOK, NEW c \in Clients, Authorized(c)
  PROVE  /\ LimiterOK'
         /\ \A w \in ToSet(InForce) : w.client = c => ~ (w.failures > MaxFailures)
         /\ InForce' = Without(InForce, c)
<1> DEFINE out == IsBlocked(limiter, c, clock)
           R == out.limiter.records
           W == PruneExpired(R, clock)
<1>1. SeenAs(out, limiter, c, clock)
  BY IsBlockedView DEF LimiterOK
<1>2. ~ out.blocked /\ limiter' = Clear(out.limiter, c) /\ clock' = clock
  BY DEF Authorized
<1> HIDE DEF out
<1>3. out.limiter \in LimiterState /\ Kempt(R)
  BY <1>1 DEF SeenAs
<1>4. Kempt(Without(R, c)) /\ PruneExpired(Without(R, c), clock) = Without(W, c)
  BY <1>3, WithoutElements, PruneWithout
<1>5. limiter' = [out.limiter EXCEPT !.records = Without(R, c)]
  BY <1>2 DEF Clear
<1>6. limiter' \in LimiterState /\ limiter'.records = Without(R, c)
  BY <1>3, <1>4, <1>5 DEF LimiterState, Kempt
<1>7. LimiterOK' /\ InForce' = Without(W, c)
  BY <1>2, <1>4, <1>6 DEF LimiterOK, InForce
<1>8. \A w \in ToSet(InForce) : w.client = c => ~ (w.failures > MaxFailures)
  BY <1>1, <1>2 DEF SeenAs, InForce
<1>9. Without(W, c) = Without(InForce, c)
  <2>1. CASE PlacesOf(InForce, c) = {}
    BY <1>1, <2>1 DEF SeenAs, InForce
  <2>2. CASE PlacesOf(InForce, c) # {}
    <3>1. PICK w \in ToSet(InForce) : w.client = c
      BY <2>2, InForceElements
    <3>2. W = Append(Without(InForce, c), w)
      BY <1>1, <3>1 DEF SeenAs, InForce
    <3>3. Kempt(InForce) /\ w \in AuthFailureRecord
      BY <3>1, InForceElements
    <3>4. Kempt(Without(InForce, c))
      BY <3>3, WithoutElements
    <3> HIDE DEF W
    <3>5. Without(W, c) = Without(Without(InForce, c), c)
      BY <3>1, <3>2, <3>3, <3>4, WithoutAppend
    <3>6. QED
      BY <3>3, <3>5, WithoutTwice
  <2>3. QED
    BY <2>1, <2>2
<1>10. QED
  BY <1>7, <1>8, <1>9

FirstWindow(c) == [client |-> c, failures |-> 1, windowEndsAt |-> clock + WindowMs]

RoomyWindows ==
    IF Len(InForce) < MaxTrackedClients THEN InForce ELSE Tail(InForce)

OneMoreFailure(w) == [w EXCEPT !.failures = @ + 1]

LEMMA UnauthorizedView ==
  ASSUME LimiterOK, clock \in Nat, NEW c \in Clients, Unauthorized(c)
  PROVE  /\ LimiterOK'
         /\ \/ /\ PlacesOf(InForce, c) = {}
               /\ InForce' = Append(RoomyWindows, FirstWindow(c))
               /\ answer' = IF MaxFailures = 0 THEN "rateLimited"
                                               ELSE "unauthorized"
            \/ \E w \in ToSet(InForce) :
                  /\ w.client = c /\ ~ (w.failures > MaxFailures)
                  /\ InForce' = Append(Without(InForce, c), OneMoreFailure(w))
                  /\ answer' = IF w.failures = MaxFailures
                               THEN "rateLimited" ELSE "unauthorized"
<1> DEFINE seen == IsBlocked(limiter, c, clock)
           l1 == seen.limiter
           W1 == PruneExpired(l1.records, clock)
           l2 == RecordFailure(l1, c, clock)
           W2 == PruneExpired(l2.records, clock)
           failed == IsBlocked(l2, c, clock)
<1>1. SeenAs(seen, limiter, c, clock)
  BY IsBlockedView DEF LimiterOK
<1>2. /\ ~ seen.blocked /\ limiter' = failed.limiter /\ clock' = clock
      /\ answer' = IF failed.blocked THEN "rateLimited" ELSE "unauthorized"
  BY DEF Unauthorized
<1> HIDE DEF seen
<1>3. l1 \in LimiterState /\ Kempt(l1.records)
  BY <1>1 DEF SeenAs
<1>4. MaxFailures \in Nat
  BY AuthLimiterAssumption
<1>5. ASSUME FailedAs(l2, l1, c, clock), NEW w \in AuthFailureRecord, w.client = c,
             NEW Q, Kempt(Q), PlacesOf(Q, c) = {}, W2 = Append(Q, w)
      PROVE  /\ LimiterOK' /\ InForce' = Append(Q, w)
             /\ failed.blocked <=> w.failures > MaxFailures
  <2>1. l2 \in LimiterState /\ Kempt(l2.records)
    BY <1>5 DEF FailedAs
  <2> HIDE DEF l2
  <2>2. SeenAs(failed, l2, c, clock)
    BY <2>1, IsBlockedView
  <2> HIDE DEF failed
  <2>3. w \in ToSet(W2)
    BY <1>5, ToSetAppend DEF Kempt
  <2>4. /\ failed.blocked <=> w.failures > MaxFailures
        /\ PruneExpired(failed.limiter.records, clock) = Append(Without(W2, c), w)
        /\ failed.limiter \in LimiterState /\ Kempt(failed.limiter.records)
    BY <1>5, <2>2, <2>3 DEF SeenAs
  <2>5. Without(W2, c) = Q
    BY <1>5, WithoutAppend, WithoutElements
  <2>6. QED
    BY <1>2, <2>4, <2>5 DEF LimiterOK, InForce
<1>6. CASE PlacesOf(InForce, c) = {}
  <2>1. PlacesOf(l1.records, c) = {} /\ W1 = InForce
    BY <1>1, <1>6 DEF SeenAs, InForce
  <2> HIDE DEF seen, l1
  <2>2. \A x \in ToSet(l1.records) : x.client = c => ~ Expired(x, clock)
    <3>1. l1.records \in Seq(AuthFailureRecord)
      BY <1>3 DEF Kempt
    <3>2. \A x \in ToSet(l1.records) : x.client # c
      BY <2>1, <3>1, RecordElements
    <3>3. QED
      BY <3>2
  <2> HIDE DEF l1
  <2>3. FailedAs(l2, l1, c, clock)
    BY <1>3, <2>2, RecordFailureView
  <2> HIDE DEF l2
  <2>4. /\ Kempt(RoomyWindows) /\ PlacesOf(RoomyWindows, c) = {}
        /\ W2 = Append(RoomyWindows, FirstWindow(c))
    BY <1>6, <2>1, <2>3 DEF FailedAs, RoomyWindows, FirstWindow
  <2>5. clock + WindowMs \in Nat
    BY AuthLimiterAssumption
  <2>6. FirstWindow(c) \in AuthFailureRecord /\ FirstWindow(c).client = c
        /\ FirstWindow(c).failures = 1
    BY <2>5 DEF FirstWindow, AuthFailureRecord
  <2>7. /\ LimiterOK' /\ InForce' = Append(RoomyWindows, FirstWindow(c))
        /\ failed.blocked <=> 1 > MaxFailures
    BY <1>5, <2>3, <2>4, <2>6
  <2> HIDE DEF failed
  <2>8. 1 > MaxFailures <=> MaxFailures = 0
    BY <1>4
  <2>9. QED
    BY <1>2, <1>6, <2>7, <2>8
<1>7. CASE PlacesOf(InForce, c) # {}
  <2>1. PICK w \in ToSet(InForce) : w.client = c
    BY <1>7, InForceElements
  <2> DEFINE Q == Without(InForce, c)
  <2>2. ~ (w.failures > MaxFailures) /\ W1 = Append(Q, w)
    BY <1>1, <1>2, <2>1 DEF SeenAs, InForce
  <2>3. Kempt(InForce) /\ w \in AuthFailureRecord
    BY <2>1, InForceElements
  <2>4. Kempt(Q) /\ PlacesOf(Q, c) = {} /\ Without(Q, c) = Q
    BY <2>3, WithoutElements, WithoutTwice
  <2> HIDE DEF Q, l1
  <2>5. w \in ToSet(W1)
    BY <2>2, <2>3, <2>4, ToSetAppend DEF Kempt
  <2>6. ToSet(W1) = {x \in ToSet(l1.records) : ~ Expired(x, clock)}
    BY <1>3, PrunedElements
  <2>7. w \in ToSet(l1.records) /\ ~ Expired(w, clock)
    BY <2>5, <2>6
  <2>8. \A x \in ToSet(l1.records) : x.client = c => ~ Expired(x, clock)
    BY <1>3, <2>1, <2>7, OneRecord
  <2>9. FailedAs(l2, l1, c, clock)
    BY <1>3, <2>8, RecordFailureView
  <2> HIDE DEF l2
  <2>10. W2 = Append(Without(W1, c), OneMoreFailure(w))
    BY <2>1, <2>5, <2>9 DEF FailedAs, OneMoreFailure
  <2>11. Without(W1, c) = Q
    BY <2>1, <2>2, <2>3, <2>4, WithoutAppend
  <2>12. /\ OneMoreFailure(w) \in AuthFailureRecord
         /\ OneMoreFailure(w).client = c
         /\ OneMoreFailure(w).failures = w.failures + 1 /\ w.failures \in Nat
    BY <2>1, <2>3 DEF OneMoreFailure, AuthFailureRecord
  <2> DEFINE f == OneMoreFailure(w)
  <2> HIDE DEF f
  <2>13. /\ f \in AuthFailureRecord /\ f.client = c
         /\ f.failures = w.failures + 1 /\ w.failures \in Nat
         /\ W2 = Append(Q, f)
    BY <2>10, <2>11, <2>12 DEF f
  <2>14. /\ LimiterOK' /\ InForce' = Append(Q, f)
         /\ failed.blocked <=> f.failures > MaxFailures
    BY <1>5, <2>4, <2>9, <2>13
  <2> HIDE DEF failed
  <2>15. f.failures > MaxFailures <=> w.failures = MaxFailures
    BY <1>4, <2>2, <2>13
  <2>16. answer' = IF w.failures = MaxFailures THEN "rateLimited"
                                               ELSE "unauthorized"
    BY <1>2, <2>14, <2>15
  <2>17. QED
    BY <2>1, <2>2, <2>14, <2>16 DEF f, Q
<1>8. QED
  BY <1>6, <1>7

LEMMA AuthTickView ==
  ASSUME LimiterOK, clock \in Nat, AuthTick
  PROVE  /\ LimiterOK' /\ clock' = clock + 1
         /\ InForce' = PruneExpired(InForce, clock + 1)
         /\ ToSet(InForce') \subseteq ToSet(InForce)
<1> DEFINE A == {e \in AuthFailureRecord : ~ Expired(e, clock)}
           C == {e \in AuthFailureRecord : ~ Expired(e, clock + 1)}
           R == limiter.records
<1>1. limiter' = limiter /\ clock' = clock + 1
  BY DEF AuthTick
<1>2. R \in Seq(AuthFailureRecord)
  BY DEF LimiterOK, Kempt
<1>3. A \cap C = C
  BY DEF Expired, AuthFailureRecord
<1> HIDE DEF A, C
<1>4. KeepOnly(KeepOnly(R, A), C) = KeepOnly(R, C)
  BY <1>2, <1>3, KeepOnlyTwice
<1>5. InForce' = KeepOnly(R, C)
  BY <1>1 DEF InForce, PruneExpired, C
<1>6. InForce = KeepOnly(R, A)
  BY DEF InForce, PruneExpired, A
<1>7. InForce' = PruneExpired(InForce, clock + 1)
  BY <1>4, <1>5, <1>6 DEF PruneExpired, C
<1>8. ToSet(KeepOnly(InForce, C)) = ToSet(InForce) \cap C
  BY InForceElements, KeepOnlyElements
<1>9. QED
  BY <1>1, <1>4, <1>5, <1>6, <1>7, <1>8 DEF LimiterOK

LEMMA AuthInvParts ==
  ASSUME AuthInv
  PROVE  /\ LimiterOK /\ clock \in Nat
         /\ \A w \in ToSet(InForce) : HasCause(w)
  BY DEF AuthInv, LimiterOK, InForce

LEMMA AuthInvNext ==
  ASSUME LimiterOK', clock' \in Nat, attempts' \in [Clients -> Seq(Nat)],
         \A c \in Clients : Len(attempts'[c]) <= MaxFailures + 1,
         \A w \in ToSet(InForce') : HasCause(w)'
  PROVE  AuthInv'
  BY DEF AuthInv, LimiterOK, InForce

\* A window whose client's attempts are what they were keeps its cause.
LEMMA CauseStays ==
  ASSUME AuthInv, NEW w \in ToSet(InForce), clock' = clock \/ clock' = clock + 1,
         attempts'[w.client] = attempts[w.client]
  PROVE  HasCause(w)'
<1>1. HasCause(w) /\ clock \in Nat
  BY AuthInvParts
<1>2. w \in AuthFailureRecord
  BY AuthInvParts, InForceElements
<1>3. w.windowEndsAt \in Nat /\ WindowMs \in Nat
  BY <1>2, AuthLimiterAssumption DEF AuthFailureRecord
<1>4. w.windowEndsAt <= clock' + WindowMs
  BY <1>1, <1>3 DEF HasCause
<1>5. QED
  BY <1>1, <1>4 DEF HasCause

\* One more failed attempt is recorded of client c.
LEMMA OneMoreAttempt ==
  ASSUME AuthInv, NEW c \in Clients, Unauthorized(c)
  PROVE  LET old == attempts[c]
             new == attempts'[c]
         IN  /\ attempts' \in [Clients -> Seq(Nat)]
             /\ \A d \in Clients \ {c} : attempts'[d] = attempts[d]
             /\ Len(new) \in 1 .. MaxFailures + 1
             /\ new[Len(new)] = clock
             /\ \/ Len(new) = Len(old) + 1
                \/ Len(new) = Len(old) /\ Len(old) = MaxFailures + 1
             /\ \A i \in 1 .. Len(new) - 1 :
                   new[i] = old[Len(old) - Len(new) + i + 1]
<1> DEFINE old == attempts[c]
           recent == Append(old, clock)
           new == IF Len(recent) > MaxFailures + 1 THEN Tail(recent) ELSE recent
<1>1. /\ old \in Seq(Nat) /\ clock \in Nat /\ Len(old) \in Nat
      /\ Len(old) <= MaxFailures + 1 /\ MaxFailures \in Nat
      /\ attempts \in [Clients -> Seq(Nat)]
  BY AuthLimiterAssumption DEF AuthInv
<1>2. attempts' = [attempts EXCEPT ![c] = new]
  BY DEF Unauthorized
<1> HIDE DEF old
<1>3. /\ recent \in Seq(Nat) /\ recent # <<>> /\ Len(recent) = Len(old) + 1
      /\ \A i \in 1 .. Len(old) : recent[i] = old[i]
      /\ recent[Len(old) + 1] = clock
  <2>1. \A q \in Seq(Nat), t \in Nat :
            /\ Append(q, t) \in Seq(Nat) /\ Append(q, t) # <<>>
            /\ Len(Append(q, t)) = Len(q) + 1
            /\ \A i \in 1 .. Len(q) : Append(q, t)[i] = q[i]
            /\ Append(q, t)[Len(q) + 1] = t
    BY AppendProperties
  <2>2. QED
    BY Zenon, <1>1, <2>1
<1> HIDE DEF recent, new
<1>4. /\ new \in Seq(Nat)
      /\ Len(new) \in 1 .. MaxFailures + 1 /\ new[Len(new)] = clock
      /\ \/ Len(new) = Len(old) + 1
         \/ Len(new) = Len(old) /\ Len(old) = MaxFailures + 1
      /\ \A i \in 1 .. Len(new) - 1 : new[i] = old[Len(old) - Len(new) + i + 1]
  <2>1. CASE Len(recent) > MaxFailures + 1
    <3> DEFINE T == Tail(recent)
    <3>1. /\ T \in Seq(Nat) /\ Len(T) = Len(recent) - 1
          /\ \A i \in 1 .. Len(T) : T[i] = recent[i + 1]
      BY <1>3, HeadTailProperties
    <3> HIDE DEF T
    <3>2. new = T
      BY <2>1 DEF T, new
    <3>3. Len(old) = MaxFailures + 1 /\ Len(T) = Len(old)
      BY <1>1, <1>3, <2>1, <3>1
    <3>4. T[Len(T)] = clock
      BY <1>1, <1>3, <3>1, <3>3
    <3>5. \A i \in 1 .. Len(T) - 1 : T[i] = old[i + 1]
      BY <1>1, <1>3, <3>1, <3>3
    <3>6. \A i \in 1 .. Len(T) - 1 : Len(old) - Len(T) + i + 1 = i + 1
      BY <1>1, <3>3
    <3>7. \A i \in 1 .. Len(T) - 1 : T[i] = old[Len(old) - Len(T) + i + 1]
      BY Zenon, <3>5, <3>6
    <3>8. Len(T) \in 1 .. MaxFailures + 1
      BY <1>1, <3>3
    <3>9. QED
      BY <3>1, <3>2, <3>3, <3>4, <3>7, <3>8
  <2>2. CASE ~ (Len(recent) > MaxFailures + 1)
    <3>1. new = recent
      BY <2>2 DEF new
    <3>2. Len(recent) \in 1 .. MaxFailures + 1
      BY <1>1, <1>3, <2>2
    <3>3. \A i \in 1 .. Len(recent) - 1 :
              recent[i] = old[Len(old) - Len(recent) + i + 1]
      <4>1. \A i \in 1 .. Len(recent) - 1 :
                /\ Len(old) - Len(recent) + i + 1 = i
                /\ i \in 1 .. Len(old)
        BY <1>1, <1>3
      <4>2. QED
        BY <1>3, <4>1
    <3>4. QED
      BY <1>3, <3>1, <3>2, <3>3
  <2>3. QED
    BY <2>1, <2>2
<1>5. attempts'[c] = new /\ attempts' \in [Clients -> Seq(Nat)]
  BY <1>1, <1>2, <1>4
<1>6. \A d \in Clients \ {c} : attempts'[d] = attempts[d]
  BY <1>1, <1>2
<1>7. QED
  BY <1>4, <1>5, <1>6 DEF old

LEMMA FirstWindowHasCause ==
  ASSUME AuthInv, NEW c \in Clients, Unauthorized(c),
         NEW w \in AuthFailureRecord, w = FirstWindow(c)
  PROVE  HasCause(w)'
<1> DEFINE new == attempts'[c]
<1>1. /\ Len(new) \in 1 .. MaxFailures + 1 /\ new[Len(new)] = clock
  BY OneMoreAttempt
<1>2. w.client = c /\ w.failures = 1 /\ w.windowEndsAt = clock + WindowMs
  BY DEF FirstWindow
<1>3. clock' = clock /\ clock \in Nat /\ WindowMs \in Nat /\ MaxFailures \in Nat
  BY AuthLimiterAssumption DEF AuthInv, Unauthorized
<1> HIDE DEF new
<1>4. \A i \in Len(new) - 1 + 1 .. Len(new) : i = Len(new)
  BY <1>1
<1>5. /\ 1 \in 1 .. MaxFailures + 1 /\ 1 <= Len(new)
      /\ clock + WindowMs <= clock + WindowMs
  BY <1>1, <1>3
<1>6. \A i \in Len(new) - w.failures + 1 .. Len(new) :
          w.windowEndsAt <= new[i] + WindowMs
  BY <1>1, <1>2, <1>4, <1>5
<1>7. QED
  BY <1>2, <1>3, <1>5, <1>6 DEF HasCause, new

LEMMA FurtherFailureHasCause ==
  ASSUME AuthInv, NEW c \in Clients, Unauthorized(c),
         NEW w \in ToSet(InForce), w.client = c, ~ (w.failures > MaxFailures),
         NEW f \in AuthFailureRecord, f = OneMoreFailure(w)
  PROVE  HasCause(f)'
<1> DEFINE old == attempts[c]
           new == attempts'[c]
<1>1. /\ Len(new) \in 1 .. MaxFailures + 1 /\ new[Len(new)] = clock
      /\ \/ Len(new) = Len(old) + 1
         \/ Len(new) = Len(old) /\ Len(old) = MaxFailures + 1
      /\ \A i \in 1 .. Len(new) - 1 :
            new[i] = old[Len(old) - Len(new) + i + 1]
  BY OneMoreAttempt
<1>2. HasCause(w) /\ w \in AuthFailureRecord
  BY AuthInvParts, InForceElements
<1>3. /\ clock' = clock /\ clock \in Nat /\ WindowMs \in Nat
      /\ MaxFailures \in Nat /\ Len(old) \in Nat /\ old \in Seq(Nat)
  BY AuthLimiterAssumption DEF AuthInv, Unauthorized
<1> DEFINE n == w.failures
           end == w.windowEndsAt
<1>4. /\ n \in 1 .. MaxFailures /\ end \in Nat /\ n <= Len(old)
      /\ end <= clock + WindowMs
      /\ \A i \in Len(old) - n + 1 .. Len(old) : end <= old[i] + WindowMs
  BY <1>2, <1>3 DEF HasCause, AuthFailureRecord
<1>5. f.client = c /\ f.failures = n + 1 /\ f.windowEndsAt = end
  BY <1>2 DEF OneMoreFailure, AuthFailureRecord
<1> HIDE DEF old, new, n, end
<1>6. n + 1 \in 1 .. MaxFailures + 1 /\ n + 1 <= Len(new)
  BY <1>1, <1>3, <1>4
<1>7. ASSUME NEW i \in Len(new) - (n + 1) + 1 .. Len(new)
      PROVE  end <= new[i] + WindowMs
  <2>1. CASE i = Len(new)
    BY <1>1, <1>4, <2>1
  <2>2. CASE i # Len(new)
    <3> DEFINE j == Len(old) - Len(new) + i + 1
    <3>1. i \in 1 .. Len(new) - 1 /\ j \in Len(old) - n + 1 .. Len(old)
      <4> DEFINE a == Len(old)
                 b == Len(new)
      <4>1. a \in Nat /\ b \in Nat /\ n \in Nat /\ n + 1 <= b /\ (b = a + 1 \/ b = a)
        BY <1>1, <1>3, <1>4, <1>6
      <4>2. i \in b - (n + 1) + 1 .. b /\ i # b
        BY <2>2
      <4> HIDE DEF a, b
      <4>3. i \in 1 .. b - 1 /\ a - b + i + 1 \in a - n + 1 .. a
        BY <4>1, <4>2
      <4>4. QED
        BY <4>3 DEF a, b
    <3>2. new[i] = old[j]
      BY <1>1, <3>1
    <3> HIDE DEF j
    <3>3. QED
      BY <1>4, <3>1, <3>2
  <2>3. QED
    BY <2>1, <2>2
<1>8. QED
  BY <1>3, <1>4, <1>5, <1>6, <1>7 DEF HasCause, new

LEMMA RefuseBlockedKeeps ==
  ASSUME AuthInv, NEW c \in Clients, RefuseBlocked(c)
  PROVE  AuthInv'
<1>1. PICK w \in ToSet(InForce) : InForce' = Append(Without(InForce, c), w)
  BY AuthInvParts, RefuseBlockedView
<1>2. LimiterOK' /\ clock' = clock /\ attempts' = attempts /\ clock \in Nat
  BY AuthInvParts, RefuseBlockedView DEF RefuseBlocked
<1>3. Kempt(InForce) /\ w \in AuthFailureRecord
  BY AuthInvParts, InForceElements
<1> DEFINE Q == Without(InForce, c)
<1>4. Q \in Seq(AuthFailureRecord) /\ ToSet(Q) \subseteq ToSet(InForce)
  BY <1>3, WithoutElements DEF Kempt
<1>5. InForce' = Append(Q, w)
  BY <1>1
<1> HIDE DEF Q
<1>6. ToSet(InForce') \subseteq ToSet(InForce)
  BY <1>3, <1>4, <1>5, ToSetAppend
<1>7. \A x \in ToSet(InForce') : HasCause(x)'
  BY <1>2, <1>6, CauseStays
<1>8. QED
  BY <1>2, <1>7, AuthInvNext DEF AuthInv

LEMMA AuthorizedKeeps ==
  ASSUME AuthInv, NEW c \in Clients, Authorized(c)
  PROVE  AuthInv'
<1>1. /\ LimiterOK' /\ InForce' = Without(InForce, c)
      /\ clock' = clock /\ clock \in Nat
      /\ attempts' = [attempts EXCEPT ![c] = <<>>]
  BY AuthInvParts, AuthorizedView DEF Authorized
<1>2. attempts \in [Clients -> Seq(Nat)] /\ MaxFailures \in Nat
  BY AuthLimiterAssumption DEF AuthInv
<1>3. attempts' \in [Clients -> Seq(Nat)]
  BY <1>1, <1>2
<1>4. \A d \in Clients : Len(attempts'[d]) <= MaxFailures + 1
  <2>1. Len(<<>>) = 0 /\ 0 <= MaxFailures + 1
    BY <1>2
  <2>2. QED
    BY <1>1, <1>2, <2>1 DEF AuthInv
<1>5. ToSet(InForce') = {x \in ToSet(InForce) : x.client # c}
  BY <1>1, AuthInvParts, InForceElements, WithoutElements
<1>6. ASSUME NEW x \in ToSet(InForce')
      PROVE  HasCause(x)'
  <2>1. x \in ToSet(InForce) /\ x.client # c
    BY <1>5
  <2>2. x.client \in Clients
    BY <2>1, AuthInvParts, InForceElements DEF AuthFailureRecord
  <2>3. attempts'[x.client] = attempts[x.client]
    BY <1>1, <1>2, <2>1, <2>2
  <2>4. QED
    BY <1>1, <2>1, <2>3, CauseStays
<1>7. QED
  BY <1>1, <1>3, <1>4, <1>6, AuthInvNext

LEMMA UnauthorizedKeeps ==
  ASSUME AuthInv, NEW c \in Clients, Unauthorized(c)
  PROVE  AuthInv'
<1>1. LimiterOK' /\ clock' = clock /\ clock \in Nat
  BY AuthInvParts, UnauthorizedView DEF Unauthorized
<1>2. /\ attempts' \in [Clients -> Seq(Nat)]
      /\ \A d \in Clients \ {c} : attempts'[d] = attempts[d]
      /\ Len(attempts'[c]) <= MaxFailures + 1
  BY OneMoreAttempt, AuthLimiterAssumption
<1>3. \A d \in Clients : Len(attempts'[d]) <= MaxFailures + 1
  BY <1>2 DEF AuthInv
<1>4. Kempt(InForce)
  BY AuthInvParts, InForceElements
<1>5. ASSUME NEW x \in ToSet(InForce), x.client # c
      PROVE  HasCause(x)'
  <2>1. x.client \in Clients
    BY AuthInvParts, InForceElements DEF AuthFailureRecord
  <2>2. QED
    BY <1>1, <1>2, <1>5, <2>1, CauseStays
<1>6. ASSUME NEW Q, Kempt(Q), ToSet(Q) \subseteq ToSet(InForce),
             PlacesOf(Q, c) = {}, NEW w \in AuthFailureRecord, HasCause(w)',
             InForce' = Append(Q, w)
      PROVE  AuthInv'
  <2>1. Q \in Seq(AuthFailureRecord)
    BY <1>6 DEF Kempt
  <2>2. ToSet(InForce') = ToSet(Q) \cup {w}
    BY <1>6, <2>1, ToSetAppend
  <2>3. \A x \in ToSet(Q) : x.client # c
    BY <1>6, <2>1, RecordElements
  <2>4. \A x \in ToSet(InForce') : HasCause(x)'
    BY <1>5, <1>6, <2>2, <2>3
  <2>5. QED
    BY <1>1, <1>2, <1>3, <2>4, AuthInvNext
<1>7. CASE /\ PlacesOf(InForce, c) = {}
           /\ InForce' = Append(RoomyWindows, FirstWindow(c))
  <2>1. /\ Kempt(RoomyWindows) /\ ToSet(RoomyWindows) \subseteq ToSet(InForce)
    <3>1. CASE Len(InForce) < MaxTrackedClients
      BY <1>4, <3>1 DEF RoomyWindows
    <3>2. CASE ~ (Len(InForce) < MaxTrackedClients)
      <4>1. InForce # <<>>
        BY <3>2, AuthLimiterAssumption
      <4>2. QED
        BY <1>4, <3>2, <4>1, KemptTail DEF RoomyWindows
    <3>3. QED
      BY <3>1, <3>2
  <2>2. PlacesOf(RoomyWindows, c) = {}
    BY <1>4, <1>7, <2>1, StillWithout
  <2>3. clock + WindowMs \in Nat
    BY <1>1, AuthLimiterAssumption
  <2>4. FirstWindow(c) \in AuthFailureRecord
    BY <2>3 DEF FirstWindow, AuthFailureRecord
  <2>5. PICK w \in AuthFailureRecord : w = FirstWindow(c)
    BY <2>4
  <2>6. HasCause(w)'
    BY <2>5, FirstWindowHasCause
  <2>7. PICK Q : Q = RoomyWindows
    OBVIOUS
  <2>8. QED
    BY <1>6, <1>7, <2>1, <2>2, <2>5, <2>6, <2>7
<1>8. CASE \E w \in ToSet(InForce) :
              /\ w.client = c /\ ~ (w.failures > MaxFailures)
              /\ InForce' = Append(Without(InForce, c), OneMoreFailure(w))
  <2>1. PICK w \in ToSet(InForce) :
              /\ w.client = c /\ ~ (w.failures > MaxFailures)
              /\ InForce' = Append(Without(InForce, c), OneMoreFailure(w))
    BY <1>8
  <2>2. w \in AuthFailureRecord
    BY AuthInvParts, InForceElements
  <2>3. OneMoreFailure(w) \in AuthFailureRecord
    BY <2>2 DEF OneMoreFailure, AuthFailureRecord
  <2>4. PICK f \in AuthFailureRecord : f = OneMoreFailure(w)
    BY <2>3
  <2>5. HasCause(f)'
    BY <2>1, <2>4, FurtherFailureHasCause
  <2>6. PICK Q : Q = Without(InForce, c)
    OBVIOUS
  <2>7. Kempt(Q) /\ ToSet(Q) \subseteq ToSet(InForce) /\ PlacesOf(Q, c) = {}
    BY <1>4, <2>6, WithoutElements
  <2>8. QED
    BY <1>6, <2>1, <2>4, <2>5, <2>6, <2>7
<1>9. QED
  BY <1>7, <1>8, UnauthorizedView, AuthInvParts

LEMMA AuthTickKeeps ==
  ASSUME AuthInv, AuthTick
  PROVE  AuthInv'
<1>1. /\ LimiterOK' /\ clock' = clock + 1 /\ clock \in Nat
      /\ ToSet(InForce') \subseteq ToSet(InForce) /\ attempts' = attempts
  BY AuthInvParts, AuthTickView DEF AuthTick
<1>2. \A x \in ToSet(InForce') : HasCause(x)'
  BY <1>1, CauseStays
<1>3. clock' \in Nat
  BY <1>1
<1>4. QED
  BY <1>1, <1>2, <1>3, AuthInvNext DEF AuthInv

LEMMA AuthStarts ==
  ASSUME AuthInit
  PROVE  AuthInv /\ InForce = <<>>
<1>1. /\ limiter.records = <<>> /\ limiter \in LimiterState /\ clock = 0
      /\ attempts = [c \in Clients |-> <<>>]
  BY DEF AuthInit, LimiterState
<1>2. Kempt(<<>>)
  <2>1. Len(<<>>) = 0 /\ 0 <= MaxTrackedClients
    BY AuthLimiterAssumption
  <2>2. QED
    BY <2>1 DEF Kempt, OneEach
<1>3. InForce = <<>>
  BY <1>1, KeepOnlyEmpty DEF InForce, PruneExpired
<1>4. ToSet(<<>>) = {}
  BY DEF ToSet
<1>5. \A c \in Clients : Len(attempts[c]) <= MaxFailures + 1
  <2>1. Len(<<>>) = 0 /\ 0 <= MaxFailures + 1
    BY AuthLimiterAssumption
  <2>2. QED
    BY <1>1, <2>1
<1>6. PruneExpired(limiter.records, clock) = <<>>
  BY <1>3 DEF InForce
<1>7. \A w \in ToSet(PruneExpired(limiter.records, clock)) : HasCause(w)
  BY Zenon, <1>4, <1>6
<1>8. attempts \in [Clients -> Seq(Nat)] /\ clock \in Nat
  BY <1>1
<1>9. QED
  BY <1>1, <1>2, <1>3, <1>5, <1>7, <1>8 DEF AuthInv

LEMMA AuthStep ==
  ASSUME AuthInv, [AuthNext]_authVars
  PROVE  AuthInv'
<1>1. CASE AuthTick
  BY <1>1, AuthTickKeeps
<1>2. ASSUME NEW c \in Clients, RefuseBlocked(c)
      PROVE  AuthInv'
  BY <1>2, RefuseBlockedKeeps
<1>3. ASSUME NEW c \in Clients, Unauthorized(c)
      PROVE  AuthInv'
  BY <1>3, UnauthorizedKeeps
<1>4. ASSUME NEW c \in Clients, Authorized(c)
      PROVE  AuthInv'
  BY <1>4, AuthorizedKeeps
<1>5. CASE UNCHANGED authVars
  BY <1>5 DEF authVars, AuthInv, HasCause
<1>6. QED
  BY <1>1, <1>2, <1>3, <1>4, <1>5 DEF AuthNext

\* The Map holds at most MaxTrackedClients records, one a client, and every
\* window in force has its failures among its client's last attempts.
THEOREM LimiterInvariant == AuthSpec => []AuthInv
<1>1. AuthInit => AuthInv
  BY AuthStarts
<1>2. AuthInv /\ [AuthNext]_authVars => AuthInv'
  BY AuthStep
<1>3. QED
  BY <1>1, <1>2, PTL DEF AuthSpec

\* A client is refused unheard (isBlocked) only if its own last MaxFailures + 1
\* requests failed within the window, for any number of clients, any limits,
\* and whatever the limiter cleaned up or evicted meanwhile.
THEOREM NoClientIsBlockedWithoutCause == AuthSpec => []BlockedOnlyForCause
<1>1. ASSUME AuthInv
      PROVE  BlockedOnlyForCause
  <2>1. ASSUME NEW c \in Clients, NEW e \in LiveRecords(c),
               e.failures > MaxFailures
        PROVE  /\ Len(attempts[c]) = MaxFailures + 1
               /\ \A i \in DOMAIN attempts[c] :
                     attempts[c][i] > clock - WindowMs
    <3>1. limiter.records \in Seq(AuthFailureRecord) /\ LimiterOK
      BY <1>1, AuthInvParts DEF LimiterOK, Kempt
    <3>2. e \in ToSet(limiter.records) /\ e.client = c /\ ~ Expired(e, clock)
      BY <2>1, <3>1, RecordElements DEF LiveRecords, PlacesOf
    <3>3. e \in ToSet(InForce) /\ e \in AuthFailureRecord
      BY <3>1, <3>2, InForceElements
    <3>4. HasCause(e)
      BY <1>1, <3>3, AuthInvParts
    <3> DEFINE recent == attempts[c]
               n == Len(recent)
    <3>5. /\ recent \in Seq(Nat) /\ n <= MaxFailures + 1 /\ n \in Nat
          /\ clock \in Nat /\ MaxFailures \in Nat /\ WindowMs \in Nat
          /\ DOMAIN recent = 1 .. n
      BY <1>1, AuthLimiterAssumption DEF AuthInv
    <3>6. /\ e.failures \in 1 .. MaxFailures + 1 /\ e.failures <= n
          /\ \A i \in n - e.failures + 1 .. n :
                e.windowEndsAt <= recent[i] + WindowMs
      BY <3>2, <3>4 DEF HasCause
    <3>7. e.windowEndsAt > clock /\ e.windowEndsAt \in Nat
      BY <3>2, <3>3, <3>5 DEF Expired, AuthFailureRecord
    <3> HIDE DEF recent, n
    <3>8. n = MaxFailures + 1 /\ e.failures = n
      BY <2>1, <3>5, <3>6
    <3>9. ASSUME NEW i \in 1 .. n
          PROVE  recent[i] > clock - WindowMs
      <4>1. e.windowEndsAt <= recent[i] + WindowMs /\ recent[i] \in Nat
        BY <3>5, <3>6, <3>8
      <4>2. QED
        BY <3>5, <3>7, <4>1
    <3>10. QED
      BY <3>5, <3>8, <3>9 DEF recent, n
  <2>2. QED
    BY <2>1 DEF BlockedOnlyForCause
<1>2. QED
  BY <1>1, LimiterInvariant, PTL

\* AuthPromise deletes entries as the limiter does.
LEMMA SameKeepOnly ==
  ASSUME NEW seq, NEW S
  PROVE  Promise!KeepOnly(seq, S) = KeepOnly(seq, S)
  BY DEF Promise!KeepOnly, KeepOnly

\* The operators of AuthPromise, read through the refinement mapping.
LEMMA PromiseTerms ==
  ASSUME NEW c
  PROVE  /\ Promise!Of(c) = PlacesOf(InForce, c)
         /\ Promise!OthersThan(c) = Without(InForce, c)
         /\ Promise!WithRoom(InForce) = RoomyWindows
         /\ Promise!Window = AuthFailureRecord
<1>1. Promise!Window = AuthFailureRecord
  BY DEF Promise!Window, AuthFailureRecord
<1>2. Promise!Of(c) = PlacesOf(InForce, c)
  BY DEF Promise!Of, PlacesOf, InForce
<1>3. Promise!OthersThan(c) = Without(InForce, c)
  BY <1>1, SameKeepOnly DEF Promise!OthersThan, Without, InForce
<1>4. Promise!WithRoom(InForce) = RoomyWindows
  BY DEF Promise!WithRoom, RoomyWindows
<1>5. QED
  BY <1>1, <1>2, <1>3, <1>4

\* The place in which a window is found.
LEMMA PlaceOfWindow ==
  ASSUME LimiterOK, NEW c, NEW w \in ToSet(InForce), w.client = c
  PROVE  \E i \in PlacesOf(InForce, c) : InForce[i] = w
  BY InForceElements, RecordElements DEF PlacesOf

LEMMA WindowInPlace ==
  ASSUME LimiterOK, NEW c, NEW i \in PlacesOf(InForce, c)
  PROVE  InForce[i] \in ToSet(InForce) /\ InForce[i].client = c
  BY InForceElements, RecordElements DEF PlacesOf

LEMMA TickIsPromised ==
  ASSUME AuthInv, AuthTick
  PROVE  Promise!Next
<1>1. /\ clock' = clock + 1 /\ InForce' = PruneExpired(InForce, clock + 1)
      /\ clock \in Nat /\ UNCHANGED answer
  BY AuthInvParts, AuthTickView DEF AuthTick
<1>2. {e \in AuthFailureRecord : ~ Expired(e, clock + 1)} =
          {w \in AuthFailureRecord : clock' < w.windowEndsAt}
  BY <1>1 DEF Expired, AuthFailureRecord
<1>3. Promise!Window = AuthFailureRecord
  BY PromiseTerms
<1>4. InForce' = KeepOnly(InForce, {w \in Promise!Window : clock' < w.windowEndsAt})
  BY <1>1, <1>2, <1>3 DEF PruneExpired
<1>5. Promise!Tick
  BY <1>1, <1>4, SameKeepOnly DEF Promise!Tick, InForce
<1>6. QED
  BY <1>5 DEF Promise!Next

LEMMA RefuseBlockedIsPromised ==
  ASSUME AuthInv, NEW c \in Clients, RefuseBlocked(c)
  PROVE  Promise!Next
<1>1. PICK w \in ToSet(InForce) :
         /\ w.client = c /\ w.failures > MaxFailures
         /\ InForce' = Append(Without(InForce, c), w)
  BY AuthInvParts, RefuseBlockedView
<1>2. PICK i \in PlacesOf(InForce, c) : InForce[i] = w
  BY <1>1, AuthInvParts, PlaceOfWindow
<1>3. answer' = "rateLimited" /\ UNCHANGED clock
  BY DEF RefuseBlocked
<1>4. /\ Promise!Of(c) = PlacesOf(InForce, c)
      /\ Promise!OthersThan(c) = Without(InForce, c)
  BY PromiseTerms
<1>5. Promise!Blocked(c)
  BY <1>1, <1>2, <1>3, <1>4 DEF Promise!Blocked, InForce
<1>6. QED
  BY <1>3, <1>5 DEF Promise!Next, Promise!Request

LEMMA AuthorizedIsPromised ==
  ASSUME AuthInv, NEW c \in Clients, Authorized(c)
  PROVE  Promise!Next
<1>1. /\ \A w \in ToSet(InForce) : w.client = c => ~ (w.failures > MaxFailures)
      /\ InForce' = Without(InForce, c)
  BY AuthInvParts, AuthorizedView
<1>2. answer' = "ok" /\ UNCHANGED clock
  BY DEF Authorized
<1>3. ASSUME NEW i \in PlacesOf(InForce, c)
      PROVE  InForce[i].failures <= MaxFailures
  <2>1. InForce[i] \in ToSet(InForce) /\ InForce[i].client = c
    BY AuthInvParts, WindowInPlace
  <2>2. InForce[i] \in AuthFailureRecord
    BY <2>1, AuthInvParts, InForceElements
  <2>3. InForce[i].failures \in Nat /\ MaxFailures \in Nat
    BY <2>2, AuthLimiterAssumption DEF AuthFailureRecord
  <2>4. QED
    BY <1>1, <2>1, <2>3
<1>4. /\ Promise!Of(c) = PlacesOf(InForce, c)
      /\ Promise!OthersThan(c) = Without(InForce, c)
  BY PromiseTerms
<1>5. Promise!Succeed(c)
  BY <1>1, <1>2, <1>3, <1>4 DEF Promise!Succeed, InForce
<1>6. QED
  BY <1>2, <1>5 DEF Promise!Next, Promise!Request

LEMMA UnauthorizedIsPromised ==
  ASSUME AuthInv, NEW c \in Clients, Unauthorized(c)
  PROVE  Promise!Next
<1>1. UNCHANGED clock
  BY DEF Unauthorized
<1>2. /\ Promise!Of(c) = PlacesOf(InForce, c)
      /\ Promise!OthersThan(c) = Without(InForce, c)
      /\ Promise!WithRoom(InForce) = RoomyWindows
  BY PromiseTerms
<1>3. CASE /\ PlacesOf(InForce, c) = {}
           /\ InForce' = Append(RoomyWindows, FirstWindow(c))
           /\ answer' = IF MaxFailures = 0 THEN "rateLimited"
                                           ELSE "unauthorized"
  <2>1. Promise!FirstFailure(c)
    BY <1>2, <1>3 DEF Promise!FirstFailure, InForce, FirstWindow
  <2>2. QED
    BY <1>1, <2>1 DEF Promise!Next, Promise!Request
<1>4. CASE \E w \in ToSet(InForce) :
              /\ w.client = c /\ ~ (w.failures > MaxFailures)
              /\ InForce' = Append(Without(InForce, c), OneMoreFailure(w))
              /\ answer' = IF w.failures = MaxFailures
                           THEN "rateLimited" ELSE "unauthorized"
  <2>1. PICK w \in ToSet(InForce) :
              /\ w.client = c /\ ~ (w.failures > MaxFailures)
              /\ InForce' = Append(Without(InForce, c), OneMoreFailure(w))
              /\ answer' = IF w.failures = MaxFailures
                           THEN "rateLimited" ELSE "unauthorized"
    BY <1>4
  <2>2. PICK i \in PlacesOf(InForce, c) : InForce[i] = w
    BY <2>1, AuthInvParts, PlaceOfWindow
  <2>3. w \in AuthFailureRecord
    BY AuthInvParts, InForceElements
  <2>4. w.failures <= MaxFailures
    BY <2>1, <2>3, AuthLimiterAssumption DEF AuthFailureRecord
  <2>5. /\ InForce[i].failures <= MaxFailures
        /\ InForce' = Append(Promise!OthersThan(c),
                             [InForce[i] EXCEPT !.failures = @ + 1])
        /\ answer' = IF InForce[i].failures = MaxFailures
                     THEN "rateLimited" ELSE "unauthorized"
    BY <1>2, <2>1, <2>2, <2>4 DEF OneMoreFailure
  <2>6. i \in Promise!Of(c)
    BY <1>2
  <2>7. Promise!FurtherFailure(c)
    BY <2>5, <2>6 DEF Promise!FurtherFailure, InForce
  <2>8. QED
    BY <1>1, <2>7 DEF Promise!Next, Promise!Request
<1>5. QED
  BY <1>3, <1>4, UnauthorizedView, AuthInvParts

\* The limiter implements the abstract specification of what it promises: lazy
\* expiry, the cleanup every CleanupInterval operations and the eviction for
\* MaxTrackedClients are never seen in an answer, except as AuthPromise says.
THEOREM LimiterKeepsItsPromise == AuthSpec => KeepsThePromise
<1>1. AuthInit => Promise!Init
  BY AuthStarts DEF AuthInit, Promise!Init, InForce
<1>2. AuthInv /\ [AuthNext]_authVars
          => [Promise!Next]_<<clock, PruneExpired(limiter.records, clock), answer>>
  <2>1. SUFFICES ASSUME AuthInv, [AuthNext]_authVars
                 PROVE  \/ Promise!Next
                        \/ UNCHANGED <<clock, PruneExpired(limiter.records, clock),
                                       answer>>
    OBVIOUS
  <2>2. CASE AuthTick
    BY <2>1, <2>2, TickIsPromised
  <2>3. ASSUME NEW c \in Clients,
               RefuseBlocked(c) \/ Unauthorized(c) \/ Authorized(c)
        PROVE  Promise!Next
    BY <2>1, <2>3, RefuseBlockedIsPromised, UnauthorizedIsPromised,
       AuthorizedIsPromised
  <2>4. CASE UNCHANGED authVars
    BY <2>4 DEF authVars, PruneExpired, Expired
  <2>5. QED
    BY <2>1, <2>2, <2>3, <2>4 DEF AuthNext
<1>3. QED
  BY <1>1, <1>2, LimiterInvariant, PTL
     DEF AuthSpec, KeepsThePromise, Promise!Spec

-------------------------------------------------------------------------------
(***************************************************************************)
(* Part 4: SweepPlan.  The ranking: sorting by counting what is below.     *)
(* The plan: totals do not depend on the order of the axes, so the bounded *)
(* count of sweep-validation and the sorted walk of sweep-expansion agree. *)
(* The odometer: which value of which axis the walk has at which place.    *)
(***************************************************************************)

\* Induction up to n, for a set.
LEMMA UpTo ==
  ASSUME NEW n \in Nat, NEW B, 0 \in B,
         \A i \in 1 .. n : i - 1 \in B => i \in B
  PROVE  \A i \in 0 .. n : i \in B
<1> DEFINE Bad == {i \in 0 .. n : i \notin B}
<1>1. SUFFICES ASSUME Bad # {}
               PROVE  FALSE
  OBVIOUS
<1>2. Bad \in SUBSET Nat
  OBVIOUS
<1>3. PICK m \in Bad : \A k \in Bad : m <= k
  BY <1>1, <1>2, HasLeast
<1>4. m \in 1 .. n /\ m - 1 \in 0 .. n
  BY <1>3
<1>5. m - 1 \in B
  BY <1>3, <1>4
<1>6. QED
  BY <1>3, <1>4, <1>5

\* What a function of the numbers up to n has at i and at i - 1.
LEMMA Neighbours ==
  ASSUME NEW n \in Nat, NEW A, NEW f \in [0 .. n -> A]
  PROVE  f[n] \in A /\ \A i \in 1 .. n : i - 1 \in 0 .. n /\ f[i - 1] \in A /\ f[i] \in A
<1>1. n \in 0 .. n /\ \A i \in 1 .. n : i - 1 \in 0 .. n /\ i \in 0 .. n
  OBVIOUS
<1>2. QED
  BY <1>1

\* The elements of a sequence by their places.
LEMMA Elements ==
  ASSUME NEW T, NEW x \in Seq(T)
  PROVE  /\ \A i \in 1 .. Len(x) : x[i] \in T /\ x[i] \in ToSet(x)
         /\ \A e \in ToSet(x) : e \in T /\ \E i \in 1 .. Len(x) : x[i] = e
<1>1. DOMAIN x = 1 .. Len(x) /\ \A i \in 1 .. Len(x) : x[i] \in T
  OBVIOUS
<1>2. ToSet(x) = {x[i] : i \in 1 .. Len(x)}
  BY <1>1 DEF ToSet
<1>3. QED
  BY <1>1, <1>2

\* A recursion whose step is a function has a solution, of any length.
Solves(f, A, a, step, n) ==
    /\ f \in [0 .. n -> A]
    /\ f[0] = a
    /\ \A i \in 1 .. n : f[i] = step[<<i, f[i - 1]>>]

\* A function of the numbers up to n may be defined by recursion.
LEMMA Recursion ==
  ASSUME NEW n \in Nat, NEW A, NEW a \in A, NEW step \in [(1 .. n) \X A -> A]
  PROVE  \E f : Solves(f, A, a, step, n)
<1> DEFINE B == {m \in 0 .. n : \E f : Solves(f, A, a, step, m)}
<1>1. 0 \in B
  <2> DEFINE f == [i \in 0 .. 0 |-> a]
  <2>1. Solves(f, A, a, step, 0)
    BY DEF Solves
  <2> HIDE DEF f
  <2>2. QED
    BY <2>1
<1>2. ASSUME NEW m \in 1 .. n, m - 1 \in B
      PROVE  m \in B
  <2>1. PICK g : Solves(g, A, a, step, m - 1)
    BY <1>2
  <2> DEFINE last == step[<<m, g[m - 1]>>]
             f == [i \in 0 .. m |-> IF i = m THEN last ELSE g[i]]
  <2>2. g \in [0 .. m - 1 -> A] /\ g[m - 1] \in A
    BY <2>1 DEF Solves
  <2>3. last \in A
    BY <2>2
  <2>4. f \in [0 .. m -> A] /\ f[m] = last /\ \A i \in 0 .. m - 1 : f[i] = g[i]
    BY <2>2, <2>3
  <2>5. f[0] = a
    BY <2>1, <2>4 DEF Solves
  <2> HIDE DEF f, last
  <2>6. ASSUME NEW i \in 1 .. m
        PROVE  f[i] = step[<<i, f[i - 1]>>]
    <3>1. CASE i = m
      BY <2>4, <3>1 DEF last
    <3>2. CASE i # m
      <4>1. i \in 1 .. m - 1 /\ i - 1 \in 0 .. m - 1 /\ i \in 0 .. m - 1
        BY <3>2
      <4>2. g[i] = step[<<i, g[i - 1]>>]
        BY <2>1, <4>1 DEF Solves
      <4>3. QED
        BY <2>4, <4>1, <4>2
    <3>3. QED
      BY <3>1, <3>2
  <2>7. Solves(f, A, a, step, m)
    BY <2>4, <2>5, <2>6 DEF Solves
  <2>8. QED
    BY <2>7
<1> HIDE DEF B
<1>3. \A i \in 0 .. n : i \in B
  BY <1>1, <1>2, UpTo
<1>4. QED
  BY <1>3 DEF B

-------------------------------------------------------------------------------
(* Sorting. *)

\* R orders the elements of T strictly and totally.
Orders(R, T) ==
    /\ \A x \in T : <<x, x>> \notin R
    /\ \A x, y, z \in T : <<x, y>> \in R /\ <<y, z>> \in R => <<x, z>> \in R
    /\ \A x, y \in T : x = y \/ <<x, y>> \in R \/ <<y, x>> \in R

Below(x, R, T) == {y \in T : <<y, x>> \in R}

\* What is greater has more below it.
LEMMA BelowGrows ==
  ASSUME NEW T, NEW R, IsFiniteSet(T), Orders(R, T), NEW x \in T, NEW y \in T,
         <<x, y>> \in R
  PROVE  Cardinality(Below(x, R, T)) < Cardinality(Below(y, R, T))
<1> DEFINE X == Below(x, R, T)
           Y == Below(y, R, T)
<1>1. X \in SUBSET T /\ Y \in SUBSET T
  BY DEF Below
<1>2. X \in SUBSET Y /\ x \in Y /\ x \notin X
  BY DEF Below, Orders
<1> HIDE DEF X, Y
<1>3. IsFiniteSet(Y)
  BY <1>1, FS_Subset
<1>4. IsFiniteSet(X) /\ Cardinality(X) <= Cardinality(Y) /\ Cardinality(X) # Cardinality(Y)
  BY <1>2, <1>3, FS_Subset
<1>5. Cardinality(X) \in Nat /\ Cardinality(Y) \in Nat
  BY <1>3, <1>4, FS_CardinalityType
<1>6. QED
  BY <1>4, <1>5 DEF X, Y

\* What has been sorted.
Ascending(sorted, R, n, T) ==
    /\ sorted \in [1 .. n -> T]
    /\ \A i, j \in 1 .. n : i < j => <<sorted[i], sorted[j]>> \in R

\* A finite set can be sorted.
LEMMA Sortable ==
  ASSUME NEW T, NEW R, IsFiniteSet(T), Orders(R, T)
  PROVE  \E sorted : Ascending(sorted, R, Cardinality(T), T)
<1> DEFINE n == Cardinality(T)
           r == [x \in T |-> Cardinality(Below(x, R, T)) + 1]
<1>1. n \in Nat
  BY FS_CardinalityType
<1>2. ASSUME NEW x \in T
      PROVE  Cardinality(Below(x, R, T)) \in 0 .. n - 1
  <2>1. Below(x, R, T) \in SUBSET T /\ x \notin Below(x, R, T)
    BY DEF Below, Orders
  <2>2. /\ IsFiniteSet(Below(x, R, T)) /\ Cardinality(Below(x, R, T)) <= n
        /\ Cardinality(Below(x, R, T)) # n
    BY <2>1, FS_Subset
  <2>3. QED
    BY <1>1, <2>2, FS_CardinalityType
<1>3. r \in [T -> 1 .. n]
  BY <1>1, <1>2
<1>4. ASSUME NEW x \in T, NEW y \in T, <<x, y>> \in R
      PROVE  r[x] < r[y]
  BY <1>1, <1>2, <1>4, BelowGrows
<1> HIDE DEF r, n
<1>5. r \in Injection(T, 1 .. n)
  <2>1. ASSUME NEW x \in T, NEW y \in T, r[x] = r[y]
        PROVE  x = y
    <3>1. r[x] \in 1 .. n /\ r[y] \in 1 .. n
      BY <1>3
    <3>2. ~ (r[x] < r[y]) /\ ~ (r[y] < r[x])
      BY <1>1, <2>1, <3>1
    <3>3. <<x, y>> \notin R /\ <<y, x>> \notin R
      BY <1>4, <3>2
    <3>4. QED
      BY <3>3 DEF Orders
  <2>2. QED
    BY <1>3, <2>1 DEF Injection, IsInjective
<1>6. IsFiniteSet(1 .. n) /\ Cardinality(1 .. n) = n
  BY <1>1, FS_Interval
<1>7. r \in Surjection(T, 1 .. n)
  BY <1>5, <1>6, FS_Injection DEF n
<1> DEFINE sorted == [k \in 1 .. n |-> CHOOSE x \in T : r[x] = k]
<1>8. \A k \in 1 .. n : sorted[k] \in T /\ r[sorted[k]] = k
  BY <1>7 DEF Surjection
<1>9. sorted \in [1 .. n -> T]
  BY <1>8
<1> HIDE DEF sorted
<1>10. ASSUME NEW i \in 1 .. n, NEW j \in 1 .. n, i < j
       PROVE  <<sorted[i], sorted[j]>> \in R
  <2>1. /\ sorted[i] \in T /\ sorted[j] \in T
        /\ r[sorted[i]] = i /\ r[sorted[j]] = j
    BY <1>8
  <2>2. sorted[i] # sorted[j] /\ ~ (<<sorted[j], sorted[i]>> \in R)
    BY <1>1, <1>4, <1>10, <2>1
  <2>3. QED
    BY <2>1, <2>2 DEF Orders
<1>11. QED
  BY <1>9, <1>10 DEF Ascending, n

\* In a sorted sequence every element stands behind those below it.
LEMMA SortedRanks ==
  ASSUME NEW T, NEW R, IsFiniteSet(T), Orders(R, T), NEW sorted,
         Ascending(sorted, R, Cardinality(T), T)
  PROVE  /\ \A x \in T : \E k \in 1 .. Cardinality(T) : sorted[k] = x
         /\ \A i, j \in 1 .. Cardinality(T) : sorted[i] = sorted[j] => i = j
         /\ \A k \in 1 .. Cardinality(T) : Cardinality(Below(sorted[k], R, T)) = k - 1
<1> DEFINE n == Cardinality(T)
<1>1. n \in Nat /\ IsFiniteSet(1 .. n) /\ Cardinality(1 .. n) = n
  BY FS_CardinalityType, FS_Interval
<1> HIDE DEF n
<1>2. /\ sorted \in [1 .. n -> T]
      /\ \A i, j \in 1 .. n : i < j => <<sorted[i], sorted[j]>> \in R
  BY DEF Ascending, n
<1>3. \A i, j \in 1 .. n : sorted[i] = sorted[j] => i = j
  <2>1. ASSUME NEW i \in 1 .. n, NEW j \in 1 .. n, sorted[i] = sorted[j]
        PROVE  i = j
    <3>1. sorted[i] \in T /\ <<sorted[i], sorted[i]>> \notin R
      BY <1>2 DEF Orders
    <3>2. ~ (i < j) /\ ~ (j < i)
      BY <1>2, <2>1, <3>1
    <3>3. QED
      BY <1>1, <3>2
  <2>2. QED
    BY <2>1
<1>4. sorted \in Injection(1 .. n, T)
  BY <1>2, <1>3 DEF Injection, IsInjective
<1>5. sorted \in Surjection(1 .. n, T)
  BY <1>1, <1>4, FS_Injection DEF n
<1>6. \A x \in T : \E k \in 1 .. n : sorted[k] = x
  BY <1>5 DEF Surjection
<1>7. ASSUME NEW k \in 1 .. n
      PROVE  Cardinality(Below(sorted[k], R, T)) = k - 1
  <2> DEFINE B == Below(sorted[k], R, T)
             f == [i \in 1 .. k - 1 |-> sorted[i]]
  <2>1. \A i \in 1 .. n : sorted[i] \in B <=> i < k
    <3>1. ASSUME NEW i \in 1 .. n
          PROVE  sorted[i] \in B <=> i < k
      <4>1. sorted[i] \in T /\ sorted[k] \in T
        BY <1>2
      <4>2. i < k => <<sorted[i], sorted[k]>> \in R
        BY <1>2
      <4>3. k < i => <<sorted[k], sorted[i]>> \in R
        BY <1>2
      <4>4. k = i \/ k < i \/ i < k
        BY <1>1
      <4>5. QED
        BY <4>1, <4>2, <4>3, <4>4 DEF Below, Orders
    <3>2. QED
      BY <3>1
  <2>2. B \subseteq T
    BY DEF Below
  <2> HIDE DEF B
  <2>3. f \in [1 .. k - 1 -> B]
    BY <1>1, <2>1
  <2>4. f \in Injection(1 .. k - 1, B)
    BY <1>1, <1>3, <2>3 DEF Injection, IsInjective
  <2>5. \A x \in B : \E i \in 1 .. k - 1 : f[i] = x
    <3>1. ASSUME NEW x \in B
          PROVE  \E i \in 1 .. k - 1 : f[i] = x
      <4>1. PICK i \in 1 .. n : sorted[i] = x
        BY <1>6, <2>2
      <4>2. i < k /\ i \in 1 .. k - 1
        BY <1>1, <2>1, <4>1
      <4>3. QED
        BY <4>1, <4>2
    <3>2. QED
      BY <3>1
  <2>6. f \in Bijection(1 .. k - 1, B)
    BY <2>3, <2>4, <2>5 DEF Bijection, Surjection
  <2>7. IsFiniteSet(1 .. k - 1) /\ Cardinality(1 .. k - 1) = k - 1
    BY <1>1, FS_Interval
  <2>8. QED
    BY <2>6, <2>7, FS_Bijection DEF ExistsBijection, B
<1>8. QED
  BY <1>3, <1>6, <1>7 DEF n

\* A quotient of natural numbers is one.
LEMMA QuotientIsNat ==
  ASSUME NEW a \in Nat, NEW b \in Nat, b > 0
  PROVE  a \div b \in Nat
  OBVIOUS

-------------------------------------------------------------------------------
(* Totals: a number put together from the numbers of a sequence.  The        *)
(* operation is a function of pairs, so that sums and products share the     *)
(* lemmas.                                                                   *)

Operations ==
    {op \in [Nat \X Nat -> Nat] :
        \A a, b, c \in Nat : op[<<op[<<a, b>>], c>>] = op[<<op[<<a, c>>], b>>]}

\* p[i] is the total of r and the first i numbers of w.
Totals(p, op, r, w, n) ==
    /\ p \in [0 .. n -> Nat]
    /\ p[0] = r
    /\ \A i \in 1 .. n : p[i] = op[<<p[i - 1], w[i]>>]

\* Every sequence of numbers has its total.
LEMMA TotalsExist ==
  ASSUME NEW op \in Operations, NEW n \in Nat, NEW r \in Nat, NEW w \in [1 .. n -> Nat]
  PROVE  \E p : Totals(p, op, r, w, n)
<1> DEFINE step == [x \in (1 .. n) \X Nat |-> op[<<x[2], w[x[1]]>>]]
<1>1. op \in [Nat \X Nat -> Nat]
  BY DEF Operations
<1>2. \A i \in 1 .. n, a \in Nat : step[<<i, a>>] = op[<<a, w[i]>>]
  OBVIOUS
<1>3. step \in [(1 .. n) \X Nat -> Nat]
  BY <1>1
<1> HIDE DEF step
<1>4. PICK p : Solves(p, Nat, r, step, n)
  BY <1>3, Recursion
<1>5. \A i \in 1 .. n : p[i - 1] \in Nat
  BY <1>4 DEF Solves
<1>6. Totals(p, op, r, w, n)
  BY <1>2, <1>4, <1>5 DEF Solves, Totals
<1>7. QED
  BY <1>6

\* A total depends on the numbers alone.
SameUpTo(v, w, k) == \A i \in 1 .. k : v[i] = w[i]

\* The totals of two sequences agree as long as the sequences do.
LEMMA TotalsAgree ==
  ASSUME NEW op, NEW n \in Nat, NEW m \in Nat, NEW k \in Nat, k <= n, k <= m,
         NEW r, NEW v, NEW w, NEW p, NEW q,
         Totals(p, op, r, v, n), Totals(q, op, r, w, m), SameUpTo(v, w, k)
  PROVE  p[k] = q[k]
<1> DEFINE B == {i \in 0 .. k : p[i] = q[i]}
<1>1. 0 \in B
  BY DEF Totals
<1>2. ASSUME NEW i \in 1 .. k, i - 1 \in B
      PROVE  i \in B
  <2>1. i \in 1 .. n /\ i \in 1 .. m /\ p[i - 1] = q[i - 1]
    BY <1>2
  <2>2. p[i] = op[<<p[i - 1], v[i]>>] /\ q[i] = op[<<q[i - 1], w[i]>>]
    BY <2>1 DEF Totals
  <2>3. QED
    BY <2>1, <2>2 DEF SameUpTo
<1> HIDE DEF B
<1>3. \A i \in 0 .. k : i \in B
  BY <1>1, <1>2, UpTo
<1>4. QED
  BY <1>3 DEF B

\* v is w without its k-th number.
LeavesOut(v, w, k, n) ==
    /\ w \in [1 .. n -> Nat] /\ k \in 1 .. n /\ v \in [1 .. n - 1 -> Nat]
    /\ \A i \in 1 .. n - 1 : v[i] = IF i < k THEN w[i] ELSE w[i + 1]

\* Any of the numbers may come last.
LEMMA TakeOut ==
  ASSUME NEW op \in Operations, NEW n \in Nat, NEW r \in Nat,
         NEW w, NEW k, NEW v, LeavesOut(v, w, k, n),
         NEW p, NEW q, Totals(p, op, r, w, n), Totals(q, op, r, v, n - 1)
  PROVE  p[n] = op[<<q[n - 1], w[k]>>]
<1>0. w \in [1 .. n -> Nat] /\ k \in 1 .. n /\ v \in [1 .. n - 1 -> Nat]
  BY DEF LeavesOut
<1> DEFINE B == {i \in 0 .. n - k : p[k + i] = op[<<q[k + i - 1], w[k]>>]}
<1>1. n - k \in Nat /\ k - 1 \in Nat /\ n - 1 \in Nat
  BY <1>0
<1>2. 0 \in B
  <2>1. SameUpTo(w, v, k - 1)
    BY <1>0, <1>1 DEF LeavesOut, SameUpTo
  <2>2. k - 1 <= n /\ k - 1 <= n - 1
    BY <1>0, <1>1
  <2>3. p[k - 1] = q[k - 1]
    BY <1>0, <1>1, <2>1, <2>2, TotalsAgree
  <2>4. p[k] = op[<<p[k - 1], w[k]>>]
    BY <1>0 DEF Totals
  <2>5. QED
    BY <1>0, <1>1, <2>3, <2>4
<1>3. ASSUME NEW i \in 1 .. n - k, i - 1 \in B
      PROVE  i \in B
  <2> DEFINE m == k + i - 1
  <2>1. m \in Nat /\ m >= k /\ m \in 1 .. n - 1 /\ m + 1 \in 1 .. n
    BY <1>0, <1>1
  <2>2. p[m] = op[<<q[m - 1], w[k]>>]
    BY <1>0, <1>3
  <2>3. p[m + 1] = op[<<p[m], w[m + 1]>>]
    BY <1>0, <2>1 DEF Totals
  <2>4. q[m] = op[<<q[m - 1], w[m + 1]>>]
    BY <1>0, <2>1 DEF Totals, LeavesOut
  <2>5. q[m - 1] \in Nat /\ w[k] \in Nat /\ w[m + 1] \in Nat
    <3> HIDE DEF m
    <3>1. q \in [0 .. n - 1 -> Nat]
      BY DEF Totals
    <3>2. q[m - 1] \in Nat
      BY <1>1, <2>1, <3>1, Neighbours
    <3>3. w[k] \in Nat /\ w[m + 1] \in Nat
      BY <1>0, <2>1
    <3>4. QED
      BY <3>2, <3>3
  <2> HIDE DEF m
  <2>6. p[m + 1] = op[<<q[m], w[k]>>]
    BY <2>2, <2>3, <2>4, <2>5 DEF Operations
  <2>7. k + i = m + 1 /\ k + i - 1 = m
    BY <1>0 DEF m
  <2>8. p[k + i] = op[<<q[k + i - 1], w[k]>>]
    BY <2>6, <2>7
  <2>9. QED
    BY <1>0, <1>1, <2>8
<1> HIDE DEF B
<1>4. \A i \in 0 .. n - k : i \in B
  BY <1>0, <1>1, <1>2, <1>3, UpTo
<1>5. n - k \in B
  BY <1>0, <1>1, <1>4
<1>6. k + (n - k) = n /\ k + (n - k) - 1 = n - 1
  BY <1>0
<1>7. QED
  BY <1>5, <1>6 DEF B

\* f rearranges the places 1 .. n.
Rearranges(f, n) ==
    /\ f \in [1 .. n -> 1 .. n]
    /\ \A i, j \in 1 .. n : f[i] = f[j] => i = j
    /\ \A i \in 1 .. n : \E j \in 1 .. n : f[j] = i

Rearranged(op, r, n) ==
    \A w, v \in [1 .. n -> Nat] : \A f, p, q :
        /\ Rearranges(f, n) /\ \A i \in 1 .. n : v[i] = w[f[i]]
        /\ Totals(p, op, r, w, n) /\ Totals(q, op, r, v, n)
        => p[n] = q[n]

\* A total does not depend on the order of the numbers.
LEMMA OrderDoesNotMatter ==
  ASSUME NEW op \in Operations, NEW r \in Nat, NEW n \in Nat
  PROVE  Rearranged(op, r, n)
<1> DEFINE B == {m \in 0 .. n : Rearranged(op, r, m)}
<1>1. 0 \in B
  <2>1. Rearranged(op, r, 0)
    BY DEF Rearranged, Totals
  <2>2. QED
    BY <2>1
<1>2. ASSUME NEW m \in 1 .. n, m - 1 \in B
      PROVE  m \in B
  <2>1. m \in Nat /\ m - 1 \in Nat /\ Rearranged(op, r, m - 1)
    BY <1>2
  <2>2. SUFFICES ASSUME NEW w \in [1 .. m -> Nat], NEW v \in [1 .. m -> Nat],
                        NEW f, NEW p, NEW q,
                        Rearranges(f, m), \A i \in 1 .. m : v[i] = w[f[i]],
                        Totals(p, op, r, w, m), Totals(q, op, r, v, m)
                 PROVE  p[m] = q[m]
    BY DEF Rearranged
  <2>3. PICK k \in 1 .. m : f[k] = m
    BY <2>2 DEF Rearranges
  <2> DEFINE v1 == [i \in 1 .. m - 1 |-> IF i < k THEN v[i] ELSE v[i + 1]]
             w1 == [i \in 1 .. m - 1 |-> w[i]]
             f1 == [i \in 1 .. m - 1 |-> IF i < k THEN f[i] ELSE f[i + 1]]
             p1 == [i \in 0 .. m - 1 |-> p[i]]
  <2>4. v1 \in [1 .. m - 1 -> Nat] /\ w1 \in [1 .. m - 1 -> Nat]
    BY <2>1
  <2>5. \A i \in 1 .. m - 1 : f1[i] = IF i < k THEN f[i] ELSE f[i + 1]
    OBVIOUS
  <2>6. \A i \in 1 .. m - 1 : v1[i] = IF i < k THEN v[i] ELSE v[i + 1]
    OBVIOUS
  <2>7. PICK q1 : Totals(q1, op, r, v1, m - 1)
    BY <2>1, <2>4, TotalsExist
  <2>8. Totals(p1, op, r, w1, m - 1)
    <3>1. /\ p \in [0 .. m -> Nat] /\ p[0] = r
          /\ \A i \in 1 .. m : p[i] = op[<<p[i - 1], w[i]>>]
      BY <2>2 DEF Totals
    <3>2. \A i \in 0 .. m - 1 : i \in 0 .. m
      BY <2>1
    <3>3. \A i \in 0 .. m - 1 : p1[i] = p[i] /\ p1[i] \in Nat
      BY <3>1, <3>2
    <3>4. p1 \in [0 .. m - 1 -> Nat] /\ 0 \in 0 .. m - 1
      BY <2>1, <3>3
    <3>5. \A i \in 1 .. m - 1 : w1[i] = w[i] /\ i \in 1 .. m /\ i \in 0 .. m - 1
                               /\ i - 1 \in 0 .. m - 1
      BY <2>1
    <3> HIDE DEF p1, w1
    <3>6. \A i \in 1 .. m - 1 : p1[i] = op[<<p1[i - 1], w1[i]>>]
      BY <3>1, <3>3, <3>5
    <3>7. QED
      BY <3>1, <3>3, <3>4, <3>6 DEF Totals
  <2>9. Rearranges(f1, m - 1)
    <3>1. \A i \in 1 .. m : f[i] \in 1 .. m /\ (f[i] = m => i = k)
      BY <2>2, <2>3 DEF Rearranges
    <3>2. \A i \in 1 .. m - 1 : f1[i] \in 1 .. m - 1
      <4>1. \A i \in 1 .. m : i # k => f[i] \in 1 .. m - 1
        BY <2>1, <3>1
      <4>2. \A i \in 1 .. m - 1 : /\ i < k => i \in 1 .. m /\ i # k
                                  /\ ~ (i < k) => i + 1 \in 1 .. m /\ i + 1 # k
        BY <2>1
      <4> HIDE DEF f1
      <4>3. QED
        BY <2>5, <4>1, <4>2
    <3>3. f1 \in [1 .. m - 1 -> 1 .. m - 1]
      BY <3>2
    <3> HIDE DEF f1
    <3>4. ASSUME NEW i \in 1 .. m - 1, NEW j \in 1 .. m - 1, f1[i] = f1[j]
          PROVE  i = j
      <4>1. \A x, y \in 1 .. m : f[x] = f[y] => x = y
        BY <2>2 DEF Rearranges
      <4> DEFINE x == IF i < k THEN i ELSE i + 1
                 y == IF j < k THEN j ELSE j + 1
      <4>2. x \in 1 .. m /\ y \in 1 .. m
        BY <2>1
      <4>3. f1[i] = f[x] /\ f1[j] = f[y]
        BY <2>5
      <4>4. x = y
        BY <3>4, <4>1, <4>2, <4>3
      <4>5. QED
        BY <2>1, <4>4
    <3>5. ASSUME NEW i \in 1 .. m - 1
          PROVE  \E j \in 1 .. m - 1 : f1[j] = i
      <4>1. i \in 1 .. m /\ i # m
        BY <2>1
      <4>2. PICK x \in 1 .. m : f[x] = i
        BY <2>2, <4>1 DEF Rearranges
      <4>3. x # k
        BY <2>3, <4>1, <4>2
      <4>4. CASE x < k
        <5>1. x \in 1 .. m - 1 /\ f1[x] = i
          BY <2>1, <2>5, <4>2, <4>4
        <5>2. QED
          BY <5>1
      <4>5. CASE x > k
        <5>1. x - 1 \in 1 .. m - 1 /\ ~ (x - 1 < k) /\ (x - 1) + 1 = x
          BY <2>1, <4>5
        <5>2. f1[x - 1] = i
          BY <2>5, <4>2, <5>1
        <5>3. QED
          BY <5>1, <5>2
      <4>6. QED
        BY <2>1, <4>3, <4>4, <4>5
    <3>6. QED
      BY <3>3, <3>4, <3>5 DEF Rearranges
  <2>10. \A i \in 1 .. m - 1 : v1[i] = w1[f1[i]]
    <3>1. ASSUME NEW i \in 1 .. m - 1
          PROVE  v1[i] = w1[f1[i]]
      <4>1. f1[i] \in 1 .. m - 1
        BY <2>9 DEF Rearranges
      <4> HIDE DEF f1, v1
      <4>2. w1[f1[i]] = w[f1[i]]
        BY <4>1
      <4>3. i \in 1 .. m /\ i + 1 \in 1 .. m
        BY <2>1
      <4>4. QED
        BY <2>2, <2>5, <2>6, <4>2, <4>3
    <3>2. QED
      BY <3>1
  <2> HIDE DEF v1, w1, f1, p1
  <2>11. p1[m - 1] = q1[m - 1]
    <3>1. \A f0, p0, q0 :
             /\ Rearranges(f0, m - 1) /\ \A i \in 1 .. m - 1 : v1[i] = w1[f0[i]]
             /\ Totals(p0, op, r, w1, m - 1) /\ Totals(q0, op, r, v1, m - 1)
             => p0[m - 1] = q0[m - 1]
      BY <2>1, <2>4, Zenon DEF Rearranged
    <3>2. QED
      BY <2>7, <2>8, <2>9, <2>10, <3>1, Zenon
  <2>12. q[m] = op[<<q1[m - 1], v[k]>>]
    <3>1. LeavesOut(v1, v, k, m)
      BY <2>4, <2>6 DEF LeavesOut
    <3>2. Totals(q, op, r, v, m)
      BY <2>2
    <3>3. QED
      BY <2>1, <2>7, <3>1, <3>2, TakeOut
  <2>13. p[m] = op[<<p[m - 1], w[m]>>] /\ p[m - 1] = p1[m - 1]
    BY <2>1, <2>2 DEF Totals, p1
  <2>14. v[k] = w[m]
    BY <2>2, <2>3
  <2>15. QED
    BY <2>11, <2>12, <2>13, <2>14
<1> HIDE DEF B
<1>3. \A i \in 0 .. n : i \in B
  BY <1>1, <1>2, UpTo
<1>4. QED
  BY <1>3 DEF B

-------------------------------------------------------------------------------
(* Arithmetic. *)

\* Division with rest.
LEMMA Division ==
  ASSUME NEW a \in Nat, NEW b \in Nat, b > 0
  PROVE  a \div b \in Nat /\ a % b \in 0 .. b - 1 /\ a = (a \div b) * b + (a % b)
  OBVIOUS

\* Quotient and rest are unique.
LEMMA OneQuotient ==
  ASSUME NEW b \in Nat, NEW q \in Nat, NEW r \in 0 .. b - 1
  PROVE  (q * b + r) \div b = q /\ (q * b + r) % b = r
<1> DEFINE a == q * b + r
           q2 == a \div b
           r2 == a % b
<1>1. a \in Nat /\ b > 0 /\ r \in Nat /\ r < b
  OBVIOUS
<1>2. q2 \in Nat /\ r2 \in Nat /\ r2 < b /\ a = q2 * b + r2
  BY <1>1, Division
<1>3. \A x, y, u, v \in Nat : x < b /\ y < b /\ u * b + x = v * b + y => u = v /\ x = y
  BY <1>1
<1>4. a = q * b + r
  OBVIOUS
<1> HIDE DEF q2, r2, a
<1>5. q2 = q /\ r2 = r
  BY <1>1, <1>2, <1>3, <1>4
<1>6. QED
  BY <1>5 DEF q2, r2, a

\* Products of natural numbers commute and associate.
LEMMA Products ==
  /\ \A a, b \in Nat : a * b \in Nat /\ a * b = b * a
  /\ \A a, b, c \in Nat : (a * b) * c = (a * c) * b /\ (a * b) * c = a * (b * c)
  OBVIOUS

\* Dividing twice is dividing by the product.
LEMMA QuotientOfQuotient ==
  ASSUME NEW a \in Nat, NEW b \in Nat, NEW c \in Nat, b > 0, c > 0
  PROVE  (a \div b) \div c = a \div (c * b) /\ c * b \in Nat /\ c * b > 0
<1> DEFINE q == a \div b
           r == a % b
           q2 == q \div c
           r2 == q % c
           s == r2 * b + r
<1>1. q \in Nat /\ r \in 0 .. b - 1 /\ a = q * b + r
  BY Division
<1>2. q2 \in Nat /\ r2 \in 0 .. c - 1 /\ q = q2 * c + r2
  BY <1>1, Division
<1> HIDE DEF q, r, q2, r2
<1>3. (q2 * c + r2) * b = (q2 * c) * b + r2 * b /\ (q2 * c) * b = q2 * (c * b)
  BY <1>2
<1>4. a = q2 * (c * b) + s
  BY <1>1, <1>2, <1>3
<1>5. r2 * b <= (c - 1) * b /\ r2 * b \in Nat /\ (c - 1) * b = c * b - b
  BY <1>2
<1>6. s \in 0 .. c * b - 1 /\ c * b \in Nat /\ c * b > 0
  BY <1>1, <1>5
<1> HIDE DEF s
<1>7. (q2 * (c * b) + s) \div (c * b) = q2
  BY <1>2, <1>6, OneQuotient
<1>8. QED
  BY <1>4, <1>6, <1>7 DEF q2, q

DividesTwice(a, b, c) == (a \div b) \div c = a \div (b * c)

\* The same with the factors the other way round.
LEMMA DividingTwice ==
  ASSUME NEW a \in Nat, NEW b \in Nat, NEW c \in Nat, b > 0, c > 0
  PROVE  DividesTwice(a, b, c)
<1>1. (a \div b) \div c = a \div (c * b)
  BY QuotientOfQuotient
<1>2. c * b = b * c
  BY Products
<1>3. QED
  BY <1>1, <1>2 DEF DividesTwice

-------------------------------------------------------------------------------
(* Sums and products. *)

SumOp == [x \in Nat \X Nat |-> x[1] + x[2]]
TimesOp == [x \in Nat \X Nat |-> x[1] * x[2]]

\* Addition and multiplication qualify as operations of totals.
LEMMA TheOperations ==
  /\ SumOp \in Operations /\ TimesOp \in Operations
  /\ \A a, b \in Nat : SumOp[<<a, b>>] = a + b /\ TimesOp[<<a, b>>] = a * b
<1>1. \A a, b \in Nat : SumOp[<<a, b>>] = a + b /\ TimesOp[<<a, b>>] = a * b
  BY DEF SumOp, TimesOp
<1>2. SumOp \in [Nat \X Nat -> Nat] /\ TimesOp \in [Nat \X Nat -> Nat]
  BY Products DEF SumOp, TimesOp
<1>3. SumOp \in Operations
  <2>1. \A a, b, c \in Nat : SumOp[<<SumOp[<<a, b>>], c>>] = SumOp[<<SumOp[<<a, c>>], b>>]
    BY <1>1
  <2>2. QED
    BY <1>2, <2>1 DEF Operations
<1>4. TimesOp \in Operations
  <2>1. \A a, b, c \in Nat : TimesOp[<<TimesOp[<<a, b>>], c>>] = TimesOp[<<TimesOp[<<a, c>>], b>>]
    BY <1>1, Products
  <2>2. QED
    BY <1>2, <2>1 DEF Operations
<1>5. QED
  BY <1>1, <1>3, <1>4

\* Times is the total of TimesOp.
TimesFunction(f, w, r) ==
    f = [i \in 0 .. Len(w) |-> IF i = 0 THEN r ELSE f[i - 1] * w[i]]

\* Times is the total of the multiplication.
LEMMA TimesIsTotal ==
  ASSUME NEW w \in Seq(Nat), NEW r \in Nat, NEW p, Totals(p, TimesOp, r, w, Len(w))
  PROVE  Times(w, r) = p[Len(w)] /\ Times(w, r) \in Nat
<1> DEFINE n == Len(w)
           f == CHOOSE g : TimesFunction(g, w, r)
<1>1. n \in Nat /\ w \in [1 .. n -> Nat]
  OBVIOUS
<1>2. ASSUME NEW i \in 1 .. n
      PROVE  p[i] = p[i - 1] * w[i]
  <2>1. p[i - 1] \in Nat /\ w[i] \in Nat /\ p[i] = TimesOp[<<p[i - 1], w[i]>>]
    <3> HIDE DEF n
    <3>1. p \in [0 .. n -> Nat] /\ p[i] = TimesOp[<<p[i - 1], w[i]>>]
      BY DEF Totals, n
    <3>2. QED
      BY <1>1, <3>1, Neighbours
  <2>2. QED
    BY <2>1, TheOperations
<1>3. TimesFunction(p, w, r)
  <2>1. p = [i \in 0 .. n |-> p[i]]
    BY DEF Totals
  <2>2. \A i \in 0 .. n : p[i] = IF i = 0 THEN r ELSE p[i - 1] * w[i]
    BY <1>2 DEF Totals
  <2>3. QED
    BY <2>1, <2>2 DEF TimesFunction
<1>4. TimesFunction(f, w, r)
  BY <1>3
<1>5. Times(w, r) = f[n]
  BY DEF Times, TimesFunction
<1> HIDE DEF f
<1> DEFINE B == {i \in 0 .. n : f[i] = p[i]}
<1>6. \A i \in 0 .. n : f[i] = IF i = 0 THEN r ELSE f[i - 1] * w[i]
  BY <1>4 DEF TimesFunction
<1>7. 0 \in B
  BY <1>1, <1>6 DEF Totals
<1>8. ASSUME NEW i \in 1 .. n, i - 1 \in B
      PROVE  i \in B
  BY <1>1, <1>2, <1>6, <1>8
<1> HIDE DEF B
<1>9. \A i \in 0 .. n : i \in B
  BY <1>1, <1>7, <1>8, UpTo
<1>10. f[n] = p[n] /\ p[n] \in Nat
  BY <1>1, <1>9 DEF B, Totals
<1>11. QED
  BY <1>5, <1>10

\* So a product of positive numbers is positive, and is what the bounded count
\* finds unless it is over the bound.
CountFunction(f, w, r, max) ==
    f = [i \in 0 .. Len(w) |->
            IF i = 0
            THEN IF r > max THEN max + 1 ELSE r
            ELSE IF f[i - 1] > max \/ w[i] > max \div f[i - 1]
                 THEN max + 1
                 ELSE f[i - 1] * w[i]]

Bounded(x, max) == IF x > max THEN max + 1 ELSE x

\* One step of the bounded count is the multiplication of the true count: the
\* test before it, against the quotient of the limit, is exact.
LEMMA BoundedStep ==
  ASSUME NEW max \in Nat, NEW x \in Nat, NEW l \in Nat, x > 0, l > 0
  PROVE  /\ Bounded(x * l, max) = IF Bounded(x, max) > max \/ l > max \div Bounded(x, max)
                                  THEN max + 1 ELSE Bounded(x, max) * l
         /\ x * l \in Nat /\ x * l > 0
<1>1. x * l \in Nat /\ x * l > 0 /\ x * l >= x
  OBVIOUS
<1>2. CASE x > max
  <2>1. Bounded(x, max) = max + 1 /\ x * l > max /\ max + 1 > max
    BY <1>1, <1>2 DEF Bounded
  <2>2. Bounded(x * l, max) = max + 1
    BY <2>1 DEF Bounded
  <2>3. QED
    BY <1>1, <2>1, <2>2
<1>3. CASE ~ (x > max)
  <2>1. Bounded(x, max) = x
    BY <1>3 DEF Bounded
  <2>2. l > max \div x <=> x * l > max
    OBVIOUS
  <2>3. QED
    BY <1>1, <1>3, <2>1, <2>2 DEF Bounded
<1>4. QED
  BY <1>2, <1>3

\* computePlannedCases counts truly up to max and answers max + 1 beyond it,
\* whichever axis the count passes max on.
LEMMA CountIsBounded ==
  ASSUME NEW w \in Seq(Nat \ {0}), NEW r \in Nat \ {0}, NEW max \in Nat
  PROVE  /\ ComputePlannedCases(w, r, max) = Bounded(Times(w, r), max)
         /\ Times(w, r) \in Nat \ {0}
<1> DEFINE n == Len(w)
           f == CHOOSE g : CountFunction(g, w, r, max)
<1>1. n \in Nat /\ w \in [1 .. n -> Nat] /\ w \in Seq(Nat) /\ \A i \in 1 .. n : w[i] \in Nat /\ w[i] > 0
  OBVIOUS
<1>0. n = Len(w)
  OBVIOUS
<1> HIDE DEF n, f
<1>2. PICK p : Totals(p, TimesOp, r, w, n)
  BY <1>1, TheOperations, TotalsExist
<1>3. ASSUME NEW i \in 1 .. n
      PROVE  p[i] = p[i - 1] * w[i]
  <2>1. p[i - 1] \in Nat /\ w[i] \in Nat /\ p[i] = TimesOp[<<p[i - 1], w[i]>>]
    BY <1>1, <1>2 DEF Totals
  <2>2. QED
    BY <2>1, TheOperations
<1>4. p \in [0 .. n -> Nat] /\ p[0] = r
  BY <1>2 DEF Totals
<1> DEFINE C == {i \in 0 .. n : p[i] > 0}
<1>5. \A i \in 0 .. n : p[i] > 0
  <2>1. 0 \in C
    BY <1>1, <1>4
  <2>2. ASSUME NEW i \in 1 .. n, i - 1 \in C
        PROVE  i \in C
    <3>1. p[i - 1] \in Nat /\ p[i - 1] > 0 /\ w[i] \in Nat /\ w[i] > 0
      BY <1>1, <1>4, <2>2
    <3>2. p[i - 1] * w[i] > 0
      BY <3>1, BoundedStep
    <3>3. p[i] > 0
      BY <1>3, <3>2
    <3>4. QED
      BY <3>3
  <2> HIDE DEF C
  <2>3. \A i \in 0 .. n : i \in C
    BY <1>1, <2>1, <2>2, UpTo
  <2>4. QED
    BY <2>3 DEF C
<1> DEFINE b == [i \in 0 .. n |-> Bounded(p[i], max)]
<1>6. CountFunction(b, w, r, max)
  <2>0. n = Len(w)
    BY <1>0
  <2>1. \A i \in 0 .. n : b[i] = Bounded(p[i], max)
    OBVIOUS
  <2>2. b = [i \in 0 .. n |-> b[i]]
    OBVIOUS
  <2> HIDE DEF b
  <2>3. ASSUME NEW i \in 1 .. n
        PROVE  b[i] = IF b[i - 1] > max \/ w[i] > max \div b[i - 1]
                      THEN max + 1 ELSE b[i - 1] * w[i]
    <3>1. /\ i - 1 \in 0 .. n /\ p[i - 1] \in Nat /\ p[i - 1] > 0
          /\ w[i] \in Nat /\ w[i] > 0
      BY <1>1, <1>4, <1>5
    <3>2. b[i - 1] = Bounded(p[i - 1], max) /\ b[i] = Bounded(p[i - 1] * w[i], max)
      BY <1>3, <2>1, <3>1
    <3> DEFINE x == p[i - 1]
               l == w[i]
    <3> HIDE DEF x, l
    <3>3. Bounded(x * l, max) = IF Bounded(x, max) > max \/ l > max \div Bounded(x, max)
                                THEN max + 1 ELSE Bounded(x, max) * l
      BY <3>1, BoundedStep DEF x, l
    <3>4. QED
      BY <3>2, <3>3 DEF x, l
  <2>4. b[0] = IF r > max THEN max + 1 ELSE r
    BY <1>1, <1>4, <2>1 DEF Bounded
  <2>5. \A i \in 0 .. n : b[i] =
            IF i = 0
            THEN IF r > max THEN max + 1 ELSE r
            ELSE IF b[i - 1] > max \/ w[i] > max \div b[i - 1]
                 THEN max + 1
                 ELSE b[i - 1] * w[i]
    BY <1>1, <2>3, <2>4
  <2>6. QED
    BY <2>0, <2>2, <2>5 DEF CountFunction
<1>7. CountFunction(f, w, r, max)
  BY <1>6 DEF f
<1>8. ComputePlannedCases(w, r, max) = f[n]
  BY <1>0 DEF ComputePlannedCases, CountFunction, f
<1> HIDE DEF b
<1> DEFINE B == {i \in 0 .. n : f[i] = b[i]}
<1>9. 0 \in B
  BY <1>0, <1>1, <1>6, <1>7 DEF CountFunction
<1>10. ASSUME NEW i \in 1 .. n, i - 1 \in B
       PROVE  i \in B
  <2>1. i \in 0 .. n /\ i # 0 /\ f[i - 1] = b[i - 1]
    BY <1>10
  <2>2. f[i] = IF f[i - 1] > max \/ w[i] > max \div f[i - 1] THEN max + 1 ELSE f[i - 1] * w[i]
    BY <1>0, <1>7, <2>1 DEF CountFunction
  <2>3. b[i] = IF b[i - 1] > max \/ w[i] > max \div b[i - 1] THEN max + 1 ELSE b[i - 1] * w[i]
    BY <1>0, <1>6, <2>1 DEF CountFunction
  <2>4. QED
    BY <2>1, <2>2, <2>3
<1> HIDE DEF B
<1>11. \A i \in 0 .. n : i \in B
  BY <1>1, <1>9, <1>10, UpTo
<1>12. f[n] = b[n]
  BY <1>1, <1>11 DEF B
<1>13. b[n] = Bounded(p[n], max) /\ p[n] \in Nat /\ p[n] > 0
  BY <1>1, <1>4, <1>5 DEF b
<1>14. Times(w, r) = p[n]
  BY <1>0, <1>1, <1>2, TimesIsTotal
<1>15. QED
  BY <1>8, <1>12, <1>13, <1>14

-------------------------------------------------------------------------------
(* FlattenSeq. *)

\* f[i] is the concatenation of the first i sequences of ss.
Flattens(f, ss, T, n) ==
    /\ f \in [0 .. n -> Seq(T)]
    /\ f[0] = <<>>
    /\ \A i \in 1 .. n : f[i] = f[i - 1] \o ss[i]

\* How f[i] comes from f[i - 1].
Joined(f, ss, i) ==
    /\ Len(f[i]) = Len(f[i - 1]) + Len(ss[i])
    /\ Len(f[i - 1]) \in Nat /\ Len(ss[i]) \in Nat
    /\ \A l \in 1 .. Len(f[i - 1]) : f[i][l] = f[i - 1][l]
    /\ \A l \in 1 .. Len(ss[i]) : f[i][Len(f[i - 1]) + l] = ss[i][l]

\* The flattening of the first i sequences: that of i - 1 and the i-th.
LEMMA FlattenStep ==
  ASSUME NEW T, NEW n \in Nat, NEW ss \in [1 .. n -> Seq(T)], NEW f,
         Flattens(f, ss, T, n), NEW i \in 1 .. n
  PROVE  Joined(f, ss, i)
<1>1. f[i - 1] \in Seq(T) /\ f[i] \in Seq(T)
  BY Neighbours DEF Flattens
<1>2. f[i] = f[i - 1] \o ss[i]
  BY DEF Flattens
<1> DEFINE x == f[i - 1]
           y == ss[i]
<1>3. x \in Seq(T) /\ y \in Seq(T) /\ f[i] = x \o y
  BY <1>1, <1>2
<1> HIDE DEF x, y
<1>4. /\ Len(x \o y) = Len(x) + Len(y) /\ Len(x) \in Nat /\ Len(y) \in Nat
      /\ \A l \in 1 .. Len(x) + Len(y) :
            (x \o y)[l] = IF l <= Len(x) THEN x[l] ELSE y[l - Len(x)]
  BY <1>3, ConcatProperties
<1>5. ASSUME NEW l \in 1 .. Len(x)
      PROVE  (x \o y)[l] = x[l]
  BY <1>4
<1>6. ASSUME NEW l \in 1 .. Len(y)
      PROVE  (x \o y)[Len(x) + l] = y[l]
  <2>1. /\ Len(x) + l \in 1 .. Len(x) + Len(y) /\ ~ (Len(x) + l <= Len(x))
        /\ (Len(x) + l) - Len(x) = l
    BY <1>4
  <2>2. QED
    BY <1>4, <2>1
<1>7. QED
  BY <1>3, <1>4, <1>5, <1>6 DEF x, y, Joined

FlattenFunction(f, ss) ==
    f = [i \in 1 .. Len(ss) |-> IF i = 1 THEN ss[i] ELSE f[i - 1] \o ss[i]]

\* FlattenSeq is such a flattening, step by step.
LEMMA FlattenSteps ==
  ASSUME NEW T, NEW ss \in Seq(Seq(T))
  PROVE  \E f : Flattens(f, ss, T, Len(ss)) /\ FlattenSeq(ss) = f[Len(ss)]
<1> DEFINE n == Len(ss)
           step == [x \in (1 .. n) \X Seq(T) |-> x[2] \o ss[x[1]]]
<1>1. n \in Nat /\ ss \in [1 .. n -> Seq(T)]
  OBVIOUS
<1>0. n = Len(ss)
  OBVIOUS
<1> HIDE DEF n
<1>2. \A i \in 1 .. n, a \in Seq(T) : step[<<i, a>>] = a \o ss[i]
  OBVIOUS
<1>3. step \in [(1 .. n) \X Seq(T) -> Seq(T)]
  BY <1>1
<1>4. <<>> \in Seq(T)
  OBVIOUS
<1> HIDE DEF step
<1>5. PICK f : Solves(f, Seq(T), <<>>, step, n)
  BY <1>1, <1>3, <1>4, Recursion
<1>6. Flattens(f, ss, T, n)
  <2>1. /\ f \in [0 .. n -> Seq(T)] /\ f[0] = <<>>
        /\ \A i \in 1 .. n : f[i] = step[<<i, f[i - 1]>>]
    BY <1>5 DEF Solves
  <2>2. \A i \in 1 .. n : f[i - 1] \in Seq(T)
    BY <1>1, <2>1
  <2>3. QED
    BY <1>2, <2>1, <2>2 DEF Flattens
<1>7. CASE n = 0
  <2>1. ss = <<>>
    BY <1>0, <1>7, EmptySeq
  <2>3. FlattenSeq(ss) = ss
    BY <1>0, <1>7 DEF FlattenSeq
  <2>2. QED
    BY <1>0, <1>6, <1>7, <2>1, <2>3 DEF Flattens
<1>8. CASE n # 0
  <2> DEFINE g == CHOOSE h : FlattenFunction(h, ss)
             f1 == [i \in 1 .. n |-> f[i]]
  <2>1. \A i \in 1 .. n : f[i] = IF i = 1 THEN ss[i] ELSE f[i - 1] \o ss[i]
    <3>0. 1 \in 1 .. n /\ 1 - 1 = 0
      BY <1>1, <1>8
    <3>1. f[1] = f[0] \o ss[1] /\ f[0] = <<>> /\ ss[1] \in Seq(T)
      <4>1. ss[1] \in Seq(T)
        BY <1>1, <3>0
      <4>2. f[1] = f[0] \o ss[1] /\ f[0] = <<>>
        BY <1>6, <3>0 DEF Flattens
      <4>3. QED
        BY <4>1, <4>2
    <3>2. f[1] = ss[1]
      BY <3>1
    <3>3. QED
      BY <1>6, <3>2 DEF Flattens
  <2>2. FlattenFunction(f1, ss)
    <3>1. \A i \in 1 .. n : f1[i] = f[i]
      OBVIOUS
    <3>2. f1 = [i \in 1 .. n |-> f1[i]]
      OBVIOUS
    <3> HIDE DEF f1
    <3>3. \A i \in 1 .. n : f1[i] = IF i = 1 THEN ss[i] ELSE f1[i - 1] \o ss[i]
      <4>1. ASSUME NEW i \in 1 .. n, i # 1
            PROVE  f1[i - 1] = f[i - 1]
        BY <1>1, <3>1, <4>1
      <4>2. QED
        BY <2>1, <3>1, <4>1
    <3>4. QED
      BY <1>0, <3>2, <3>3 DEF FlattenFunction
  <2>3. FlattenFunction(g, ss)
    BY <2>2
  <2>4. FlattenSeq(ss) = g[n]
    BY <1>0, <1>8 DEF FlattenSeq, FlattenFunction
  <2> HIDE DEF g, f1
  <2> DEFINE B == {i \in 0 .. n : i = 0 \/ g[i] = f[i]}
  <2>5. \A i \in 1 .. n : g[i] = IF i = 1 THEN ss[i] ELSE g[i - 1] \o ss[i]
    BY <1>0, <2>3 DEF FlattenFunction
  <2>6. 0 \in B
    BY <1>1
  <2>7. ASSUME NEW i \in 1 .. n, i - 1 \in B
        PROVE  i \in B
    BY <1>1, <2>1, <2>5, <2>7
  <2> HIDE DEF B
  <2>8. \A i \in 0 .. n : i \in B
    BY <1>1, <2>6, <2>7, UpTo
  <2>9. g[n] = f[n]
    BY <1>1, <1>8, <2>8 DEF B
  <2>10. QED
    BY <1>0, <1>6, <2>4, <2>9
<1>9. QED
  BY <1>7, <1>8

\* The length of a concatenation is the sum of the lengths.
LEMMA FlattenLength ==
  ASSUME NEW T, NEW ss \in Seq(Seq(T)), NEW w, NEW p,
         Totals(p, SumOp, 0, w, Len(ss)), \A i \in 1 .. Len(ss) : w[i] = Len(ss[i])
  PROVE  FlattenSeq(ss) \in Seq(T) /\ Len(FlattenSeq(ss)) = p[Len(ss)]
<1> DEFINE n == Len(ss)
<1>1. n \in Nat /\ ss \in [1 .. n -> Seq(T)]
  OBVIOUS
<1>0. n = Len(ss)
  OBVIOUS
<1> HIDE DEF n
<1>2. PICK f : Flattens(f, ss, T, n) /\ FlattenSeq(ss) = f[n]
  BY <1>0, FlattenSteps
<1>3. /\ f \in [0 .. n -> Seq(T)] /\ f[0] = <<>>
      /\ \A i \in 1 .. n : f[i] = f[i - 1] \o ss[i]
  BY <1>2 DEF Flattens
<1> DEFINE C == {i \in 0 .. n : Len(f[i]) = p[i]}
<1>4. p[0] = 0 /\ p \in [0 .. n -> Nat] /\ \A i \in 1 .. n : p[i] = SumOp[<<p[i - 1], w[i]>>]
  BY <1>0 DEF Totals
<1>5. 0 \in C
  BY <1>1, <1>3, <1>4
<1>6. ASSUME NEW i \in 1 .. n, i - 1 \in C
      PROVE  i \in C
  <2>1. Len(f[i]) = Len(f[i - 1]) + Len(ss[i]) /\ Len(ss[i]) \in Nat
    <3>1. Flattens(f, ss, T, n)
      BY <1>2
    <3>2. Joined(f, ss, i)
      BY <1>1, <3>1, FlattenStep
    <3>3. QED
      BY <3>2 DEF Joined
  <2>2. p[i - 1] \in Nat /\ p[i] = SumOp[<<p[i - 1], Len(ss[i])>>]
    BY <1>0, <1>1, <1>4, Neighbours
  <2>3. p[i] = p[i - 1] + Len(ss[i])
    BY <2>1, <2>2, TheOperations
  <2>4. Len(f[i - 1]) = p[i - 1]
    BY <1>6
  <2>5. Len(f[i]) = p[i] /\ i \in 0 .. n
    BY <2>1, <2>3, <2>4
  <2>6. QED
    BY <2>5
<1> HIDE DEF C
<1>7. \A i \in 0 .. n : i \in C
  BY <1>1, <1>5, <1>6, UpTo
<1>8. QED
  BY <1>0, <1>1, <1>2, <1>3, <1>7 DEF C

\* A concatenation of sequences of one length.
LEMMA FlattenEqual ==
  ASSUME NEW T, NEW ss \in Seq(Seq(T)), NEW L \in Nat,
         \A i \in 1 .. Len(ss) : Len(ss[i]) = L
  PROVE  /\ FlattenSeq(ss) \in Seq(T)
         /\ Len(FlattenSeq(ss)) = Len(ss) * L
         /\ \A i \in 1 .. Len(ss), j \in 1 .. L :
               /\ (i - 1) * L + j \in 1 .. Len(ss) * L
               /\ FlattenSeq(ss)[(i - 1) * L + j] = ss[i][j]
<1> DEFINE n == Len(ss)
<1>1. n \in Nat /\ ss \in [1 .. n -> Seq(T)]
  OBVIOUS
<1>0. n = Len(ss)
  OBVIOUS
<1> HIDE DEF n
<1>2. PICK f : Flattens(f, ss, T, n) /\ FlattenSeq(ss) = f[n]
  BY <1>0, FlattenSteps
<1>3. /\ f \in [0 .. n -> Seq(T)] /\ f[0] = <<>>
      /\ \A i \in 1 .. n : f[i] = f[i - 1] \o ss[i]
  BY <1>2 DEF Flattens
<1>4. ASSUME NEW m \in Nat, NEW i \in 1 .. m, NEW j \in 1 .. L
      PROVE  (i - 1) * L + j \in 1 .. m * L
  <2>1. (i - 1) * L \in Nat /\ i * L \in Nat /\ m * L \in Nat /\ i * L = (i - 1) * L + L
    OBVIOUS
  <2>2. i * L <= m * L
    OBVIOUS
  <2> DEFINE a == (i - 1) * L
             b == i * L
             c == m * L
  <2>3. a \in Nat /\ b \in Nat /\ c \in Nat /\ b = a + L /\ b <= c /\ j \in 1 .. L
    BY <2>1, <2>2
  <2> HIDE DEF a, b, c
  <2>4. a + j \in 1 .. c
    BY <2>3
  <2>5. QED
    BY <2>4 DEF a, c
<1> DEFINE C == {m \in 0 .. n : /\ Len(f[m]) = m * L
                               /\ \A i \in 1 .. m, j \in 1 .. L :
                                     f[m][(i - 1) * L + j] = ss[i][j]}
<1>5. 0 \in C
  BY <1>1, <1>3
<1>6. ASSUME NEW m \in 1 .. n, m - 1 \in C
      PROVE  m \in C
  <2>1. /\ Len(f[m]) = Len(f[m - 1]) + L
        /\ \A l \in 1 .. Len(f[m - 1]) : f[m][l] = f[m - 1][l]
        /\ \A l \in 1 .. L : f[m][Len(f[m - 1]) + l] = ss[m][l]
    <3>1. Len(ss[m]) = L
      BY <1>0
    <3>2. QED
      <4>1. Flattens(f, ss, T, n)
        BY <1>2
      <4>2. Joined(f, ss, m)
        BY <1>1, <4>1, FlattenStep
      <4>3. QED
        BY <3>1, <4>2 DEF Joined
  <2>2. /\ Len(f[m - 1]) = (m - 1) * L /\ m - 1 \in Nat
        /\ \A i \in 1 .. m - 1, j \in 1 .. L : f[m - 1][(i - 1) * L + j] = ss[i][j]
    BY <1>6
  <2>3. (m - 1) * L + L = m * L /\ (m - 1) * L \in Nat
    BY <2>2
  <2>4. Len(f[m]) = m * L
    BY <2>1, <2>2, <2>3
  <2>5. ASSUME NEW i \in 1 .. m, NEW j \in 1 .. L
        PROVE  f[m][(i - 1) * L + j] = ss[i][j]
    <3>1. CASE i = m
      BY <2>1, <2>2, <3>1
    <3>2. CASE i # m
      <4>1. i \in 1 .. m - 1
        BY <3>2
      <4>2. (i - 1) * L + j \in 1 .. (m - 1) * L
        BY <1>4, <2>2, <4>1
      <4>3. f[m][(i - 1) * L + j] = f[m - 1][(i - 1) * L + j]
        BY <2>1, <2>2, <4>2
      <4>4. QED
        BY <2>2, <4>1, <4>3
    <3>3. QED
      BY <3>1, <3>2
  <2>6. QED
    BY <2>4, <2>5
<1> HIDE DEF C
<1>7. \A m \in 0 .. n : m \in C
  BY <1>1, <1>5, <1>6, UpTo
<1>8. n \in C
  BY <1>1, <1>7
<1>9. /\ Len(f[n]) = n * L
      /\ \A i \in 1 .. n, j \in 1 .. L : f[n][(i - 1) * L + j] = ss[i][j]
  BY <1>8 DEF C
<1>10. f[n] \in Seq(T)
  BY <1>1, <1>3, Neighbours
<1>11. \A i \in 1 .. n, j \in 1 .. L : (i - 1) * L + j \in 1 .. n * L
  BY <1>1, <1>4
<1>12. QED
  BY <1>0, <1>2, <1>9, <1>10, <1>11

\* The same, by places of the concatenation: the block and the place in it.
BlockOf(k, L) == (k - 1) \div L + 1
InBlock(k, L) == ((k - 1) % L) + 1

HasPlace(k, n, L) ==
    /\ L > 0 /\ BlockOf(k, L) \in 1 .. n /\ InBlock(k, L) \in 1 .. L
    /\ (BlockOf(k, L) - 1) * L + InBlock(k, L) = k

\* Every number up to n * L has a place in one of n blocks of L.
LEMMA FlattenPlaces ==
  ASSUME NEW n \in Nat, NEW L \in Nat, NEW k \in 1 .. n * L
  PROVE  HasPlace(k, n, L)
<1>1. L > 0
  <2>1. L = 0 => n * L = 0
    OBVIOUS
  <2>2. QED
    BY <2>1
<1> DEFINE q == (k - 1) \div L
           r == (k - 1) % L
<1>2. k - 1 \in Nat /\ k <= n * L
  OBVIOUS
<1>3. q \in Nat /\ r \in 0 .. L - 1 /\ k - 1 = q * L + r
  BY <1>1, <1>2, Division
<1> HIDE DEF q, r
<1>4. q < n
  <2>1. q >= n => q * L >= n * L
    BY <1>1, <1>3
  <2>2. q * L \in Nat /\ n * L \in Nat
    BY <1>3, Products
  <2>3. QED
    BY <1>2, <1>3, <2>1, <2>2
<1>5. (q + 1) - 1 = q /\ q + 1 \in 1 .. n /\ r + 1 \in 1 .. L
  BY <1>1, <1>3, <1>4
<1>6. q * L + (r + 1) = k
  BY <1>2, <1>3, Products
<1>7. QED
  BY <1>1, <1>5, <1>6 DEF q, r, HasPlace, BlockOf, InBlock

-------------------------------------------------------------------------------
(* The walk over the axes. *)

AxesOk(axes, V, n) ==
    /\ n \in Nat /\ Len(axes) = n
    /\ \A i \in 1 .. n : axes[i].values \in Seq(V)

\* One level of the walk.
Extended(x, values) ==
    FlattenSeq([k \in DOMAIN x |-> [v \in DOMAIN values |-> Append(x[k], values[v])]])

ExtendedTo(y, x, values, V) ==
    /\ y \in Seq(Seq(V))
    /\ Len(y) = Len(x) * Len(values)
    /\ \A i \in 1 .. Len(x), j \in 1 .. Len(values) :
          /\ (i - 1) * Len(values) + j \in 1 .. Len(y)
          /\ y[(i - 1) * Len(values) + j] = Append(x[i], values[j])

\* One axis extends every selection of the walk by every value, in blocks.
LEMMA ExtendedIs ==
  ASSUME NEW V, NEW x \in Seq(Seq(V)), NEW values \in Seq(V)
  PROVE  ExtendedTo(Extended(x, values), x, values, V)
<1> DEFINE n == Len(x)
           L == Len(values)
           Block(k) == [v \in 1 .. L |-> Append(x[k], values[v])]
           ss == [k \in 1 .. n |-> Block(k)]
<1>1. n \in Nat /\ L \in Nat /\ DOMAIN x = 1 .. n /\ DOMAIN values = 1 .. L
  OBVIOUS
<1>2. \A i \in 1 .. n, j \in 1 .. L : Append(x[i], values[j]) \in Seq(V)
  OBVIOUS
<1>0. n = Len(x) /\ L = Len(values)
  OBVIOUS
<1> HIDE DEF n, L
<1>3. \A k \in 1 .. n : Block(k) \in Seq(Seq(V)) /\ Len(Block(k)) = L
  <2>1. ASSUME NEW k \in 1 .. n
        PROVE  Block(k) \in Seq(Seq(V)) /\ Len(Block(k)) = L
    <3>1. \A v \in 1 .. L : Append(x[k], values[v]) \in Seq(V)
      BY <1>2
    <3>2. Block(k) \in [1 .. L -> Seq(V)]
      BY <3>1
    <3> HIDE DEF Block
    <3>3. Block(k) \in Seq(Seq(V)) /\ Len(Block(k)) = L
      BY <1>1, <3>2
    <3>4. QED
      BY <3>3
  <2>2. QED
    BY <2>1
<1>4. \A k \in 1 .. n, v \in 1 .. L : Block(k)[v] = Append(x[k], values[v])
  OBVIOUS
<1>5. Extended(x, values) = FlattenSeq(ss)
  BY <1>1 DEF Extended
<1> HIDE DEF Block
<1>6. ss \in Seq(Seq(Seq(V))) /\ Len(ss) = n /\ \A k \in 1 .. n : ss[k] = Block(k)
  <2>1. ss \in [1 .. n -> Seq(Seq(V))]
    BY <1>3
  <2>2. \A k \in 1 .. n : ss[k] = Block(k)
    OBVIOUS
  <2> HIDE DEF ss
  <2>3. QED
    BY <1>1, <2>1, <2>2
<1> HIDE DEF ss
<1>7. \A i \in 1 .. Len(ss) : Len(ss[i]) = L
  BY <1>3, <1>6
<1>8. /\ FlattenSeq(ss) \in Seq(Seq(V))
      /\ Len(FlattenSeq(ss)) = Len(ss) * L
      /\ \A i \in 1 .. Len(ss), j \in 1 .. L :
            /\ (i - 1) * L + j \in 1 .. Len(ss) * L
            /\ FlattenSeq(ss)[(i - 1) * L + j] = ss[i][j]
  <2>1. ss \in Seq(Seq(Seq(V)))
    BY <1>6
  <2>2. L \in Nat
    BY <1>1
  <2> HIDE DEF L
  <2>3. QED
    BY <1>7, <2>1, <2>2, FlattenEqual
<1>9. \A i \in 1 .. n, j \in 1 .. L :
         /\ (i - 1) * L + j \in 1 .. n * L
         /\ FlattenSeq(ss)[(i - 1) * L + j] = Append(x[i], values[j])
  <2>1. Len(ss) = n
    BY <1>6
  <2>2. \A i \in 1 .. n, j \in 1 .. L : ss[i][j] = Append(x[i], values[j])
    <3>1. \A k \in 1 .. n : ss[k] = Block(k)
      BY <1>6
    <3>2. QED
      BY <1>4, <3>1
  <2>3. \A i \in 1 .. n, j \in 1 .. L :
           /\ (i - 1) * L + j \in 1 .. n * L
           /\ FlattenSeq(ss)[(i - 1) * L + j] = ss[i][j]
    BY <1>8, <2>1
  <2>4. QED
    BY <2>2, <2>3
<1> DEFINE y == FlattenSeq(ss)
<1>10. /\ y \in Seq(Seq(V)) /\ Len(y) = n * L
       /\ \A i \in 1 .. n, j \in 1 .. L :
         /\ (i - 1) * L + j \in 1 .. Len(y)
         /\ y[(i - 1) * L + j] = Append(x[i], values[j])
  BY <1>6, <1>8, <1>9
<1>11. Extended(x, values) = y
  BY <1>5
<1> HIDE DEF y
<1>12. QED
  BY <1>0, <1>10, <1>11 DEF ExtendedTo

\* The same, by places.
ComesFrom(y, x, values, k) ==
    /\ Len(values) > 0
    /\ BlockOf(k, Len(values)) \in 1 .. Len(x)
    /\ InBlock(k, Len(values)) \in 1 .. Len(values)
    /\ y[k] = Append(x[BlockOf(k, Len(values))], values[InBlock(k, Len(values))])

\* The k-th extended selection comes from block k of the walk so far.
LEMMA ExtendedPlaces ==
  ASSUME NEW V, NEW x \in Seq(Seq(V)), NEW values \in Seq(V), NEW y,
         ExtendedTo(y, x, values, V), NEW k \in 1 .. Len(y)
  PROVE  ComesFrom(y, x, values, k)
<1> DEFINE n == Len(x)
           L == Len(values)
           i == BlockOf(k, L)
           j == InBlock(k, L)
<1>1. n \in Nat /\ L \in Nat
  OBVIOUS
<1>2. /\ Len(y) = n * L
      /\ \A a \in 1 .. n, b \in 1 .. L : y[(a - 1) * L + b] = Append(x[a], values[b])
  BY DEF ExtendedTo
<1> HIDE DEF n, L
<1>3. k \in 1 .. n * L
  BY <1>2
<1>4. HasPlace(k, n, L)
  BY <1>1, <1>3, FlattenPlaces
<1>5. L > 0 /\ i \in 1 .. n /\ j \in 1 .. L /\ (i - 1) * L + j = k
  BY <1>4 DEF HasPlace
<1> HIDE DEF i, j
<1>6. y[k] = Append(x[i], values[j])
  BY <1>2, <1>5
<1>7. QED
  BY <1>5, <1>6 DEF i, j, n, L, ComesFrom

\* f[i] is the walk over the first i axes.
Walks(f, axes, V, n) ==
    /\ f \in [0 .. n -> Seq(Seq(V))]
    /\ f[0] = << <<>> >>
    /\ \A i \in 1 .. n : f[i] = Extended(f[i - 1], axes[i].values)

WalkFunction(f, axes) ==
    f = [i \in 0 .. Len(axes) |->
            IF i = 0
            THEN << <<>> >>
            ELSE FlattenSeq([k \in DOMAIN f[i - 1] |->
                    [v \in DOMAIN axes[i].values |->
                        Append(f[i - 1][k], axes[i].values[v])]])]

\* walkAxes extends the selections axis by axis.
LEMMA WalkSteps ==
  ASSUME NEW V, NEW n, NEW axes, AxesOk(axes, V, n)
  PROVE  \E f : Walks(f, axes, V, n) /\ WalkAxes(axes) = f[n]
<1>1. n \in Nat /\ Len(axes) = n /\ \A i \in 1 .. n : axes[i].values \in Seq(V)
  BY DEF AxesOk
<1> DEFINE A == Seq(Seq(V))
           step == [x \in (1 .. n) \X A |-> Extended(x[2], axes[x[1]].values)]
<1>2. \A i \in 1 .. n, x \in A : Extended(x, axes[i].values) \in A
  BY <1>1, ExtendedIs DEF ExtendedTo
<1>3. << <<>> >> \in A
  OBVIOUS
<1> HIDE DEF A
<1>4. /\ step \in [(1 .. n) \X A -> A]
      /\ \A i \in 1 .. n, x \in A : step[<<i, x>>] = Extended(x, axes[i].values)
  BY <1>2
<1> HIDE DEF step
<1>5. PICK f : Solves(f, A, << <<>> >>, step, n)
  BY <1>1, <1>3, <1>4, Recursion
<1>6. f \in [0 .. n -> A] /\ f[0] = << <<>> >>
      /\ \A i \in 1 .. n : f[i] = step[<<i, f[i - 1]>>]
  BY <1>5 DEF Solves
<1>7. \A i \in 1 .. n : f[i] = Extended(f[i - 1], axes[i].values)
  BY <1>1, <1>4, <1>6, Neighbours
<1>8. Walks(f, axes, V, n)
  BY <1>6, <1>7 DEF Walks, A
<1>9. WalkFunction(f, axes)
  <2>1. f = [i \in 0 .. n |-> f[i]]
    BY <1>6
  <2>2. \A i \in 0 .. n : i = 0 \/ i \in 1 .. n
    BY <1>1
  <2>3. \A i \in 0 .. n :
           f[i] = IF i = 0 THEN << <<>> >> ELSE Extended(f[i - 1], axes[i].values)
    BY <1>6, <1>7, <2>2
  <2>4. QED
    BY <1>1, <2>1, <2>3, Zenon DEF WalkFunction, Extended
<1> DEFINE g == CHOOSE h : WalkFunction(h, axes)
<1>10. WalkFunction(g, axes)
  BY <1>9
<1>11. WalkAxes(axes) = g[n]
  BY <1>1 DEF WalkAxes, WalkFunction
<1> HIDE DEF g
<1> DEFINE B == {i \in 0 .. n : g[i] = f[i]}
<1>12. 0 \in B
  BY <1>1, <1>6, <1>10 DEF WalkFunction
<1>13. ASSUME NEW i \in 1 .. n, i - 1 \in B
       PROVE  i \in B
  <2>1. i \in 0 .. n /\ i # 0 /\ g[i - 1] = f[i - 1]
    BY <1>13
  <2>2. g[i] = Extended(g[i - 1], axes[i].values)
    BY <1>1, <1>10, <2>1 DEF WalkFunction, Extended
  <2>3. QED
    BY <1>7, <2>1, <2>2
<1> HIDE DEF B
<1>14. \A i \in 0 .. n : i \in B
  BY <1>1, <1>12, <1>13, UpTo
<1>15. QED
  BY <1>1, <1>8, <1>11, <1>14 DEF B

\* One level.
Level(f, axes, V, i) ==
    /\ f[i - 1] \in Seq(Seq(V)) /\ f[i] \in Seq(Seq(V))
    /\ axes[i].values \in Seq(V)
    /\ ExtendedTo(f[i], f[i - 1], axes[i].values, V)

\* What the walk has before axis i, and after it.
LEMMA WalkLevel ==
  ASSUME NEW V, NEW n, NEW axes, AxesOk(axes, V, n), NEW f, Walks(f, axes, V, n),
         NEW i \in 1 .. n
  PROVE  Level(f, axes, V, i)
<1>1. n \in Nat /\ axes[i].values \in Seq(V)
  BY DEF AxesOk
<1>2. f[i - 1] \in Seq(Seq(V)) /\ f[i] \in Seq(Seq(V))
  BY <1>1, Neighbours DEF Walks
<1>3. f[i] = Extended(f[i - 1], axes[i].values)
  BY DEF Walks
<1>4. QED
  BY <1>1, <1>2, <1>3, ExtendedIs DEF Level

\* As many selections as the product of the numbers of values.
LEMMA WalkLength ==
  ASSUME NEW V, NEW n, NEW axes, AxesOk(axes, V, n), NEW f, Walks(f, axes, V, n),
         NEW w, NEW p, \A i \in 1 .. n : w[i] = Len(axes[i].values),
         Totals(p, TimesOp, 1, w, n)
  PROVE  \A i \in 0 .. n : Len(f[i]) = p[i]
<1> DEFINE B == {i \in 0 .. n : Len(f[i]) = p[i]}
<1>1. n \in Nat /\ p[0] = 1 /\ p \in [0 .. n -> Nat]
  BY DEF AxesOk, Totals
<1>2. 0 \in B
  <2>1. f[0] = << <<>> >>
    BY DEF Walks
  <2>2. Len(f[0]) = 1
    BY <2>1
  <2>3. QED
    BY <1>1, <2>2
<1>3. ASSUME NEW i \in 1 .. n, i - 1 \in B
      PROVE  i \in B
  <2>1. Len(f[i]) = Len(f[i - 1]) * Len(axes[i].values) /\ Len(axes[i].values) \in Nat
    <3>1. Level(f, axes, V, i)
      BY WalkLevel
    <3>2. QED
      BY <3>1 DEF Level, ExtendedTo
  <2>2. p[i] = TimesOp[<<p[i - 1], Len(axes[i].values)>>] /\ p[i - 1] \in Nat
    BY <1>1, Neighbours DEF Totals
  <2>3. p[i] = p[i - 1] * Len(axes[i].values)
    BY <2>1, <2>2, TheOperations
  <2>4. Len(f[i - 1]) = p[i - 1] /\ i \in 0 .. n
    BY <1>3
  <2>5. Len(f[i]) = p[i]
    BY <2>1, <2>3, <2>4
  <2>6. QED
    BY <2>4, <2>5
<1> HIDE DEF B
<1>4. \A i \in 0 .. n : i \in B
  BY <1>1, <1>2, <1>3, UpTo
<1>5. QED
  BY <1>4 DEF B

\* A selection has a value of each axis.
Selection(sel, axes, V, n) ==
    /\ sel \in Seq(V) /\ Len(sel) = n
    /\ \A j \in 1 .. n : sel[j] \in ToSet(axes[j].values)

\* The walk has nothing but selections: one value of every axis.
LEMMA WalkIsOfSelections ==
  ASSUME NEW V, NEW n, NEW axes, AxesOk(axes, V, n), NEW f, Walks(f, axes, V, n)
  PROVE  \A i \in 0 .. n : \A k \in 1 .. Len(f[i]) : Selection(f[i][k], axes, V, i)
<1> DEFINE B == {i \in 0 .. n : \A k \in 1 .. Len(f[i]) : Selection(f[i][k], axes, V, i)}
<1>1. n \in Nat
  BY DEF AxesOk
<1>2. 0 \in B
  <2>1. f[0] = << <<>> >>
    BY DEF Walks
  <2>2. \A k \in 1 .. Len(f[0]) : f[0][k] = <<>>
    BY <2>1
  <2>3. Selection(<<>>, axes, V, 0)
    BY DEF Selection
  <2>4. QED
    BY <1>1, <2>2, <2>3
<1>3. ASSUME NEW i \in 1 .. n, i - 1 \in B
      PROVE  i \in B
  <2> DEFINE L == Len(axes[i].values)
  <2>1. /\ f[i - 1] \in Seq(Seq(V)) /\ axes[i].values \in Seq(V)
        /\ ExtendedTo(f[i], f[i - 1], axes[i].values, V)
    BY WalkLevel DEF Level
  <2>2. ASSUME NEW k \in 1 .. Len(f[i])
        PROVE  Selection(f[i][k], axes, V, i)
    <3> DEFINE a == BlockOf(k, L)
               b == InBlock(k, L)
    <3>0. ComesFrom(f[i], f[i - 1], axes[i].values, k)
      BY <2>1, ExtendedPlaces
    <3>1. a \in 1 .. Len(f[i - 1]) /\ b \in 1 .. L
          /\ f[i][k] = Append(f[i - 1][a], axes[i].values[b])
      BY <3>0 DEF ComesFrom
    <3> HIDE DEF a, b
    <3> DEFINE s == f[i - 1][a]
               e == axes[i].values[b]
    <3>2. Selection(s, axes, V, i - 1)
      BY <1>3, <3>1
    <3>3. e \in V /\ e \in ToSet(axes[i].values)
      BY <2>1, <3>1, Elements
    <3>4. f[i][k] = Append(s, e)
      BY <3>1
    <3> HIDE DEF s, e
    <3>5. s \in Seq(V) /\ Len(s) = i - 1 /\ \A j \in 1 .. i - 1 : s[j] \in ToSet(axes[j].values)
      BY <3>2 DEF Selection
    <3>6. /\ Append(s, e) \in Seq(V) /\ Len(Append(s, e)) = i
          /\ Append(s, e)[i] = e /\ \A j \in 1 .. i - 1 : Append(s, e)[j] = s[j]
      BY <3>3, <3>5
    <3>7. \A j \in 1 .. i : j = i \/ j \in 1 .. i - 1
      OBVIOUS
    <3>8. QED
      BY <3>3, <3>4, <3>5, <3>6, <3>7 DEF Selection
  <2>3. QED
    BY <2>2
<1> HIDE DEF B
<1>4. \A i \in 0 .. n : i \in B
  BY <1>1, <1>2, <1>3, UpTo
<1>5. QED
  BY <1>4 DEF B

\* And every selection is walked.
LEMMA EverySelection ==
  ASSUME NEW V, NEW n, NEW axes, AxesOk(axes, V, n), NEW f, Walks(f, axes, V, n),
         NEW sel, Selection(sel, axes, V, n)
  PROVE  \E k \in 1 .. Len(f[n]) : f[n][k] = sel
<1> DEFINE B == {i \in 0 .. n : \E k \in 1 .. Len(f[i]) : f[i][k] = SubSeq(sel, 1, i)}
<1>1. n \in Nat /\ sel \in Seq(V) /\ Len(sel) = n
  BY DEF AxesOk, Selection
<1>2. 0 \in B
  <2>1. f[0] = << <<>> >> /\ SubSeq(sel, 1, 0) = <<>>
    BY <1>1, SubSeqEmpty DEF Walks
  <2>2. 1 \in 1 .. Len(f[0]) /\ f[0][1] = SubSeq(sel, 1, 0) /\ 0 \in 0 .. n
    BY <1>1, <2>1
  <2>3. QED
    BY <2>2
<1>3. ASSUME NEW i \in 1 .. n, i - 1 \in B
      PROVE  i \in B
  <2>1. PICK k \in 1 .. Len(f[i - 1]) : f[i - 1][k] = SubSeq(sel, 1, i - 1)
    BY <1>3
  <2>2. PICK v \in 1 .. Len(axes[i].values) : axes[i].values[v] = sel[i]
    <3>1. sel[i] \in ToSet(axes[i].values) /\ axes[i].values \in Seq(V)
      BY WalkLevel DEF Selection, Level
    <3>2. QED
      BY <3>1, Elements
  <2>3. /\ (k - 1) * Len(axes[i].values) + v \in 1 .. Len(f[i])
        /\ f[i][(k - 1) * Len(axes[i].values) + v] = Append(SubSeq(sel, 1, i - 1), sel[i])
    <3>1. Level(f, axes, V, i)
      BY WalkLevel
    <3>2. QED
      BY <2>1, <2>2, <3>1 DEF Level, ExtendedTo
  <2>4. Append(SubSeq(sel, 1, i - 1), sel[i]) = SubSeq(sel, 1, i)
    BY <1>1, SubSeqRecursiveSecond
  <2>5. \E l \in 1 .. Len(f[i]) : f[i][l] = SubSeq(sel, 1, i)
    BY <2>3, <2>4
  <2>6. QED
    BY <2>5
<1> HIDE DEF B
<1>4. \A i \in 0 .. n : i \in B
  BY <1>1, <1>2, <1>3, UpTo
<1>5. SubSeq(sel, 1, n) = sel
  BY <1>1, SubSeqFull
<1>6. QED
  BY <1>1, <1>4, <1>5 DEF B

\* A product that begins with r is r times the one that begins with one.
LEMMA TotalsScale ==
  ASSUME NEW n \in Nat, NEW w \in [1 .. n -> Nat], NEW r \in Nat, NEW p, NEW q,
         Totals(p, TimesOp, 1, w, n), Totals(q, TimesOp, r, w, n)
  PROVE  \A i \in 0 .. n : p[i] \in Nat /\ q[i] = r * p[i]
<1> DEFINE B == {i \in 0 .. n : q[i] = r * p[i]}
<1>1. /\ p \in [0 .. n -> Nat] /\ q \in [0 .. n -> Nat] /\ p[0] = 1 /\ q[0] = r
      /\ \A i \in 1 .. n : p[i] = TimesOp[<<p[i - 1], w[i]>>] /\ q[i] = TimesOp[<<q[i - 1], w[i]>>]
  BY DEF Totals
<1>2. 0 \in B
  BY <1>1
<1>3. ASSUME NEW i \in 1 .. n, i - 1 \in B
      PROVE  i \in B
  <2>1. p[i - 1] \in Nat /\ q[i - 1] \in Nat /\ w[i] \in Nat
    BY <1>1, Neighbours
  <2>2. p[i] = p[i - 1] * w[i] /\ q[i] = q[i - 1] * w[i]
    BY <1>1, <2>1, TheOperations
  <2>3. q[i - 1] = r * p[i - 1] /\ i \in 0 .. n
    BY <1>3
  <2>4. (r * p[i - 1]) * w[i] = r * (p[i - 1] * w[i])
    BY <2>1, Products
  <2>5. QED
    BY <2>2, <2>3, <2>4
<1> HIDE DEF B
<1>4. \A i \in 0 .. n : i \in B
  BY <1>2, <1>3, UpTo
<1>5. QED
  BY <1>1, <1>4 DEF B

\* The same for the whole sequence.
Scaling(p, q, w, r, n) ==
    /\ n \in Nat /\ w \in [1 .. n -> Nat] /\ r \in Nat
    /\ Totals(p, TimesOp, 1, w, n) /\ Totals(q, TimesOp, r, w, n)

LEMMA TotalScales ==
  ASSUME NEW p, NEW q, NEW w, NEW r, NEW n, Scaling(p, q, w, r, n)
  PROVE  p[n] \in Nat /\ q[n] = r * p[n]
<1>1. \A i \in 0 .. n : p[i] \in Nat /\ q[i] = r * p[i]
  BY TotalsScale DEF Scaling
<1>2. n \in 0 .. n
  BY DEF Scaling
<1>3. QED
  BY <1>1, <1>2

\* What axis j shows when the walk has taken a turns of it.
ValueAt(axes, j, a) == axes[j].values[(a % Len(axes[j].values)) + 1]

Shows(x, axes, j, turn) ==
    \A k \in 1 .. Len(x) : x[k][j] = ValueAt(axes, j, (k - 1) \div turn)

ShiftedLengths(w, axes, j, n) ==
    w \in [1 .. n - j -> Nat \ {0}] /\ \A l \in 1 .. n - j : w[l] = Len(axes[j + l].values)

\* In the walk, axis j changes its value every so many selections as the axes
\* behind it have values between them.
LEMMA WalkDigits ==
  ASSUME NEW V, NEW n, NEW axes, AxesOk(axes, V, n), NEW f, Walks(f, axes, V, n),
         NEW j \in 1 .. n, NEW w, ShiftedLengths(w, axes, j, n),
         NEW q, Totals(q, TimesOp, 1, w, n - j)
  PROVE  q[n - j] \in Nat /\ q[n - j] > 0 /\ Shows(f[n], axes, j, q[n - j])
<1>1. n \in Nat /\ n - j \in Nat /\ j - 1 \in 0 .. n
  BY DEF AxesOk
<1>2. /\ q \in [0 .. n - j -> Nat] /\ q[0] = 1
      /\ \A d \in 1 .. n - j : q[d] = TimesOp[<<q[d - 1], w[d]>>]
  BY DEF Totals
<1>3. \A i \in 0 .. n : \A k \in 1 .. Len(f[i]) : Selection(f[i][k], axes, V, i)
  BY WalkIsOfSelections
<1> DEFINE B == {d \in 0 .. n - j : q[d] > 0 /\ Shows(f[j + d], axes, j, q[d])}
<1>4. 0 \in B
  <2> DEFINE L == Len(axes[j].values)
  <2>1. Level(f, axes, V, j)
    BY WalkLevel
  <2>2. ASSUME NEW k \in 1 .. Len(f[j])
        PROVE  f[j][k][j] = ValueAt(axes, j, (k - 1) \div 1)
    <3>1. ComesFrom(f[j], f[j - 1], axes[j].values, k)
      BY <2>1, ExtendedPlaces DEF Level
    <3> DEFINE a == BlockOf(k, L)
               b == InBlock(k, L)
               s == f[j - 1][a]
               e == axes[j].values[b]
    <3>2. a \in 1 .. Len(f[j - 1]) /\ b \in 1 .. L /\ f[j][k] = Append(s, e)
      BY <3>1 DEF ComesFrom
    <3>3. s \in Seq(V) /\ Len(s) = j - 1
      <4>1. Selection(f[j - 1][a], axes, V, j - 1)
        BY <1>1, <1>3, <3>2
      <4>2. QED
        BY <4>1 DEF Selection
    <3>4. Append(s, e)[j] = e
      <4> HIDE DEF s, e
      <4>1. QED
        BY <3>3
    <3>5. (k - 1) \div 1 = k - 1
      OBVIOUS
    <3>6. e = ValueAt(axes, j, k - 1)
      BY DEF ValueAt, InBlock
    <3>7. QED
      BY <3>2, <3>4, <3>5, <3>6
  <2>3. j + 0 = j /\ q[0] > 0 /\ 0 \in 0 .. n - j
    BY <1>1, <1>2
  <2>4. Shows(f[j + 0], axes, j, q[0])
    BY <1>2, <2>2, <2>3 DEF Shows
  <2>5. QED
    BY <2>3, <2>4
<1>5. ASSUME NEW d \in 1 .. n - j, d - 1 \in B
      PROVE  d \in B
  <2> DEFINE i == j + d
             L == Len(axes[i].values)
             t == q[d - 1]
  <2>1. i \in 1 .. n /\ i - 1 = j + (d - 1) /\ i - 1 \in 0 .. n /\ j \in 1 .. i - 1
    BY <1>1
  <2>2. Level(f, axes, V, i)
    BY <2>1, WalkLevel
  <2>3. L \in Nat /\ L > 0 /\ w[d] = L
    BY DEF ShiftedLengths
  <2>4. t \in Nat /\ t > 0 /\ Shows(f[i - 1], axes, j, t)
    BY <1>1, <1>2, <1>5, <2>1, Neighbours
  <2>5. q[d] = t * L
    BY <1>2, <2>3, <2>4, TheOperations
  <2> HIDE DEF i, t
  <2>6. ASSUME NEW k \in 1 .. Len(f[i])
        PROVE  f[i][k][j] = ValueAt(axes, j, (k - 1) \div (t * L))
    <3>1. ComesFrom(f[i], f[i - 1], axes[i].values, k)
      BY <2>2, ExtendedPlaces DEF Level
    <3> DEFINE a == BlockOf(k, L)
               b == InBlock(k, L)
               s == f[i - 1][a]
               e == axes[i].values[b]
    <3>2. a \in 1 .. Len(f[i - 1]) /\ b \in 1 .. L /\ f[i][k] = Append(s, e)
      BY <3>1 DEF ComesFrom
    <3>3. s \in Seq(V) /\ Len(s) = i - 1
      <4>1. Selection(f[i - 1][a], axes, V, i - 1)
        BY <1>3, <2>1, <3>2
      <4>2. QED
        BY <4>1 DEF Selection
    <3>4. Append(s, e)[j] = s[j]
      <4> HIDE DEF s, e
      <4>1. QED
        BY <2>1, <3>3
    <3>5. s[j] = ValueAt(axes, j, (a - 1) \div t)
      BY <2>4, <3>2 DEF Shows
    <3>6. a - 1 = (k - 1) \div L /\ k - 1 \in Nat
      <4>1. k - 1 \in Nat
        OBVIOUS
      <4>2. (k - 1) \div L \in Nat
        BY <2>3, <4>1, QuotientIsNat
      <4>3. \A x \in Nat : (x + 1) - 1 = x
        OBVIOUS
      <4>4. QED
        BY <4>1, <4>2, <4>3 DEF BlockOf
    <3>7. ((k - 1) \div L) \div t = (k - 1) \div (t * L)
      BY <2>3, <2>4, <3>6, QuotientOfQuotient
    <3>8. QED
      BY <3>2, <3>4, <3>5, <3>6, <3>7
  <2>7. Shows(f[i], axes, j, q[d])
    BY <2>5, <2>6 DEF Shows
  <2>8. q[d] > 0
    BY <2>3, <2>4, <2>5, QuotientOfQuotient
  <2>9. d \in 0 .. n - j
    BY <1>1
  <2>10. QED
    BY <2>7, <2>8, <2>9 DEF i
<1> HIDE DEF B
<1>6. \A d \in 0 .. n - j : d \in B
  BY <1>1, <1>4, <1>5, UpTo
<1>7. n - j \in B /\ j + (n - j) = n /\ q[n - j] \in Nat
  BY <1>1, <1>2, <1>6
<1>8. QED
  BY <1>7 DEF B

-------------------------------------------------------------------------------
(* The longest fragment. *)

\* A sequence of natural numbers has a greatest, or is empty.
LEMMA Greatest ==
  ASSUME NEW n \in Nat, NEW g \in [1 .. n -> Nat]
  PROVE  \E m \in {0} \cup {g[i] : i \in 1 .. n} :
            \A y \in {0} \cup {g[i] : i \in 1 .. n} : m >= y
<1> DEFINE S(k) == {0} \cup {g[i] : i \in 1 .. k}
           B == {k \in 0 .. n : \E m \in S(k) : \A y \in S(k) : m >= y}
<1>1. 0 \in B
  OBVIOUS
<1>2. ASSUME NEW k \in 1 .. n, k - 1 \in B
      PROVE  k \in B
  <2>1. PICK m \in S(k - 1) : \A y \in S(k - 1) : m >= y
    BY <1>2
  <2>2. S(k) = S(k - 1) \cup {g[k]}
    <3>1. 1 .. k = (1 .. k - 1) \cup {k}
      OBVIOUS
    <3>2. QED
      BY <3>1
  <2>3. m \in Nat /\ g[k] \in Nat /\ \A y \in S(k - 1) : y \in Nat
    OBVIOUS
  <2> DEFINE M == IF g[k] > m THEN g[k] ELSE m
  <2>4. M \in S(k)
    BY <2>1, <2>2
  <2>5. \A y \in S(k) : M >= y
    <3> HIDE DEF S
    <3>1. QED
      BY <2>1, <2>2, <2>3
  <2> HIDE DEF S, M
  <2>6. \E x \in S(k) : \A y \in S(k) : x >= y
    BY <2>4, <2>5
  <2>7. QED
    BY <2>6
<1> HIDE DEF B
<1>3. \A k \in 0 .. n : k \in B
  BY <1>1, <1>2, UpTo
<1>4. n \in B
  BY <1>3
<1>5. QED
  BY <1>4 DEF B

\* Longest is the length of the longest fragment.
LEMMA LongestIs ==
  ASSUME NEW T, NEW fragments \in Seq(Seq(T))
  PROVE  /\ Longest(fragments) \in Nat
         /\ \A x \in ToSet(fragments) : Len(x) \in Nat /\ Len(x) <= Longest(fragments)
         /\ fragments # <<>> => \E x \in ToSet(fragments) : Len(x) = Longest(fragments)
<1> DEFINE n == Len(fragments)
           g == [i \in 1 .. n |-> Len(fragments[i])]
           S == {0} \cup {g[i] : i \in 1 .. n}
           D == {0} \cup {Len(x) : x \in ToSet(fragments)}
<1>1. n \in Nat /\ DOMAIN fragments = 1 .. n /\ fragments \in [1 .. n -> Seq(T)]
  OBVIOUS
<1>0. n = 0 => fragments = <<>>
  BY EmptySeq
<1> HIDE DEF n
<1>2. \A i \in 1 .. n : Len(fragments[i]) \in Nat
  BY <1>1
<1>3. g \in [1 .. n -> Nat] /\ \A i \in 1 .. n : g[i] = Len(fragments[i])
  BY <1>2
<1> HIDE DEF g
<1>4. ToSet(fragments) = {fragments[i] : i \in 1 .. n}
  BY <1>1 DEF ToSet
<1>5. D = S
  BY <1>3, <1>4
<1> DEFINE m == CHOOSE x \in S : \A y \in S : x >= y
<1>6. \E x \in S : \A y \in S : x >= y
  BY <1>1, <1>3, Greatest
<1>7. m \in S /\ \A y \in S : m >= y
  BY <1>6
<1>8. Longest(fragments) = m
  BY <1>5 DEF Longest, Max
<1> HIDE DEF m
<1>9. m \in Nat
  BY <1>3, <1>7
<1>10. ASSUME NEW x \in ToSet(fragments)
       PROVE  Len(x) \in Nat /\ Len(x) <= m
  <2>1. Len(x) \in S /\ Len(x) \in Nat
    BY <1>2, <1>3, <1>4
  <2>2. m >= Len(x)
    BY <1>7, <2>1
  <2>3. QED
    BY <1>9, <2>1, <2>2
<1>11. ASSUME fragments # <<>>
       PROVE  \E x \in ToSet(fragments) : Len(x) = m
  <2>1. CASE m = 0
    <3>1. 1 \in 1 .. n
      BY <1>0, <1>1, <1>11
    <3>2. fragments[1] \in ToSet(fragments)
      BY <1>4, <3>1
    <3>3. Len(fragments[1]) \in Nat /\ Len(fragments[1]) <= 0
      BY <1>10, <2>1, <3>2
    <3>4. Len(fragments[1]) = m
      BY <2>1, <3>3
    <3>5. QED
      BY <3>2, <3>4
  <2>2. CASE m # 0
    <3>1. PICK i \in 1 .. n : m = g[i]
      BY <1>7, <2>2
    <3>2. fragments[i] \in ToSet(fragments) /\ Len(fragments[i]) = m
      BY <1>3, <1>4, <3>1
    <3>3. QED
      BY <3>2
  <2>3. QED
    BY <2>1, <2>2
<1>12. QED
  BY <1>8, <1>9, <1>10, <1>11

\* A sum of smaller numbers is smaller.
LEMMA SumsCompare ==
  ASSUME NEW n \in Nat, NEW v \in [1 .. n -> Nat], NEW w \in [1 .. n -> Nat],
         \A i \in 1 .. n : v[i] <= w[i],
         NEW p, NEW q, Totals(p, SumOp, 0, v, n), Totals(q, SumOp, 0, w, n)
  PROVE  p[n] \in Nat /\ q[n] \in Nat /\ p[n] <= q[n]
<1> DEFINE B == {i \in 0 .. n : p[i] <= q[i]}
<1>1. /\ p \in [0 .. n -> Nat] /\ q \in [0 .. n -> Nat] /\ p[0] = 0 /\ q[0] = 0
      /\ \A i \in 1 .. n : p[i] = SumOp[<<p[i - 1], v[i]>>] /\ q[i] = SumOp[<<q[i - 1], w[i]>>]
  BY DEF Totals
<1>2. 0 \in B
  BY <1>1
<1>3. ASSUME NEW i \in 1 .. n, i - 1 \in B
      PROVE  i \in B
  <2>1. p[i - 1] \in Nat /\ q[i - 1] \in Nat /\ v[i] \in Nat /\ w[i] \in Nat /\ v[i] <= w[i]
    BY <1>1, Neighbours
  <2>2. p[i] = p[i - 1] + v[i] /\ q[i] = q[i - 1] + w[i]
    BY <1>1, <2>1, TheOperations
  <2>3. p[i - 1] <= q[i - 1] /\ i \in 0 .. n
    BY <1>3
  <2>4. QED
    BY <2>1, <2>2, <2>3
<1> HIDE DEF B
<1>4. \A i \in 0 .. n : i \in B
  BY <1>2, <1>3, UpTo
<1>5. n \in 0 .. n
  OBVIOUS
<1>6. QED
  BY <1>1, <1>4, <1>5 DEF B

-------------------------------------------------------------------------------
(* The sorted axes. *)

KeyOrder(axes) == {p \in ToSet(axes) \X ToSet(axes) : p[1].key < p[2].key}

\* What a rearrangement of the axes by their keys is like.
SortedAs(sorted, axes, n) ==
    /\ n \in Nat /\ Len(axes) = n /\ DOMAIN axes = 1 .. n
    /\ sorted \in [1 .. n -> ToSet(axes)]
    /\ \A i, j \in 1 .. n : sorted[i].key = sorted[j].key => i = j
    /\ \A i \in 1 .. n : Ranked(axes, i) = sorted[i]
    /\ \E f : Rearranges(f, n) /\ \A i \in 1 .. n : sorted[i] = axes[f[i]]

\* Object.keys(axes).sort() has every axis once, each at the rank of its key.
LEMMA AxesAreSorted ==
  ASSUME NEW axes, HaveKeys(axes)
  PROVE  SortedAs(SortedAxes(axes), axes, Len(axes))
<1> DEFINE T == ToSet(axes)
           R == KeyOrder(axes)
           n == Len(axes)
<1>1. n \in Nat /\ DOMAIN axes = 1 .. n /\ axes \in [1 .. n -> T]
  BY DEF HaveKeys
<1>0. n = Len(axes)
  OBVIOUS
<1> HIDE DEF n
<1>2. \A i \in 1 .. n : axes[i].key \in Int
  BY <1>1 DEF HaveKeys
<1>3. \A i, j \in 1 .. n : axes[i].key = axes[j].key => i = j
  BY <1>1 DEF HaveKeys
<1>4. T = {axes[i] : i \in 1 .. n}
  BY <1>1 DEF ToSet
<1>5. \A x \in T : x.key \in Int
  BY <1>2, <1>4
<1>6. \A x, y \in T : x.key = y.key => x = y
  BY <1>3, <1>4
<1>7. axes \in Bijection(1 .. n, T)
  BY <1>1, <1>3, <1>4 DEF Bijection, Injection, IsInjective, Surjection
<1>8. IsFiniteSet(T) /\ Cardinality(T) = n
  BY <1>1, <1>7, FS_Interval, FS_Bijection DEF ExistsBijection
<1>9. \A x, y \in T : <<x, y>> \in R <=> x.key < y.key
  BY DEF KeyOrder
<1>10. Orders(R, T)
  <2> HIDE DEF T, R
  <2>1. QED
    BY <1>5, <1>6, <1>9 DEF Orders
<1>11. \A sorted \in [1 .. n -> T] :
         Ascending(sorted, R, n, T) <=>
             \A i, j \in 1 .. n : i < j => sorted[i].key < sorted[j].key
  BY DEF Ascending, KeyOrder
<1>12. \E sorted : Ascending(sorted, R, n, T)
  BY <1>8, <1>10, Sortable
<1>13. \E sorted \in [1 .. n -> T] :
         \A i, j \in 1 .. n : i < j => sorted[i].key < sorted[j].key
  BY <1>11, <1>12 DEF Ascending
<1> DEFINE result == CHOOSE sorted \in [1 .. n -> T] :
               \A i, j \in 1 .. n : i < j => sorted[i].key < sorted[j].key
<1>14. /\ result \in [1 .. n -> T]
       /\ \A i, j \in 1 .. n : i < j => result[i].key < result[j].key
  BY <1>13
<1>15. SortedAxes(axes) = result
  BY <1>1 DEF SortedAxes
<1> HIDE DEF result
<1>16. Ascending(result, R, n, T)
  BY <1>11, <1>14
<1>17. /\ \A x \in T : \E k \in 1 .. n : result[k] = x
       /\ \A i, j \in 1 .. n : result[i] = result[j] => i = j
       /\ \A k \in 1 .. n : Cardinality(Below(result[k], R, T)) = k - 1
  BY <1>8, <1>10, <1>16, SortedRanks
<1> HIDE DEF T, R
<1>18. ASSUME NEW k \in 1 .. n
       PROVE  Cardinality({a \in T : a.key <= result[k].key}) = k
  <2> DEFINE x == result[k]
             B == Below(x, R, T)
  <2>1. x \in T
    BY <1>14
  <2>2. {a \in T : a.key <= x.key} = B \cup {x}
    BY <1>5, <1>6, <1>9, <2>1 DEF Below
  <2>3. x \notin B /\ B \in SUBSET T
    BY <1>5, <1>9, <2>1 DEF Below
  <2>4. IsFiniteSet(B) /\ Cardinality(B) = k - 1
    BY <1>8, <1>17, <2>3, FS_Subset
  <2> HIDE DEF x, B
  <2>5. Cardinality(B \cup {x}) = (k - 1) + 1
    BY <2>3, <2>4, FS_AddElement
  <2>6. (k - 1) + 1 = k
    OBVIOUS
  <2>7. Cardinality({a \in T : a.key <= x.key}) = k
    BY <2>2, <2>5, <2>6
  <2>8. QED
    BY <2>7 DEF x
<1>19. ASSUME NEW i \in 1 .. n
       PROVE  Ranked(axes, i) = result[i]
  <2>1. \A x \in T : Cardinality({a \in T : a.key <= x.key}) = i <=> x = result[i]
    <3>1. ASSUME NEW x \in T, Cardinality({a \in T : a.key <= x.key}) = i
          PROVE  x = result[i]
      <4>1. PICK k \in 1 .. n : result[k] = x
        BY <1>17
      <4>2. k = i
        BY <1>18, <3>1, <4>1
      <4>3. QED
        BY <4>1, <4>2
    <3>2. QED
      BY <1>18, <3>1
  <2>2. result[i] \in T
    BY <1>14
  <2>3. QED
    BY <2>1, <2>2 DEF Ranked, T
<1>20. \A i, j \in 1 .. n : result[i].key = result[j].key => i = j
  BY <1>6, <1>14, <1>17
<1>21. \E f : Rearranges(f, n) /\ \A i \in 1 .. n : result[i] = axes[f[i]]
  <2> DEFINE f == [i \in 1 .. n |-> CHOOSE j \in 1 .. n : axes[j] = result[i]]
  <2>1. \A i \in 1 .. n : f[i] \in 1 .. n /\ axes[f[i]] = result[i]
    BY <1>4, <1>14
  <2>2. f \in [1 .. n -> 1 .. n]
    BY <2>1
  <2> HIDE DEF f
  <2>3. \A i, j \in 1 .. n : f[i] = f[j] => i = j
    BY <1>17, <2>1
  <2>4. ASSUME NEW i \in 1 .. n
        PROVE  \E j \in 1 .. n : f[j] = i
    <3>1. axes[i] \in T
      BY <1>4
    <3>2. PICK j \in 1 .. n : result[j] = axes[i]
      BY <1>17, <3>1
    <3>3. axes[f[j]] = axes[i] /\ f[j] \in 1 .. n
      BY <2>1, <3>2
    <3>4. f[j] = i
      BY <1>3, <3>3
    <3>5. QED
      BY <3>4
  <2>5. Rearranges(f, n)
    BY <2>2, <2>3, <2>4 DEF Rearranges
  <2>6. QED
    BY <2>1, <2>5
<1>22. QED
  BY <1>0, <1>1, <1>14, <1>15, <1>19, <1>20, <1>21 DEF SortedAs, T

\* Two rearrangements side by side.
LEMMA RearrangesBoth ==
  ASSUME NEW n \in Nat, NEW m \in Nat, NEW f, NEW g, Rearranges(f, n), Rearranges(g, m)
  PROVE  Rearranges([i \in 1 .. n + m |-> IF i <= n THEN f[i] ELSE n + g[i - n]], n + m)
<1> DEFINE h == [i \in 1 .. n + m |-> IF i <= n THEN f[i] ELSE n + g[i - n]]
<1>1. \A i \in 1 .. n : f[i] \in 1 .. n
  BY DEF Rearranges
<1>2. \A i \in 1 .. m : g[i] \in 1 .. m
  BY DEF Rearranges
<1>3. \A i \in 1 .. n + m : \/ i \in 1 .. n /\ i <= n
                            \/ i - n \in 1 .. m /\ ~ (i <= n)
  OBVIOUS
<1>4. \A i \in 1 .. n + m : h[i] = IF i <= n THEN f[i] ELSE n + g[i - n]
  OBVIOUS
<1>5. \A i \in 1 .. n + m : h[i] \in 1 .. n + m /\ (i <= n <=> h[i] <= n)
  BY <1>1, <1>2, <1>3
<1>6. h \in [1 .. n + m -> 1 .. n + m]
  BY <1>5
<1> HIDE DEF h
<1>7. ASSUME NEW i \in 1 .. n + m, NEW j \in 1 .. n + m, h[i] = h[j]
      PROVE  i = j
  <2>1. CASE i <= n
    <3>1. j <= n /\ i \in 1 .. n /\ j \in 1 .. n
      BY <1>3, <1>5, <1>7, <2>1
    <3>2. f[i] = f[j]
      BY <1>4, <1>7, <2>1, <3>1
    <3>3. QED
      BY <3>1, <3>2 DEF Rearranges
  <2>2. CASE ~ (i <= n)
    <3>1. ~ (j <= n) /\ i - n \in 1 .. m /\ j - n \in 1 .. m
      BY <1>3, <1>5, <1>7, <2>2
    <3>2. n + g[i - n] = n + g[j - n]
      BY <1>4, <1>7, <2>2, <3>1
    <3>3. g[i - n] = g[j - n]
      BY <1>2, <3>1, <3>2
    <3>4. i - n = j - n
      BY <3>1, <3>3 DEF Rearranges
    <3>5. QED
      BY <3>4
  <2>3. QED
    BY <2>1, <2>2
<1>8. ASSUME NEW i \in 1 .. n + m
      PROVE  \E j \in 1 .. n + m : h[j] = i
  <2>1. CASE i <= n
    <3>1. PICK j \in 1 .. n : f[j] = i
      BY <2>1 DEF Rearranges
    <3>2. j \in 1 .. n + m /\ h[j] = i
      BY <1>4, <3>1
    <3>3. QED
      BY <3>2
  <2>2. CASE ~ (i <= n)
    <3>1. i - n \in 1 .. m
      BY <1>3, <2>2
    <3>2. PICK j \in 1 .. m : g[j] = i - n
      BY <3>1 DEF Rearranges
    <3>3. n + j \in 1 .. n + m /\ ~ (n + j <= n) /\ (n + j) - n = j
      OBVIOUS
    <3>4. h[n + j] = n + (i - n)
      BY <1>4, <3>2, <3>3
    <3>5. QED
      BY <3>3, <3>4
  <2>3. QED
    BY <2>1, <2>2
<1>9. QED
  BY <1>6, <1>7, <1>8 DEF Rearranges, h

\* What OrderDoesNotMatter says of one rearrangement.
RearrangedBy(f, v, w, n) == Rearranges(f, n) /\ \A i \in 1 .. n : v[i] = w[f[i]]

Reordered(op, r, n, w, v, f, p, q) ==
    /\ op \in Operations /\ r \in Nat /\ n \in Nat
    /\ w \in [1 .. n -> Nat] /\ v \in [1 .. n -> Nat] /\ RearrangedBy(f, v, w, n)
    /\ Totals(p, op, r, w, n) /\ Totals(q, op, r, v, n)

\* The total of a rearranged sequence is the same.
LEMMA TotalsOfRearranged ==
  ASSUME NEW op, NEW r, NEW n, NEW w, NEW v, NEW f, NEW p, NEW q,
         Reordered(op, r, n, w, v, f, p, q)
  PROVE  p[n] = q[n]
<1>0. /\ op \in Operations /\ r \in Nat /\ n \in Nat
      /\ w \in [1 .. n -> Nat] /\ v \in [1 .. n -> Nat] /\ RearrangedBy(f, v, w, n)
      /\ Totals(p, op, r, w, n) /\ Totals(q, op, r, v, n)
  BY DEF Reordered
<1>1. Rearranged(op, r, n)
  BY <1>0, OrderDoesNotMatter
<1>2. \A f0, p0, q0 :
        /\ Rearranges(f0, n) /\ \A i \in 1 .. n : v[i] = w[f0[i]]
        /\ Totals(p0, op, r, w, n) /\ Totals(q0, op, r, v, n)
        => p0[n] = q0[n]
  BY <1>0, <1>1, Zenon DEF Rearranged
<1>3. Rearranges(f, n) /\ \A i \in 1 .. n : v[i] = w[f[i]]
  BY <1>0 DEF RearrangedBy
<1>4. QED
  BY <1>0, <1>2, <1>3, Zenon

-------------------------------------------------------------------------------
(* The axes of a sweep, as they are walked. *)

Joins(z, x, y, n, m) ==
    /\ Len(z) = n + m /\ DOMAIN z = 1 .. n + m
    /\ \A i \in 1 .. n : z[i] = x[i]
    /\ \A i \in 1 .. m : z[n + i] = y[i]
    /\ \A i \in 1 .. n + m : z[i] = IF i <= n THEN x[i] ELSE y[i - n]

\* The places of two sequences in their concatenation.
LEMMA JoinIs ==
  ASSUME NEW A, NEW B, NEW n \in Nat, NEW m \in Nat, NEW x \in Seq(A), NEW y \in Seq(B),
         Len(x) = n, Len(y) = m
  PROVE  Joins(x \o y, x, y, n, m)
<1> DEFINE C == A \cup B
<1>1. x \in Seq(C) /\ y \in Seq(C)
  BY SeqMonotonic
<1> HIDE DEF C
<1>2. /\ x \o y \in Seq(C) /\ Len(x \o y) = n + m
      /\ \A i \in 1 .. n + m : (x \o y)[i] = IF i <= n THEN x[i] ELSE y[i - n]
  BY <1>1, ConcatProperties
<1>3. DOMAIN (x \o y) = 1 .. n + m
  BY <1>2
<1>4. \A i \in 1 .. n : i \in 1 .. n + m /\ i <= n
  OBVIOUS
<1>5. \A i \in 1 .. m : n + i \in 1 .. n + m /\ ~ (n + i <= n) /\ (n + i) - n = i
  OBVIOUS
<1> DEFINE z == x \o y
<1>6. \A i \in 1 .. n : z[i] = x[i]
  BY <1>2, <1>4
<1>7. \A i \in 1 .. m : z[n + i] = y[i]
  BY <1>2, <1>5
<1>8. QED
  BY <1>2, <1>3, <1>6, <1>7 DEF Joins

\* The values of the axes of s: fragments and request parameters.
Values(s) == Seq(STRING) \cup UNION {ToSet(axis.values) : axis \in ToSet(s.requestParams)}

Walked(s) == SortedAxes(s.serverArgs) \o SortedAxes(s.requestParams)

Setting(s, axes, n, m) ==
    /\ n \in Nat /\ m \in Nat
    /\ SortedAs(SortedAxes(s.serverArgs), s.serverArgs, n)
    /\ SortedAs(SortedAxes(s.requestParams), s.requestParams, m)
    /\ axes = Walked(s)
    /\ Joins(axes, SortedAxes(s.serverArgs), SortedAxes(s.requestParams), n, m)
    /\ Joins(Axes(s), s.serverArgs, s.requestParams, n, m)
    /\ AxesOk(axes, Values(s), n + m)
    /\ AxesOk(Axes(s), Values(s), n + m)
    /\ \A i \in 1 .. n : /\ axes[i].values \in Seq(Seq(STRING))
                         /\ s.serverArgs[i].values \in Seq(Seq(STRING))

\* Sorted axes are as many as before.
LEMMA SortedIsSeq ==
  ASSUME NEW sorted, NEW axes, NEW n, SortedAs(sorted, axes, n)
  PROVE  sorted \in Seq(ToSet(axes)) /\ Len(sorted) = n
<1> DEFINE T == ToSet(axes)
<1>1. n \in Nat /\ sorted \in [1 .. n -> T]
  BY DEF SortedAs
<1> HIDE DEF T
<1>2. sorted \in Seq(T) /\ Len(sorted) = n
  BY <1>1
<1>3. QED
  BY <1>2 DEF T

\* Every sweep the schema lets pass is such a setting.
LEMMA TheSetting ==
  ASSUME NEW s \in Sweeps
  PROVE  Setting(s, Walked(s), Len(s.serverArgs), Len(s.requestParams))
<1> DEFINE n == Len(s.serverArgs)
           m == Len(s.requestParams)
           sa == SortedAxes(s.serverArgs)
           pa == SortedAxes(s.requestParams)
           V == Values(s)
<1>1. /\ HaveKeys(s.serverArgs) /\ HaveKeys(s.requestParams)
      /\ \A i \in DOMAIN s.serverArgs : s.serverArgs[i].values \in Seq(Seq(STRING))
  BY SweepPlanAssumption
<1>2. SortedAs(sa, s.serverArgs, n) /\ SortedAs(pa, s.requestParams, m)
  BY <1>1, AxesAreSorted
<1>3. /\ n \in Nat /\ DOMAIN s.serverArgs = 1 .. n
      /\ m \in Nat /\ DOMAIN s.requestParams = 1 .. m
  BY <1>2 DEF SortedAs
<1>4. /\ sa \in Seq(ToSet(s.serverArgs)) /\ Len(sa) = n
      /\ pa \in Seq(ToSet(s.requestParams)) /\ Len(pa) = m
  BY <1>2, SortedIsSeq
<1>5. Joins(Walked(s), sa, pa, n, m)
  BY <1>3, <1>4, JoinIs DEF Walked
<1>6. Joins(Axes(s), s.serverArgs, s.requestParams, n, m)
  <2>1. s.serverArgs \in Seq(ToSet(s.serverArgs)) /\ s.requestParams \in Seq(ToSet(s.requestParams))
    BY <1>1 DEF HaveKeys
  <2>2. QED
    BY <1>3, <2>1, JoinIs DEF Axes
<1>7. \A a \in ToSet(s.serverArgs) : a.values \in Seq(Seq(STRING)) /\ a.values \in Seq(V)
  <2>1. \A i \in 1 .. n : s.serverArgs[i].values \in Seq(Seq(STRING))
    BY <1>1, <1>3
  <2>2. Seq(STRING) \subseteq V
    BY DEF Values
  <2>3. \A x \in Seq(Seq(STRING)) : x \in Seq(V)
    BY <2>2, SeqMonotonic
  <2>4. ToSet(s.serverArgs) = {s.serverArgs[i] : i \in 1 .. n}
    BY <1>3 DEF ToSet
  <2>5. QED
    BY <2>1, <2>3, <2>4
<1>8. \A a \in ToSet(s.requestParams) : a.values \in Seq(V)
  <2>1. \A i \in 1 .. m : s.requestParams[i].values \in Seq(ToSet(s.requestParams[i].values))
    BY <1>1, <1>3 DEF HaveKeys
  <2>2. ToSet(s.requestParams) = {s.requestParams[i] : i \in 1 .. m}
    BY <1>3 DEF ToSet
  <2>3. SUFFICES ASSUME NEW a \in ToSet(s.requestParams)
                 PROVE  a.values \in Seq(V)
    OBVIOUS
  <2>4. a.values \in Seq(ToSet(a.values))
    BY <2>1, <2>2, <2>3
  <2>5. ToSet(a.values) \subseteq V
    BY <2>3 DEF Values
  <2>6. QED
    BY <2>4, <2>5, SeqMonotonic
<1>9. \A i \in 1 .. n : sa[i] \in ToSet(s.serverArgs) /\ s.serverArgs[i] \in ToSet(s.serverArgs)
  <2>1. \A i \in 1 .. n : sa[i] \in ToSet(s.serverArgs)
    BY <1>2 DEF SortedAs
  <2>2. QED
    BY <1>3, <2>1 DEF ToSet
<1>10. \A i \in 1 .. m : pa[i] \in ToSet(s.requestParams) /\ s.requestParams[i] \in ToSet(s.requestParams)
  <2>1. \A i \in 1 .. m : pa[i] \in ToSet(s.requestParams)
    BY <1>2 DEF SortedAs
  <2>2. QED
    BY <1>3, <2>1 DEF ToSet
<1> DEFINE axes == Walked(s)
<1> HIDE DEF n, m, sa, pa, V, axes
<1>11. \A i \in 1 .. n + m : (i \in 1 .. n /\ i <= n) \/ (i - n \in 1 .. m /\ ~ (i <= n))
  BY <1>3
<1>12. \A i \in 1 .. n + m : axes[i].values \in Seq(V) /\ Axes(s)[i].values \in Seq(V)
  <2>1. SUFFICES ASSUME NEW i \in 1 .. n + m
                 PROVE  axes[i].values \in Seq(V) /\ Axes(s)[i].values \in Seq(V)
    OBVIOUS
  <2>2. /\ axes[i] = IF i <= n THEN sa[i] ELSE pa[i - n]
        /\ Axes(s)[i] = IF i <= n THEN s.serverArgs[i] ELSE s.requestParams[i - n]
    BY <1>5, <1>6, <2>1 DEF Joins, axes
  <2>3. CASE i \in 1 .. n /\ i <= n
    BY <1>7, <1>9, <2>2, <2>3
  <2>4. CASE i - n \in 1 .. m /\ ~ (i <= n)
    BY <1>8, <1>10, <2>2, <2>4
  <2>5. QED
    BY <1>11, <2>1, <2>3, <2>4
<1>13. \A i \in 1 .. n : /\ axes[i].values \in Seq(Seq(STRING))
                         /\ s.serverArgs[i].values \in Seq(Seq(STRING))
  <2>1. \A i \in 1 .. n : axes[i] = sa[i]
    BY <1>5 DEF Joins, axes
  <2>2. QED
    BY <1>7, <1>9, <2>1
<1>14. AxesOk(axes, V, n + m) /\ AxesOk(Axes(s), V, n + m)
  <2>1. n + m \in Nat
    BY <1>3
  <2>2. Len(axes) = n + m /\ Len(Axes(s)) = n + m
    BY <1>5, <1>6 DEF Joins, axes
  <2>3. QED
    BY <1>12, <2>1, <2>2 DEF AxesOk
<1>15. QED
  BY <1>2, <1>3, <1>5, <1>6, <1>13, <1>14 DEF Setting, axes, n, m, sa, pa, V

\* The number of the walked axes' values, axis by axis.
WalkedLengths(axes, n) == [i \in 1 .. n |-> Len(axes[i].values)]

\* Every axis has a length.
LEMMA LengthsAreNat ==
  ASSUME NEW V, NEW n, NEW axes, AxesOk(axes, V, n)
  PROVE  WalkedLengths(axes, n) \in [1 .. n -> Nat]
<1>1. \A i \in 1 .. n : Len(axes[i].values) \in Nat
  BY DEF AxesOk
<1>2. QED
  BY <1>1 DEF WalkedLengths

\* The order of the walk is a rearrangement of the order of the request.
LEMMA WalkedIsRearranged ==
  ASSUME NEW s, NEW axes, NEW n, NEW m, Setting(s, axes, n, m)
  PROVE  \E h : Rearranges(h, n + m) /\ \A i \in 1 .. n + m : axes[i] = Axes(s)[h[i]]
<1>1. n \in Nat /\ m \in Nat
  BY DEF Setting
<1> DEFINE sa == SortedAxes(s.serverArgs)
           pa == SortedAxes(s.requestParams)
<1>2. PICK f : Rearranges(f, n) /\ \A i \in 1 .. n : sa[i] = s.serverArgs[f[i]]
  BY DEF Setting, SortedAs
<1>3. PICK g : Rearranges(g, m) /\ \A i \in 1 .. m : pa[i] = s.requestParams[g[i]]
  BY DEF Setting, SortedAs
<1> DEFINE h == [i \in 1 .. n + m |-> IF i <= n THEN f[i] ELSE n + g[i - n]]
<1>4. Rearranges(h, n + m)
  BY <1>1, <1>2, <1>3, RearrangesBoth
<1>5. \A i \in 1 .. n + m : h[i] = IF i <= n THEN f[i] ELSE n + g[i - n]
  OBVIOUS
<1>6. \A i \in 1 .. n + m : (i \in 1 .. n /\ i <= n) \/ (i - n \in 1 .. m /\ ~ (i <= n))
  BY <1>1
<1>7. Joins(axes, sa, pa, n, m) /\ Joins(Axes(s), s.serverArgs, s.requestParams, n, m)
  BY DEF Setting
<1> HIDE DEF h, sa, pa
<1>8. ASSUME NEW i \in 1 .. n + m
      PROVE  axes[i] = Axes(s)[h[i]]
  <2>1. axes[i] = IF i <= n THEN sa[i] ELSE pa[i - n]
    BY <1>7 DEF Joins
  <2>2. CASE i \in 1 .. n /\ i <= n
    <3>1. h[i] = f[i] /\ f[i] \in 1 .. n /\ axes[i] = s.serverArgs[f[i]]
      BY <1>2, <1>5, <2>1, <2>2 DEF Rearranges
    <3>2. Axes(s)[f[i]] = s.serverArgs[f[i]]
      BY <1>7, <3>1 DEF Joins
    <3>3. QED
      BY <3>1, <3>2
  <2>3. CASE i - n \in 1 .. m /\ ~ (i <= n)
    <3>1. h[i] = n + g[i - n] /\ g[i - n] \in 1 .. m /\ axes[i] = s.requestParams[g[i - n]]
      BY <1>3, <1>5, <2>1, <2>3 DEF Rearranges
    <3>2. Axes(s)[n + g[i - n]] = s.requestParams[g[i - n]]
      BY <1>7, <3>1 DEF Joins
    <3>3. QED
      BY <3>1, <3>2
  <2>4. QED
    BY <1>6, <2>2, <2>3
<1>9. QED
  BY <1>4, <1>8

\* So the product of the request is the product of the walk.
LEMMA ProductOfTheWalk ==
  ASSUME NEW s, NEW axes, NEW n, NEW m, Setting(s, axes, n, m), NEW r \in Nat,
         NEW p, Totals(p, TimesOp, r, WalkedLengths(axes, n + m), n + m)
  PROVE  Lengths(s) \in Seq(Nat) /\ Len(Lengths(s)) = n + m /\ Times(Lengths(s), r) = p[n + m]
<1> DEFINE k == n + m
           v == Lengths(s)
           w == WalkedLengths(axes, k)
<1>1. k \in Nat /\ AxesOk(axes, Values(s), k) /\ AxesOk(Axes(s), Values(s), k)
      /\ DOMAIN Axes(s) = 1 .. k
  BY DEF Setting, Joins
<1>2. w \in [1 .. k -> Nat]
  BY <1>1, LengthsAreNat
<1>3. v = WalkedLengths(Axes(s), k)
  BY <1>1 DEF Lengths, WalkedLengths
<1>4. v \in [1 .. k -> Nat]
  BY <1>1, <1>3, LengthsAreNat
<1>5. PICK h : Rearranges(h, k) /\ \A i \in 1 .. k : axes[i] = Axes(s)[h[i]]
  BY WalkedIsRearranged
<1>6. \A i \in 1 .. k : h[i] \in 1 .. k
  BY <1>5 DEF Rearranges
<1>7. \A i \in 1 .. k : w[i] = v[h[i]]
  BY <1>3, <1>5, <1>6 DEF WalkedLengths
<1> HIDE DEF k, v, w
<1>8. PICK q : Totals(q, TimesOp, r, v, k)
  BY <1>1, <1>4, TheOperations, TotalsExist
<1>9. Totals(p, TimesOp, r, w, k)
  BY DEF k, w
<1>10. q[k] = p[k]
  <2>1. RearrangedBy(h, w, v, k)
    BY <1>5, <1>7 DEF RearrangedBy
  <2>2. TimesOp \in Operations
    BY TheOperations
  <2>3. Reordered(TimesOp, r, k, v, w, h, q, p)
    BY <1>1, <1>2, <1>4, <1>8, <1>9, <2>1, <2>2 DEF Reordered
  <2>4. QED
    BY <2>3, TotalsOfRearranged
<1>11. v \in Seq(Nat) /\ Len(v) = k
  BY <1>1, <1>4
<1>12. Times(v, r) = q[k]
  BY <1>8, <1>11, TimesIsTotal
<1>13. QED
  BY <1>10, <1>11, <1>12 DEF k, v

\* The longest fragments, axis by axis.
LongestOf(axes, n) == [i \in 1 .. n |-> Longest(axes[i].values)]

ArgsFunction(f, s) ==
    f = [i \in 0 .. Len(s.serverArgs) |->
            IF i = 0 THEN 0 ELSE f[i - 1] + Longest(s.serverArgs[i].values)]

\* computeMaxSweepAdditionalServerArgs, in the order of the walk.
LEMMA AddedArgs ==
  ASSUME NEW s, NEW axes, NEW n, NEW m, Setting(s, axes, n, m),
         NEW p, Totals(p, SumOp, 0, LongestOf(axes, n), n)
  PROVE  ComputeMaxSweepAdditionalServerArgs(s) = p[n]
<1> DEFINE v == LongestOf(s.serverArgs, n)
           w == LongestOf(axes, n)
           sa == SortedAxes(s.serverArgs)
<1>1. n \in Nat /\ Len(s.serverArgs) = n
  BY DEF Setting, SortedAs
<1>2. \A i \in 1 .. n : Longest(axes[i].values) \in Nat /\ Longest(s.serverArgs[i].values) \in Nat
  <2>1. \A i \in 1 .. n : axes[i].values \in Seq(Seq(STRING))
                          /\ s.serverArgs[i].values \in Seq(Seq(STRING))
    BY DEF Setting
  <2>2. QED
    BY <2>1, LongestIs
<1>3. v \in [1 .. n -> Nat] /\ w \in [1 .. n -> Nat]
  BY <1>2 DEF LongestOf
<1>4. \A i \in 1 .. n : v[i] = Longest(s.serverArgs[i].values) /\ w[i] = Longest(axes[i].values)
  BY DEF LongestOf
<1>5. PICK f : Rearranges(f, n) /\ \A i \in 1 .. n : sa[i] = s.serverArgs[f[i]]
  BY DEF Setting, SortedAs
<1>6. \A i \in 1 .. n : axes[i] = sa[i]
  BY DEF Setting, Joins
<1>7. RearrangedBy(f, w, v, n)
  <2>1. \A i \in 1 .. n : f[i] \in 1 .. n
    BY <1>5 DEF Rearranges
  <2> HIDE DEF v, w
  <2>2. \A i \in 1 .. n : w[i] = v[f[i]]
    BY <1>4, <1>5, <1>6, <2>1
  <2>3. QED
    BY <1>5, <2>2 DEF RearrangedBy
<1> HIDE DEF v, w
<1>8. SumOp \in Operations /\ 0 \in Nat
  BY TheOperations
<1>9. PICK q : Totals(q, SumOp, 0, v, n)
  BY <1>1, <1>3, <1>8, TotalsExist
<1>10. Totals(p, SumOp, 0, w, n)
  BY DEF w
<1>11. q[n] = p[n]
  <2>1. Reordered(SumOp, 0, n, v, w, f, q, p)
    BY <1>1, <1>3, <1>7, <1>8, <1>9, <1>10 DEF Reordered
  <2>2. QED
    BY <2>1, TotalsOfRearranged
<1>12. /\ q \in [0 .. n -> Nat] /\ q[0] = 0
       /\ \A i \in 1 .. n : q[i] = SumOp[<<q[i - 1], v[i]>>]
  BY <1>9 DEF Totals
<1>13. \A i \in 1 .. n : q[i] = q[i - 1] + Longest(s.serverArgs[i].values)
  <2>1. ASSUME NEW i \in 1 .. n
        PROVE  q[i] = q[i - 1] + Longest(s.serverArgs[i].values)
    <3>1. q[i - 1] \in Nat /\ v[i] \in Nat
      BY <1>1, <1>3, <1>12, Neighbours
    <3>2. q[i] = q[i - 1] + v[i]
      BY <1>12, <3>1, TheOperations
    <3>3. QED
      BY <1>4, <3>2
  <2>2. QED
    BY <2>1
<1>14. ArgsFunction(q, s)
  <2>1. q = [i \in 0 .. n |-> q[i]]
    BY <1>12
  <2>2. \A i \in 0 .. n : q[i] = IF i = 0 THEN 0 ELSE q[i - 1] + Longest(s.serverArgs[i].values)
    <3>1. \A i \in 0 .. n : i = 0 \/ i \in 1 .. n
      BY <1>1
    <3>2. QED
      BY <1>12, <1>13, <3>1
  <2>3. QED
    BY <1>1, <2>1, <2>2 DEF ArgsFunction
<1> DEFINE g == CHOOSE x : ArgsFunction(x, s)
<1>15. ArgsFunction(g, s)
  BY <1>14
<1>16. ComputeMaxSweepAdditionalServerArgs(s) = g[n]
  BY <1>1 DEF ComputeMaxSweepAdditionalServerArgs, ArgsFunction
<1> HIDE DEF g
<1> DEFINE B == {i \in 0 .. n : g[i] = q[i]}
<1>17. 0 \in B
  BY <1>1, <1>12, <1>15 DEF ArgsFunction
<1>18. ASSUME NEW i \in 1 .. n, i - 1 \in B
       PROVE  i \in B
  <2>1. i \in 0 .. n /\ i # 0 /\ g[i - 1] = q[i - 1]
    BY <1>18
  <2>2. g[i] = g[i - 1] + Longest(s.serverArgs[i].values)
    BY <1>1, <1>15, <2>1 DEF ArgsFunction
  <2>3. g[i] = q[i]
    BY <1>13, <2>1, <2>2
  <2>4. QED
    BY <2>1, <2>3
<1> HIDE DEF B
<1>19. \A i \in 0 .. n : i \in B
  BY <1>1, <1>17, <1>18, UpTo
<1>20. g[n] = q[n]
  BY <1>1, <1>19 DEF B
<1>21. QED
  BY <1>11, <1>16, <1>20

-------------------------------------------------------------------------------
(* The expansion. *)

ExpandedTo(y, s, args, walk) ==
    /\ Len(y) \in Nat /\ DOMAIN y = 1 .. Len(y)
    /\ Len(y) = Len(walk) * s.repetitions
    /\ \A i \in 1 .. Len(walk), j \in 1 .. s.repetitions :
          /\ (i - 1) * s.repetitions + j \in 1 .. Len(y)
          /\ y[(i - 1) * s.repetitions + j] =
                CaseOf(args, SortedAxes(s.serverArgs), SortedAxes(s.requestParams), walk[i], j)

\* expandSweepCases emits a block of repetitions for every selection.
LEMMA ExpandIs ==
  ASSUME NEW s, s.repetitions \in Nat, NEW args, NEW U, WalkAxes(Walked(s)) \in Seq(U)
  PROVE  ExpandedTo(ExpandSweepCases(s, args), s, args, WalkAxes(Walked(s)))
<1> DEFINE walk == WalkAxes(Walked(s))
           n == Len(walk)
           L == s.repetitions
           C(i, j) == CaseOf(args, SortedAxes(s.serverArgs), SortedAxes(s.requestParams), walk[i], j)
           T == {C(i, j) : i \in 1 .. n, j \in 1 .. L}
           Block(i) == [j \in 1 .. L |-> C(i, j)]
           ss == [i \in 1 .. n |-> Block(i)]
           y == FlattenSeq(ss)
<1>1. n \in Nat /\ DOMAIN walk = 1 .. n
  OBVIOUS
<1>2. ExpandSweepCases(s, args) = y
  BY <1>1 DEF ExpandSweepCases, Walked
<1>3. \A i \in 1 .. n, j \in 1 .. L : C(i, j) \in T
  OBVIOUS
<1>0. n = Len(walk) /\ L = s.repetitions /\ L \in Nat
  OBVIOUS
<1> HIDE DEF n, L, walk, T
<1>4. \A i \in 1 .. n : Block(i) \in Seq(T) /\ Len(Block(i)) = L
  <2>1. ASSUME NEW i \in 1 .. n
        PROVE  Block(i) \in Seq(T) /\ Len(Block(i)) = L
    <3> HIDE DEF C
    <3>1. Block(i) \in [1 .. L -> T]
      BY <1>3
    <3> HIDE DEF Block
    <3>2. QED
      BY <1>0, <3>1
  <2>2. QED
    BY <2>1
<1>5. \A i \in 1 .. n, j \in 1 .. L : Block(i)[j] = C(i, j)
  OBVIOUS
<1> HIDE DEF Block, C
<1>6. ss \in Seq(Seq(T)) /\ Len(ss) = n /\ \A i \in 1 .. n : ss[i] = Block(i)
  <2>1. ss \in [1 .. n -> Seq(T)]
    BY <1>4
  <2>2. \A i \in 1 .. n : ss[i] = Block(i)
    OBVIOUS
  <2> HIDE DEF ss
  <2>3. QED
    BY <1>1, <2>1, <2>2
<1> HIDE DEF ss
<1>7. \A i \in 1 .. Len(ss) : Len(ss[i]) = L
  BY <1>4, <1>6
<1>8. /\ y \in Seq(T)
      /\ Len(y) = Len(ss) * L
      /\ \A i \in 1 .. Len(ss), j \in 1 .. L :
            /\ (i - 1) * L + j \in 1 .. Len(ss) * L
            /\ y[(i - 1) * L + j] = ss[i][j]
  <2>1. ss \in Seq(Seq(T))
    BY <1>6
  <2>2. L \in Nat
    BY <1>0
  <2>3. QED
    BY <1>7, <2>1, <2>2, FlattenEqual
<1> HIDE DEF y
<1>9. Len(y) \in Nat /\ DOMAIN y = 1 .. Len(y) /\ Len(y) = n * L
  BY <1>6, <1>8
<1>10. \A i \in 1 .. n, j \in 1 .. L : ss[i][j] = C(i, j)
  <2>1. \A i \in 1 .. n : ss[i] = Block(i)
    BY <1>6
  <2>2. QED
    BY <1>5, <2>1
<1>11. \A i \in 1 .. n, j \in 1 .. L : (i - 1) * L + j \in 1 .. Len(y) /\ y[(i - 1) * L + j] = C(i, j)
  <2>1. Len(ss) = n
    BY <1>6
  <2>2. \A i \in 1 .. n, j \in 1 .. L : (i - 1) * L + j \in 1 .. Len(y) /\ y[(i - 1) * L + j] = ss[i][j]
    BY <1>8, <2>1
  <2>3. QED
    BY <1>10, <2>2
<1>12. ExpandedTo(y, s, args, walk)
  BY <1>0, <1>9, <1>11 DEF ExpandedTo, C
<1>13. QED
  BY <1>2, <1>12 DEF walk

\* The same, by places.
CaseAt(y, s, args, walk, k) ==
    /\ BlockOf(k, s.repetitions) \in 1 .. Len(walk)
    /\ InBlock(k, s.repetitions) \in 1 .. s.repetitions
    /\ y[k] = CaseOf(args, SortedAxes(s.serverArgs), SortedAxes(s.requestParams),
                     walk[BlockOf(k, s.repetitions)], InBlock(k, s.repetitions))

\* The k-th case, by its selection and its repetition.
LEMMA ExpandPlaces ==
  ASSUME NEW s, s.repetitions \in Nat, NEW args, NEW U, NEW walk \in Seq(U), NEW y,
         ExpandedTo(y, s, args, walk), NEW k \in 1 .. Len(y)
  PROVE  CaseAt(y, s, args, walk, k)
<1> DEFINE n == Len(walk)
           L == s.repetitions
           C(i, j) == CaseOf(args, SortedAxes(s.serverArgs), SortedAxes(s.requestParams), walk[i], j)
           a == BlockOf(k, L)
           b == InBlock(k, L)
<1>1. n \in Nat /\ L \in Nat
  OBVIOUS
<1>2. /\ Len(y) = n * L
      /\ \A i \in 1 .. n, j \in 1 .. L : y[(i - 1) * L + j] = C(i, j)
  BY DEF ExpandedTo
<1> HIDE DEF n, L, C
<1>3. k \in 1 .. n * L
  BY <1>2
<1>4. HasPlace(k, n, L)
  BY <1>1, <1>3, FlattenPlaces
<1>5. a \in 1 .. n /\ b \in 1 .. L /\ (a - 1) * L + b = k
  BY <1>4 DEF HasPlace
<1> HIDE DEF a, b
<1>6. y[k] = C(a, b)
  BY <1>2, <1>5
<1>7. QED
  BY <1>5, <1>6 DEF a, b, n, L, C, CaseAt

-------------------------------------------------------------------------------
(* The plan. *)

\* The product is known to the plan.
LEMMA ThePlan ==
  ASSUME NEW s \in Sweeps
  PROVE  LET axes == Walked(s)
             n    == Len(s.serverArgs)
             m    == Len(s.requestParams)
         IN  /\ Setting(s, axes, n, m)
             /\ Product(s) \in Nat
             /\ \E f : Walks(f, axes, Values(s), n + m) /\ WalkAxes(axes) = f[n + m]
             /\ WalkAxes(axes) \in Seq(Seq(Values(s)))
             /\ Len(WalkAxes(axes)) * s.repetitions = Product(s)
<1> DEFINE axes == Walked(s)
           n == Len(s.serverArgs)
           m == Len(s.requestParams)
           k == n + m
           r == s.repetitions
           V == Values(s)
           w == WalkedLengths(axes, k)
<1>1. Setting(s, axes, n, m)
  BY TheSetting
<1>2. r \in Nat
  BY SweepPlanAssumption
<1> HIDE DEF axes, n, m
<1>3. n + m \in Nat /\ AxesOk(axes, V, n + m)
  BY <1>1 DEF Setting
<1>4. w \in [1 .. k -> Nat]
  BY <1>3, LengthsAreNat
<1>5. PICK f : Walks(f, axes, V, k) /\ WalkAxes(axes) = f[k]
  BY <1>3, WalkSteps
<1>6. 1 \in Nat /\ TimesOp \in Operations
  BY TheOperations
<1>7. PICK p : Totals(p, TimesOp, 1, w, k)
  BY <1>3, <1>4, <1>6, TotalsExist
<1>8. PICK q : Totals(q, TimesOp, r, w, k)
  BY <1>2, <1>3, <1>4, <1>6, TotalsExist
<1>9. p[k] \in Nat /\ q[k] = r * p[k]
  <2>1. Scaling(p, q, w, r, k)
    BY <1>2, <1>3, <1>4, <1>7, <1>8 DEF Scaling
  <2>2. QED
    BY <2>1, TotalScales
<1>10. \A i \in 1 .. k : w[i] = Len(axes[i].values)
  BY DEF WalkedLengths
<1>11. Len(f[k]) = p[k]
  <2>1. Walks(f, axes, V, k)
    BY <1>5
  <2>2. \A i \in 0 .. k : Len(f[i]) = p[i]
    BY <1>3, <1>7, <1>10, <2>1, WalkLength
  <2>3. QED
    BY <1>3, <2>2
<1>12. Product(s) = q[k]
  BY <1>1, <1>2, <1>8, ProductOfTheWalk DEF Product
<1>13. f[k] \in Seq(Seq(V))
  BY <1>3, <1>5, Neighbours DEF Walks
<1>14. Len(WalkAxes(axes)) * r = Product(s) /\ Product(s) \in Nat
  BY <1>2, <1>5, <1>9, <1>11, <1>12, Products
<1>15. QED
  BY <1>1, <1>5, <1>13, <1>14 DEF axes, n, m

\* expandSweepCases emits as many cases as the product says.
LEMMA ExpandedLength ==
  ASSUME NEW s \in Sweeps, NEW args
  PROVE  /\ ExpandedTo(ExpandSweepCases(s, args), s, args, WalkAxes(Walked(s)))
         /\ Len(ExpandSweepCases(s, args)) = Product(s)
<1>1. s.repetitions \in Nat
  BY SweepPlanAssumption
<1>2. /\ WalkAxes(Walked(s)) \in Seq(Seq(Values(s)))
      /\ Len(WalkAxes(Walked(s))) * s.repetitions = Product(s)
  BY ThePlan
<1>3. ExpandedTo(ExpandSweepCases(s, args), s, args, WalkAxes(Walked(s)))
  BY <1>1, <1>2, ExpandIs
<1>4. QED
  BY <1>2, <1>3 DEF ExpandedTo

\* A sweep without an issue has values on every axis.
LEMMA EveryAxisHasValues ==
  ASSUME NEW s, NEW axes, NEW n, NEW m, Setting(s, axes, n, m), ~ HasIssue(s)
  PROVE  /\ \A i \in 1 .. n + m : Len(axes[i].values) \in Nat \ {0}
         /\ Lengths(s) \in Seq(Nat \ {0})
<1> DEFINE k == n + m
<1>1. /\ k \in Nat /\ AxesOk(axes, Values(s), k) /\ AxesOk(Axes(s), Values(s), k)
      /\ DOMAIN Axes(s) = 1 .. k
  BY DEF Setting, Joins
<1>2. Lengths(s) = WalkedLengths(Axes(s), k)
  BY <1>1 DEF Lengths, WalkedLengths
<1>3. \A i \in 1 .. k : Len(Axes(s)[i].values) \in Nat
  BY <1>1 DEF AxesOk
<1>4. DOMAIN Lengths(s) = 1 .. k /\ \A i \in 1 .. k : Lengths(s)[i] = Len(Axes(s)[i].values)
  BY <1>2 DEF WalkedLengths
<1>5. \A i \in 1 .. k : Lengths(s)[i] # 0
  BY <1>4 DEF HasIssue
<1>6. \A i \in 1 .. k : Len(Axes(s)[i].values) \in Nat \ {0}
  BY <1>3, <1>4, <1>5
<1>7. PICK h : Rearranges(h, k) /\ \A i \in 1 .. k : axes[i] = Axes(s)[h[i]]
  BY WalkedIsRearranged
<1>8. \A i \in 1 .. k : Len(axes[i].values) \in Nat \ {0}
  BY <1>6, <1>7 DEF Rearranges
<1>9. Lengths(s) \in [1 .. k -> Nat \ {0}]
  BY <1>2, <1>6 DEF WalkedLengths
<1> HIDE DEF k
<1>10. Lengths(s) \in Seq(Nat \ {0})
  BY <1>1, <1>9
<1>11. QED
  BY <1>8, <1>10 DEF k

Verdict(s) == ValidateAndPlanSweepConfig(s)

\* validateAndPlanSweepConfig plans the true number, and finds a sweep too
\* large only when it is.
LEMMA TheVerdict ==
  ASSUME NEW s \in Sweeps
  PROVE  /\ Verdict(s) = "ok" => /\ PlanOf(s) = Product(s) /\ ~ HasIssue(s)
                                 /\ Product(s) <= s.maxCases /\ s.maxCases <= MaxSweepCases
         /\ Verdict(s) = "VALIDATION_SWEEP_TOO_LARGE" =>
               ~ (Product(s) <= s.maxCases /\ s.maxCases <= MaxSweepCases)
<1> DEFINE max == Smaller(s.maxCases, MaxSweepCases)
<1>1. /\ s.maxCases \in Nat /\ MaxSweepCases \in Nat /\ s.repetitions \in Nat \ {0}
  BY SweepPlanAssumption
<1>2. Product(s) \in Nat /\ Setting(s, Walked(s), Len(s.serverArgs), Len(s.requestParams))
  BY ThePlan
<1>3. max \in Nat /\ (s.maxCases <= MaxSweepCases => max = s.maxCases)
  BY <1>1 DEF Smaller
<1> HIDE DEF max
<1>4. ~ HasIssue(s) => PlanOf(s) = Bounded(Product(s), max)
  <2>1. SUFFICES ASSUME ~ HasIssue(s)
                 PROVE  PlanOf(s) = Bounded(Product(s), max)
    OBVIOUS
  <2>2. Lengths(s) \in Seq(Nat \ {0})
    BY <1>2, <2>1, EveryAxisHasValues
  <2>3. ComputePlannedCases(Lengths(s), s.repetitions, max) = Bounded(Times(Lengths(s), s.repetitions), max)
    BY <1>1, <1>3, <2>2, CountIsBounded
  <2>4. QED
    BY <2>3 DEF PlanOf, Product, max
<1> DEFINE P == Product(s)
           M == s.maxCases
<1>5. Verdict(s) = "ok" => /\ ~ HasIssue(s) /\ M <= MaxSweepCases
                           /\ ~ (PlanOf(s) > M \/ PlanOf(s) > MaxSweepCases)
  BY <1>1 DEF Verdict, ValidateAndPlanSweepConfig
<1>6. Verdict(s) = "VALIDATION_SWEEP_TOO_LARGE" =>
        \/ M > MaxSweepCases
        \/ /\ ~ HasIssue(s) /\ M <= MaxSweepCases
           /\ PlanOf(s) > M \/ PlanOf(s) > MaxSweepCases
  BY <1>1 DEF Verdict, ValidateAndPlanSweepConfig
<1> HIDE DEF P, M
<1>7. \A x, y \in Nat : /\ Bounded(x, y) > y <=> x > y
                        /\ ~ (x > y) => Bounded(x, y) = x
  BY DEF Bounded
<1>8. P \in Nat /\ M \in Nat
  BY <1>1, <1>2 DEF P, M
<1>9. ASSUME Verdict(s) = "ok"
      PROVE  PlanOf(s) = P /\ ~ HasIssue(s) /\ P <= M /\ M <= MaxSweepCases
  <2>1. max = M /\ PlanOf(s) = Bounded(P, M) /\ ~ HasIssue(s) /\ M <= MaxSweepCases
    BY <1>3, <1>4, <1>5, <1>9 DEF P, M
  <2>2. ~ (Bounded(P, M) > M)
    BY <1>5, <1>9, <2>1
  <2>3. QED
    BY <1>7, <1>8, <2>1, <2>2
<1>10. ASSUME Verdict(s) = "VALIDATION_SWEEP_TOO_LARGE", P <= M, M <= MaxSweepCases
       PROVE  FALSE
  <2>1. ~ HasIssue(s) /\ (PlanOf(s) > M \/ PlanOf(s) > MaxSweepCases)
    BY <1>1, <1>6, <1>8, <1>10
  <2>2. max = M /\ PlanOf(s) = Bounded(P, M)
    BY <1>3, <1>4, <1>10, <2>1 DEF P, M
  <2>3. PlanOf(s) = P
    BY <1>7, <1>8, <1>10, <2>2
  <2>4. QED
    BY <1>1, <1>8, <1>10, <2>1, <2>3
<1>11. QED
  BY <1>9, <1>10 DEF P, M

-------------------------------------------------------------------------------
(* The merged arguments. *)

FragmentLengths(sel, n) == [j \in 1 .. n |-> Len(sel[j])]

ServerSelection(sel, V, n, m) ==
    /\ n \in Nat /\ m \in Nat /\ sel \in Seq(V) /\ Len(sel) = n + m
    /\ \A j \in 1 .. n : sel[j] \in Seq(STRING)

\* A case has the base arguments and one fragment of every server axis.
LEMMA ArgsLength ==
  ASSUME NEW V, NEW n, NEW m, NEW sel, ServerSelection(sel, V, n, m), NEW args \in Seq(STRING)
  PROVE  /\ FragmentLengths(sel, n) \in [1 .. n -> Nat]
         /\ \A p : Totals(p, SumOp, 0, FragmentLengths(sel, n), n) =>
               Len(args \o FlattenSeq(SubSeq(sel, 1, n))) = Len(args) + p[n]
<1> DEFINE ss == SubSeq(sel, 1, n)
           w == FragmentLengths(sel, n)
<1>1. /\ n \in Nat /\ m \in Nat /\ sel \in Seq(V) /\ Len(sel) = n + m
      /\ \A j \in 1 .. n : sel[j] \in Seq(STRING)
  BY DEF ServerSelection
<1>2. n \in 1 - 1 .. Len(sel) /\ 1 \in 1 .. Len(sel) + 1 /\ n - 1 + 1 = n
  BY <1>1
<1>3. Len(ss) = n /\ ss \in Seq(V)
  BY <1>1, <1>2, SubSeqProperties
<1>4. \A i \in 1 .. n : ss[i] = sel[i]
  BY <1>1
<1> HIDE DEF ss
<1>5. ss \in Seq(Seq(STRING))
  <2>1. DOMAIN ss = 1 .. n /\ ss = [i \in 1 .. n |-> ss[i]]
    BY <1>3
  <2>2. ss \in [1 .. n -> Seq(STRING)]
    BY <1>1, <1>4, <2>1
  <2>3. QED
    BY <1>1, <2>2
<1>6. \A j \in 1 .. n : Len(sel[j]) \in Nat
  BY <1>1
<1>7. w \in [1 .. n -> Nat]
  BY <1>6 DEF FragmentLengths
<1>8. \A j \in 1 .. n : w[j] = Len(ss[j])
  BY <1>4 DEF FragmentLengths
<1> HIDE DEF w
<1>9. ASSUME NEW p, Totals(p, SumOp, 0, w, n)
      PROVE  Len(args \o FlattenSeq(ss)) = Len(args) + p[n]
  <2>1. FlattenSeq(ss) \in Seq(STRING) /\ Len(FlattenSeq(ss)) = p[Len(ss)]
    <3>1. Totals(p, SumOp, 0, w, Len(ss)) /\ \A j \in 1 .. Len(ss) : w[j] = Len(ss[j])
      BY <1>3, <1>8, <1>9
    <3>2. QED
      BY <1>5, <3>1, FlattenLength
  <2>2. Len(args \o FlattenSeq(ss)) = Len(args) + Len(FlattenSeq(ss))
    BY <2>1, ConcatProperties
  <2>3. QED
    BY <1>3, <2>1, <2>2
<1>10. QED
  BY <1>7, <1>9 DEF w, ss

\* The count of the arguments added is a natural number.
LEMMA AddedArgsIsNat ==
  ASSUME NEW s \in Sweeps
  PROVE  ComputeMaxSweepAdditionalServerArgs(s) \in Nat
<1> DEFINE axes == Walked(s)
           n == Len(s.serverArgs)
           m == Len(s.requestParams)
           w == LongestOf(axes, n)
<1>1. Setting(s, axes, n, m)
  BY TheSetting
<1> HIDE DEF axes, n, m
<1>2. n \in Nat /\ \A i \in 1 .. n : axes[i].values \in Seq(Seq(STRING))
  BY <1>1 DEF Setting
<1>3. \A i \in 1 .. n : Longest(axes[i].values) \in Nat
  BY <1>2, LongestIs
<1>4. w \in [1 .. n -> Nat]
  BY <1>3 DEF LongestOf
<1>5. SumOp \in Operations /\ 0 \in Nat
  BY TheOperations
<1>6. PICK q : Totals(q, SumOp, 0, w, n)
  BY <1>2, <1>4, <1>5, TotalsExist
<1>7. ComputeMaxSweepAdditionalServerArgs(s) = q[n]
  BY <1>1, <1>6, AddedArgs
<1>8. q[n] \in Nat
  BY <1>2, <1>6, Neighbours DEF Totals
<1>9. QED
  BY <1>7, <1>8

Fits(s, args) == Len(args) + ComputeMaxSweepAdditionalServerArgs(s) <= MaxServerArgs

\* What the count of the merged arguments promises: the cases stay within it,
\* and one of them reaches it.
LEMMA MergedArgs ==
  ASSUME NEW s \in Sweeps, ~ HasIssue(s), NEW args \in Seq(STRING)
  PROVE  Fits(s, args) <=> \A c \in ToSet(ExpandSweepCases(s, args)) :
                              Len(c.engineArgs) <= MaxServerArgs
<1> DEFINE axes == Walked(s)
           n == Len(s.serverArgs)
           m == Len(s.requestParams)
           k == n + m
           V == Values(s)
           L == s.repetitions
           sa == SortedAxes(s.serverArgs)
           pa == SortedAxes(s.requestParams)
           walk == WalkAxes(axes)
           y == ExpandSweepCases(s, args)
           w == LongestOf(axes, n)
<1>1. /\ Setting(s, axes, n, m)
      /\ \E f : Walks(f, axes, V, k) /\ walk = f[k]
      /\ walk \in Seq(Seq(V))
  BY ThePlan
<1>2. PICK f : Walks(f, axes, V, k) /\ walk = f[k]
  BY <1>1
<1>3. ExpandedTo(y, s, args, walk)
  BY ExpandedLength
<1>4. L \in Nat \ {0} /\ L \in Nat /\ MaxServerArgs \in Nat
  BY SweepPlanAssumption
<1>5. \A i \in 1 .. k : Len(axes[i].values) \in Nat \ {0}
  BY <1>1, EveryAxisHasValues
<1> HIDE DEF axes, n, m, walk, y
<1>6. /\ n \in Nat /\ m \in Nat /\ AxesOk(axes, V, k) /\ Len(sa) = n
      /\ \A i \in 1 .. n : axes[i].values \in Seq(Seq(STRING))
  <2>1. SortedAs(sa, s.serverArgs, n)
    BY <1>1 DEF Setting
  <2>2. Len(sa) = n
    BY <2>1, SortedIsSeq
  <2>3. QED
    BY <1>1, <2>2 DEF Setting
<1>7. \A i \in 1 .. n : /\ Longest(axes[i].values) \in Nat
                        /\ \A x \in ToSet(axes[i].values) :
                              /\ x \in Seq(STRING)
                              /\ Len(x) \in Nat /\ Len(x) <= Longest(axes[i].values)
  <2>1. SUFFICES ASSUME NEW i \in 1 .. n
                 PROVE  /\ Longest(axes[i].values) \in Nat
                        /\ \A x \in ToSet(axes[i].values) :
                              /\ x \in Seq(STRING)
                              /\ Len(x) \in Nat /\ Len(x) <= Longest(axes[i].values)
    OBVIOUS
  <2>2. axes[i].values \in Seq(Seq(STRING))
    BY <1>6
  <2>3. \A x \in ToSet(axes[i].values) : x \in Seq(STRING)
    BY <2>2 DEF ToSet
  <2>4. QED
    BY <2>2, <2>3, LongestIs
<1>8. w \in [1 .. n -> Nat] /\ \A i \in 1 .. n : w[i] = Longest(axes[i].values)
  BY <1>7 DEF LongestOf
<1>9. SumOp \in Operations /\ 0 \in Nat
  BY TheOperations
<1>10. PICK q : Totals(q, SumOp, 0, w, n)
  BY <1>6, <1>8, <1>9, TotalsExist
<1>11. ComputeMaxSweepAdditionalServerArgs(s) = q[n]
  BY <1>1, <1>10, AddedArgs
<1>12. q[n] \in Nat /\ Len(args) \in Nat
  BY <1>6, <1>10, Neighbours DEF Totals
<1>13. ASSUME NEW sel, Selection(sel, axes, V, k)
       PROVE  ServerSelection(sel, V, n, m)
  <2>1. sel \in Seq(V) /\ Len(sel) = k /\ \A j \in 1 .. k : sel[j] \in ToSet(axes[j].values)
    BY <1>13 DEF Selection
  <2>2. \A j \in 1 .. n : j \in 1 .. k
    BY <1>6
  <2>3. \A j \in 1 .. n : sel[j] \in Seq(STRING)
    BY <1>7, <2>1, <2>2
  <2>4. QED
    BY <1>6, <2>1, <2>3 DEF ServerSelection
<1>14. \A sel, rep : CaseOf(args, sa, pa, sel, rep).engineArgs = args \o FlattenSeq(SubSeq(sel, 1, n))
  BY <1>6 DEF CaseOf
<1>15. ASSUME Fits(s, args), NEW c \in ToSet(y)
       PROVE  Len(c.engineArgs) <= MaxServerArgs
  <2>1. PICK l \in 1 .. Len(y) : c = y[l]
    BY <1>3, <1>15 DEF ExpandedTo, ToSet
  <2>2. CaseAt(y, s, args, walk, l)
    BY <1>1, <1>3, <1>4, ExpandPlaces
  <2> DEFINE sel == walk[BlockOf(l, L)]
             v == FragmentLengths(sel, n)
  <2>3. /\ BlockOf(l, L) \in 1 .. Len(walk)
        /\ c = CaseOf(args, sa, pa, sel, InBlock(l, L))
    BY <2>1, <2>2 DEF CaseAt
  <2>4. Selection(sel, axes, V, k)
    <3>1. Walks(f, axes, V, k) /\ walk = f[k] /\ k \in 0 .. k
      BY <1>2, <1>6
    <3>2. \A i \in 0 .. k : \A b \in 1 .. Len(f[i]) : Selection(f[i][b], axes, V, i)
      BY <1>6, <3>1, WalkIsOfSelections
    <3>3. QED
      BY <2>3, <3>1, <3>2
  <2>5. c.engineArgs = args \o FlattenSeq(SubSeq(sel, 1, n))
    BY <1>14, <2>3
  <2> HIDE DEF sel, v
  <2>6. ServerSelection(sel, V, n, m)
    BY <1>13, <2>4
  <2>7. v \in [1 .. n -> Nat]
    BY <2>6, ArgsLength DEF v
  <2>8. PICK p : Totals(p, SumOp, 0, v, n)
    BY <1>6, <1>9, <2>7, TotalsExist
  <2>9. Len(args \o FlattenSeq(SubSeq(sel, 1, n))) = Len(args) + p[n]
    BY <2>6, <2>8, ArgsLength DEF v
  <2>10. \A i \in 1 .. n : v[i] <= w[i]
    <3>1. \A i \in 1 .. n : i \in 1 .. k
      BY <1>6
    <3>2. \A i \in 1 .. n : sel[i] \in ToSet(axes[i].values)
      BY <2>4, <3>1 DEF Selection
    <3>3. \A i \in 1 .. n : v[i] = Len(sel[i])
      BY DEF v, FragmentLengths
    <3>4. QED
      BY <1>7, <1>8, <3>2, <3>3
  <2>11. p[n] \in Nat /\ p[n] <= q[n]
    BY <1>6, <1>8, <1>10, <2>7, <2>8, <2>10, SumsCompare
  <2>12. Len(args) + q[n] <= MaxServerArgs
    BY <1>11, <1>15 DEF Fits
  <2>13. QED
    BY <1>4, <1>12, <2>5, <2>9, <2>11, <2>12
<1>16. ASSUME \A c \in ToSet(y) : Len(c.engineArgs) <= MaxServerArgs
       PROVE  Fits(s, args)
  <2> DEFINE Of(i) == IF i <= n
                      THEN CHOOSE x \in ToSet(axes[i].values) : Len(x) = Longest(axes[i].values)
                      ELSE axes[i].values[1]
             sel == [i \in 1 .. k |-> Of(i)]
  <2>1. ASSUME NEW i \in 1 .. k
        PROVE  /\ Of(i) \in ToSet(axes[i].values) /\ Of(i) \in V
               /\ i <= n => Len(Of(i)) = Longest(axes[i].values)
    <3>1. axes[i].values \in Seq(V) /\ Len(axes[i].values) \in Nat \ {0}
      BY <1>5, <1>6 DEF AxesOk
    <3>2. \A x \in ToSet(axes[i].values) : x \in V
      BY <3>1 DEF ToSet
    <3>3. CASE i <= n
      <4>1. axes[i].values \in Seq(Seq(STRING)) /\ axes[i].values # <<>>
        <5>1. i \in 1 .. n
          BY <1>6, <3>3
        <5>2. Len(<<>>) = 0
          OBVIOUS
        <5>3. QED
          BY <1>6, <3>1, <5>1, <5>2
      <4>2. \E x \in ToSet(axes[i].values) : Len(x) = Longest(axes[i].values)
        BY <4>1, LongestIs
      <4>3. QED
        BY <3>2, <3>3, <4>2
    <3>4. CASE ~ (i <= n)
      <4>1. 1 \in DOMAIN axes[i].values
        BY <3>1
      <4>2. axes[i].values[1] \in ToSet(axes[i].values)
        BY <4>1 DEF ToSet
      <4>3. QED
        BY <3>2, <3>4, <4>2
    <3>5. QED
      BY <3>3, <3>4
  <2>2. \A i \in 1 .. k : sel[i] = Of(i)
    OBVIOUS
  <2> HIDE DEF Of
  <2>3. sel \in [1 .. k -> V]
    BY <2>1
  <2> HIDE DEF sel
  <2>4. k \in Nat
    BY <1>6
  <2>5. sel \in Seq(V) /\ Len(sel) = k
    <3> HIDE DEF k, V
    <3>1. QED
      BY <2>3, <2>4
  <2>6. Selection(sel, axes, V, k)
    BY <2>1, <2>2, <2>5 DEF Selection
  <2>7. PICK a \in 1 .. Len(walk) : walk[a] = sel
    BY <1>2, <1>6, <2>6, EverySelection
  <2>8. /\ (a - 1) * L + 1 \in 1 .. Len(y) /\ DOMAIN y = 1 .. Len(y)
        /\ y[(a - 1) * L + 1] = CaseOf(args, sa, pa, sel, 1)
    <3>1. 1 \in 1 .. L
      BY <1>4
    <3>2. QED
      BY <1>3, <2>7, <3>1 DEF ExpandedTo
  <2>9. CaseOf(args, sa, pa, sel, 1) \in ToSet(y)
    BY <2>8 DEF ToSet
  <2>10. Len(args \o FlattenSeq(SubSeq(sel, 1, n))) <= MaxServerArgs
    BY <1>14, <1>16, <2>9
  <2>11. ServerSelection(sel, V, n, m)
    BY <1>13, <2>6
  <2>12. FragmentLengths(sel, n) = w
    <3>1. \A i \in 1 .. n : i \in 1 .. k /\ i <= n
      BY <1>6
    <3>2. \A i \in 1 .. n : Len(sel[i]) = Longest(axes[i].values)
      BY <2>1, <2>2, <3>1
    <3>3. QED
      BY <3>2 DEF FragmentLengths, LongestOf
  <2>13. Len(args \o FlattenSeq(SubSeq(sel, 1, n))) = Len(args) + q[n]
    BY <1>10, <2>11, <2>12, ArgsLength
  <2>14. QED
    BY <1>11, <2>10, <2>13 DEF Fits
<1>17. QED
  BY <1>15, <1>16 DEF y

\* What each answer to POST /runs rests on.
PlanInv ==
    /\ sweep \in Sweeps
    /\ response \notin {"CEILING", "UNEXPECTED_NUMBER"}
    /\ response = "VALIDATION_SWEEP_TOO_LARGE" => Verdict(sweep) = response
    /\ response \in {"planned", "accepted", "MERGED_ARGS"} =>
          Verdict(sweep) = "ok" /\ planned = PlanOf(sweep)
    /\ response \in {"accepted", "MERGED_ARGS"} =>
          base \in BaseArgs /\ (response = "accepted" <=> Fits(sweep, base))
    /\ response = "accepted" => cases = ExpandSweepCases(sweep, base)

\* PlanInv holds at first.
LEMMA PlanStarts == PlanInit => PlanInv
  BY DEF PlanInit, PlanInv

\* The validation records its verdict.
LEMMA ValidateKeepsThePlan ==
  ASSUME PlanInv, Validate
  PROVE  PlanInv'
<1>1. /\ response' = IF Verdict(sweep) = "ok" THEN "planned" ELSE Verdict(sweep)
      /\ planned' = IF Verdict(sweep) = "ok" THEN PlanOf(sweep) ELSE planned
      /\ sweep' = sweep
  BY DEF Validate, Verdict
<1>2. Verdict(sweep) \in {"VALIDATION_SWEEP_TOO_LARGE", "VALIDATION_SWEEP_EMPTY",
                          "VALIDATION_SWEEP_INVALID", "ok"}
  BY DEF Verdict, ValidateAndPlanSweepConfig
<1>3. Verdict(sweep)' = Verdict(sweep) /\ PlanOf(sweep)' = PlanOf(sweep)
  BY <1>1 DEF Verdict, ValidateAndPlanSweepConfig, PlanOf, HasIssue, Lengths, Axes
<1>4. sweep' \in Sweeps
  BY <1>1 DEF PlanInv
<1>5. CASE Verdict(sweep) = "ok"
  BY <1>1, <1>3, <1>4, <1>5 DEF PlanInv
<1>6. CASE Verdict(sweep) # "ok"
  BY <1>1, <1>2, <1>3, <1>4, <1>6 DEF PlanInv
<1>7. QED
  BY <1>5, <1>6

\* The expansion comes out as planned, so the two defensive answers are out of
\* reach.
LEMMA AcceptKeepsThePlan ==
  ASSUME PlanInv, NEW args \in BaseArgs, EngineAccepts(args)
  PROVE  PlanInv'
<1> DEFINE expanded == ExpandSweepCases(sweep, args)
<1>1. PICK s \in Sweeps : s = sweep
  BY DEF PlanInv
<1>2. /\ response = "planned" /\ base' = args /\ sweep' = s /\ planned' = planned
      /\ IF Fits(s, args)
         THEN IF ExceedsCeiling(Len(ExpandSweepCases(s, args)))
              THEN response' = "CEILING"
              ELSE /\ cases' = ExpandSweepCases(s, args)
                   /\ response' = IF Len(ExpandSweepCases(s, args)) = planned
                                  THEN "accepted" ELSE "UNEXPECTED_NUMBER"
         ELSE response' = "MERGED_ARGS"
  <2>1. \A a, b \in Int : a > b <=> ~ (a <= b)
    OBVIOUS
  <2>2. Fits(s, args) <=> ~ (Len(args) + ComputeMaxSweepAdditionalServerArgs(s) > MaxServerArgs)
    <3>1. Len(args) \in Nat /\ MaxServerArgs \in Nat
      <4>1. args \in Seq(STRING)
        BY SweepPlanAssumption
      <4>2. QED
        BY <4>1, SweepPlanAssumption
    <3>2. ComputeMaxSweepAdditionalServerArgs(s) \in Nat
      BY AddedArgsIsNat
    <3>3. QED
      BY <3>1, <3>2 DEF Fits
  <2>3. QED
    BY <1>1, <2>2 DEF EngineAccepts
<1>3. Verdict(s) = "ok" /\ planned = PlanOf(s)
  BY <1>1, <1>2 DEF PlanInv
<1>4. /\ planned = Product(s) /\ Product(s) <= s.maxCases /\ s.maxCases <= MaxSweepCases
      /\ s.maxCases \in Nat /\ MaxSweepCases \in Nat /\ Product(s) \in Nat
  <2>1. s.maxCases \in Nat /\ MaxSweepCases \in Nat
    BY SweepPlanAssumption
  <2>2. QED
    BY <1>3, <2>1, TheVerdict, ThePlan
<1>5. Len(ExpandSweepCases(s, args)) = planned
  BY <1>4, ExpandedLength
<1>6. ~ ExceedsCeiling(Len(ExpandSweepCases(s, args)))
  BY <1>4, <1>5 DEF ExceedsCeiling
<1>7. /\ response' = IF Fits(s, args) THEN "accepted" ELSE "MERGED_ARGS"
      /\ Fits(s, args) => cases' = ExpandSweepCases(s, args)
  BY <1>2, <1>5, <1>6
<1>8. /\ (Verdict(sweep) = Verdict(s))' /\ (PlanOf(sweep) = PlanOf(s))'
      /\ (Fits(sweep, base) = Fits(s, args))' /\ (ExpandSweepCases(sweep, base) = ExpandSweepCases(s, args))'
  BY <1>2
<1>9. QED
  BY <1>2, <1>3, <1>7, <1>8 DEF PlanInv

\* Every step keeps PlanInv.
LEMMA PlanStep ==
  ASSUME PlanInv, [PlanNext]_planVars
  PROVE  PlanInv'
<1>1. CASE UNCHANGED planVars
  BY <1>1 DEF planVars, PlanInv, Verdict, Fits
<1>2. CASE Validate
  BY <1>2, ValidateKeepsThePlan
<1>3. CASE WorkloadNotSupported
  BY <1>3 DEF WorkloadNotSupported, PlanInv
<1>4. CASE EngineRefuses
  BY <1>4 DEF EngineRefuses, PlanInv
<1>5. ASSUME NEW args \in BaseArgs, EngineAccepts(args)
      PROVE  PlanInv'
  BY <1>5, AcceptKeepsThePlan
<1>6. ASSUME NEW n \in 0 .. MaxRanked, NEW stopFailed \in BOOLEAN,
             Execute(n, stopFailed)
      PROVE  PlanInv'
  BY <1>6 DEF Execute, PlanInv
<1>7. QED
  BY <1>1, <1>2, <1>3, <1>4, <1>5, <1>6 DEF PlanNext

\* What PlanInv says of each answer is what ThePlanIsKept promises.
LEMMA ThePlanHolds ==
  ASSUME PlanInv
  PROVE  ThePlanIsKept
<1>1. sweep \in Sweeps
  BY DEF PlanInv
<1>2. Verdict(sweep) = "ok" => /\ PlanOf(sweep) = Product(sweep) /\ ~ HasIssue(sweep)
                               /\ Product(sweep) <= sweep.maxCases
                               /\ sweep.maxCases <= MaxSweepCases
  BY <1>1, TheVerdict
<1>3. response = "VALIDATION_SWEEP_TOO_LARGE" =>
         ~ (Product(sweep) <= sweep.maxCases /\ sweep.maxCases <= MaxSweepCases)
  BY <1>1, TheVerdict DEF PlanInv
<1>4. response \in {"planned", "accepted", "MERGED_ARGS"} =>
         Verdict(sweep) = "ok" /\ planned = Product(sweep)
  BY <1>2 DEF PlanInv
<1>5. response = "accepted" => Len(cases) = planned
  <2>1. response = "accepted" => Len(ExpandSweepCases(sweep, base)) = Product(sweep)
    BY <1>1, ExpandedLength
  <2>2. QED
    BY <1>4, <2>1 DEF PlanInv
<1>6. response \in {"accepted", "MERGED_ARGS"} =>
        ((response = "accepted") <=>
            \A c \in ToSet(ExpandSweepCases(sweep, base)) : Len(c.engineArgs) <= MaxServerArgs)
  <2>1. SUFFICES ASSUME response \in {"accepted", "MERGED_ARGS"}
                 PROVE  Fits(sweep, base) <=>
                          \A c \in ToSet(ExpandSweepCases(sweep, base)) : Len(c.engineArgs) <= MaxServerArgs
    BY DEF PlanInv
  <2>2. base \in Seq(STRING)
    BY <2>1, SweepPlanAssumption DEF PlanInv
  <2>3. ~ HasIssue(sweep)
    BY <1>2, <1>4, <2>1
  <2>4. QED
    BY <1>1, <2>2, <2>3, MergedArgs
<1>7. QED
  BY <1>2, <1>3, <1>4, <1>5, <1>6 DEF PlanInv, ThePlanIsKept

\* For every set of sweeps and every limit: each answer of POST /runs rests on
\* the verdict, the plan and the expansion PlanInv names.
THEOREM PlanInvariant == PlanSpec => []PlanInv
<1>1. PlanInit => PlanInv
  BY PlanStarts
<1>2. PlanInv /\ [PlanNext]_planVars => PlanInv'
  BY PlanStep
<1>3. QED
  BY <1>1, <1>2, PTL DEF PlanSpec

\* For every set of sweeps and every limit: validateAndPlanSweepConfig counts
\* without overflow what expandSweepCases builds, although the two walk the
\* axes in different orders; the ceiling and the unexpected number are never
\* answered; and the limit on merged arguments refuses a sweep exactly when a
\* case would be over it.
THEOREM PlanKept == PlanSpec => []ThePlanIsKept
<1>1. PlanInv => ThePlanIsKept
  BY ThePlanHolds
<1>2. QED
  BY <1>1, PlanInvariant, PTL

-------------------------------------------------------------------------------
(* The odometer. *)

\* What the odometer shows of axis i in case k.
Shown(axes, r, k, i) == axes[i].values[Digit(axes, r, k, i)]

\* The lengths of the axes behind axis i.
LengthsBehind(axes, i) == [j \in 1 .. Len(axes) - i |-> Len(axes[i + j].values)]

\* A selection of the walk has on every axis the value of the odometer.
LEMMA WalkShows ==
  ASSUME NEW V, NEW n, NEW axes, AxesOk(axes, V, n), NEW f, Walks(f, axes, V, n),
         \A i \in 1 .. n : Len(axes[i].values) \in Nat \ {0},
         NEW r \in Nat \ {0}, NEW k \in Nat \ {0}, BlockOf(k, r) \in 1 .. Len(f[n]),
         NEW i \in 1 .. n
  PROVE  f[n][BlockOf(k, r)][i] = Shown(axes, r, k, i)
<1> DEFINE w == LengthsBehind(axes, i)
           a == BlockOf(k, r)
           L == Len(axes[i].values)
<1> DEFINE d == n - i
<1>1. n \in Nat /\ d \in Nat /\ d \in 0 .. d /\ Len(axes) = n
  BY DEF AxesOk
<1>2. \A j \in 1 .. d : i + j \in 1 .. n
  BY <1>1
<1>3. w \in [1 .. d -> Nat \ {0}] /\ \A j \in 1 .. d : w[j] = Len(axes[i + j].values)
  BY <1>1, <1>2 DEF LengthsBehind
<1> HIDE DEF w
<1>4. ShiftedLengths(w, axes, i, n)
  BY <1>3 DEF ShiftedLengths
<1>5. TimesOp \in Operations /\ 1 \in Nat /\ r \in Nat /\ r > 0
  BY TheOperations
<1>0. d = n - i
  OBVIOUS
<1> HIDE DEF d
<1>w. w \in [1 .. d -> Nat] /\ w \in Seq(Nat) /\ Len(w) = d
  BY <1>1, <1>3
<1>6. PICK q : Totals(q, TimesOp, 1, w, d)
  BY <1>1, <1>w, <1>5, TotalsExist
<1>7. PICK p : Totals(p, TimesOp, r, w, d)
  BY <1>1, <1>w, <1>5, TotalsExist
<1> DEFINE t == q[d]
<1>8. t \in Nat /\ t > 0 /\ Shows(f[n], axes, i, t)
  BY <1>0, <1>4, <1>6, WalkDigits
<1>9. p[d] = r * t
  <2>1. Scaling(q, p, w, r, d)
    BY <1>1, <1>w, <1>6, <1>7 DEF Scaling
  <2>2. QED
    BY <2>1, TotalScales
<1>10. Times(w, r) = r * t
  <2>1. Times(w, r) = p[d]
    BY <1>w, <1>5, <1>7, TimesIsTotal
  <2>2. QED
    BY <1>9, <2>1
<1>t. t \in Nat /\ t > 0
  BY <1>8
<1> HIDE DEF t, a
<1>11. f[n][a][i] = ValueAt(axes, i, (a - 1) \div t)
  BY <1>8 DEF Shows, a
<1> DEFINE x == k - 1
<1>x. x \in Nat
  OBVIOUS
<1>12. a - 1 = x \div r
  <2>2. x \div r \in Nat
    BY <1>5, <1>x, QuotientIsNat
  <2>3. \A y \in Nat : (y + 1) - 1 = y
    OBVIOUS
  <2>4. QED
    BY <2>2, <2>3 DEF a, BlockOf
<1> HIDE DEF x
<1>13. (x \div r) \div t = x \div (r * t)
  <2>1. DividesTwice(x, r, t)
    BY <1>5, <1>t, <1>x, DividingTwice
  <2>2. QED
    BY <2>1 DEF DividesTwice
<1>14. f[n][a][i] = axes[i].values[((x \div (r * t)) % L) + 1]
  BY <1>11, <1>12, <1>13 DEF ValueAt
<1>15. Digit(axes, r, k, i) = ((x \div Times(w, r)) % L) + 1
  BY DEF Digit, LengthsBehind, w, x
<1>16. QED
  BY <1>10, <1>14, <1>15 DEF Shown, a

\* The axes as the property lists them are those of the walk.
RankedAxes(s) ==
    LET n == Len(s.serverArgs)
        m == Len(s.requestParams)
    IN  [i \in 1 .. n + m |-> IF i <= n THEN Ranked(s.serverArgs, i)
                                        ELSE Ranked(s.requestParams, i - n)]

\* The axis of each rank is the one sort() puts there.
LEMMA RankedAreWalked ==
  ASSUME NEW s, NEW axes,
         Setting(s, axes, Len(s.serverArgs), Len(s.requestParams))
  PROVE  RankedAxes(s) = axes
<1> DEFINE n == Len(s.serverArgs)
           m == Len(s.requestParams)
           sa == SortedAxes(s.serverArgs)
           pa == SortedAxes(s.requestParams)
           R(i) == IF i <= n THEN Ranked(s.serverArgs, i) ELSE Ranked(s.requestParams, i - n)
<1>1. Setting(s, axes, n, m)
  OBVIOUS
<1>2. RankedAxes(s) = [i \in 1 .. n + m |-> R(i)]
  BY DEF RankedAxes
<1>3. \A i : R(i) = IF i <= n THEN Ranked(s.serverArgs, i) ELSE Ranked(s.requestParams, i - n)
  OBVIOUS
<1> HIDE DEF n, m, R
<1>4. n \in Nat /\ m \in Nat /\ Joins(axes, sa, pa, n, m)
  BY <1>1 DEF Setting
<1>5. \A i \in 1 .. n : Ranked(s.serverArgs, i) = sa[i]
  BY <1>1 DEF Setting, SortedAs
<1>6. \A i \in 1 .. m : Ranked(s.requestParams, i) = pa[i]
  BY <1>1 DEF Setting, SortedAs
<1>7. \A i \in 1 .. n + m : (i \in 1 .. n /\ i <= n) \/ (i - n \in 1 .. m /\ ~ (i <= n))
  BY <1>4
<1>8. \A i \in 1 .. n + m : axes[i] = IF i <= n THEN sa[i] ELSE pa[i - n]
  BY <1>4 DEF Joins
<1>9. \A i \in 1 .. n + m : axes[i] = R(i)
  BY <1>3, <1>5, <1>6, <1>7, <1>8
<1>10. axes = [i \in 1 .. n + m |-> axes[i]]
  <2>1. DOMAIN axes = 1 .. n + m
    BY <1>4 DEF Joins
  <2>2. axes = [i \in DOMAIN axes |-> axes[i]]
    <3>1. axes = sa \o pa
      BY <1>1 DEF Setting, Walked
    <3>2. sa \in Seq(ToSet(s.serverArgs)) /\ pa \in Seq(ToSet(s.requestParams))
      BY <1>1, SortedIsSeq DEF Setting
    <3> DEFINE C == ToSet(s.serverArgs) \cup ToSet(s.requestParams)
    <3>3. sa \in Seq(C) /\ pa \in Seq(C)
      BY <3>2, SeqMonotonic
    <3> HIDE DEF C, sa, pa
    <3>4. axes \in Seq(C)
      BY <3>1, <3>3, ConcatProperties
    <3>5. QED
      BY <3>4
  <2>3. QED
    BY <2>1, <2>2
<1>11. QED
  BY <1>2, <1>9, <1>10

\* A case is what the odometer shows.
FollowsTheOdometer(c, s, args, axes, n, m, k) ==
    /\ c.repetitionIndex = (k - 1) % s.repetitions
    /\ c.engineArgs = args \o FlattenSeq([i \in 1 .. n |-> Shown(axes, s.repetitions, k, i)])
    /\ \A i \in n + 1 .. n + m :
          c.requestParams[axes[i].key] = Shown(axes, s.repetitions, k, i)

\* Every case expandSweepCases emits is what the odometer shows.
LEMMA EveryCaseFollows ==
  ASSUME NEW s \in Sweeps, ~ HasIssue(s), NEW args,
         NEW k \in DOMAIN ExpandSweepCases(s, args)
  PROVE  FollowsTheOdometer(ExpandSweepCases(s, args)[k], s, args, Walked(s),
                            Len(s.serverArgs), Len(s.requestParams), k)
<1> DEFINE axes == Walked(s)
           n == Len(s.serverArgs)
           m == Len(s.requestParams)
           V == Values(s)
           r == s.repetitions
           sa == SortedAxes(s.serverArgs)
           pa == SortedAxes(s.requestParams)
           walk == WalkAxes(axes)
           y == ExpandSweepCases(s, args)
           c == y[k]
<1>1. /\ Setting(s, axes, n, m)
      /\ \E f : Walks(f, axes, V, n + m) /\ walk = f[n + m]
      /\ walk \in Seq(Seq(V))
  BY ThePlan
<1>2. PICK f : Walks(f, axes, V, n + m) /\ walk = f[n + m]
  BY <1>1
<1>3. ExpandedTo(y, s, args, walk)
  BY ExpandedLength
<1>4. r \in Nat \ {0} /\ s.repetitions \in Nat
  BY SweepPlanAssumption
<1>5. \A i \in 1 .. n + m : Len(axes[i].values) \in Nat \ {0}
  BY <1>1, EveryAxisHasValues
<1>6. k \in 1 .. Len(y) /\ k \in Nat \ {0}
  BY <1>3 DEF ExpandedTo
<1>7. CaseAt(y, s, args, walk, k)
  BY <1>1, <1>3, <1>4, <1>6, ExpandPlaces
<1> HIDE DEF axes, n, m, walk, y
<1> DEFINE sel == walk[BlockOf(k, r)]
<1>8. /\ BlockOf(k, r) \in 1 .. Len(walk) /\ InBlock(k, r) \in 1 .. r
      /\ c = CaseOf(args, sa, pa, sel, InBlock(k, r))
  BY <1>7 DEF CaseAt
<1>9. /\ n \in Nat /\ m \in Nat /\ AxesOk(axes, V, n + m) /\ Joins(axes, sa, pa, n, m)
      /\ SortedAs(sa, s.serverArgs, n) /\ SortedAs(pa, s.requestParams, m)
  BY <1>1 DEF Setting
<1>10. ASSUME NEW i \in 1 .. n + m
       PROVE  sel[i] = Shown(axes, r, k, i)
  <2>1. Walks(f, axes, V, n + m) /\ BlockOf(k, r) \in 1 .. Len(f[n + m])
    BY <1>2, <1>8
  <2>2. f[n + m][BlockOf(k, r)][i] = Shown(axes, r, k, i)
    BY <1>4, <1>5, <1>6, <1>9, <2>1, WalkShows
  <2>3. QED
    BY <1>2, <2>2
<1>11. Len(sa) = n /\ DOMAIN pa = 1 .. m /\ pa \in Seq(ToSet(s.requestParams))
  <2>1. Len(sa) = n
    BY <1>9, SortedIsSeq
  <2>2. QED
    BY <1>9, <2>1, SortedIsSeq DEF SortedAs
<1>12. c.repetitionIndex = (k - 1) % r
  <2>1. c.repetitionIndex = InBlock(k, r) - 1
    BY <1>8 DEF CaseOf
  <2>2. k - 1 \in Nat /\ r \in Nat /\ r > 0
    BY <1>4, <1>6
  <2>3. (k - 1) % r \in Nat
    BY <2>2, Division
  <2>4. \A x \in Nat : (x + 1) - 1 = x
    OBVIOUS
  <2>5. QED
    BY <2>1, <2>3, <2>4 DEF InBlock
<1>13. c.engineArgs = args \o FlattenSeq([i \in 1 .. n |-> Shown(axes, r, k, i)])
  <2>1. c.engineArgs = args \o FlattenSeq(SubSeq(sel, 1, n))
    BY <1>8, <1>11 DEF CaseOf
  <2>2. \A i \in 1 .. n : i \in 1 .. n + m
    BY <1>9
  <2>3. \A i \in 1 .. n : sel[i] = Shown(axes, r, k, i)
    BY <1>10, <2>2
  <2> HIDE DEF sel
  <2>4. SubSeq(sel, 1, n) = [i \in 1 .. n |-> sel[i]]
    <3>1. SubSeq(sel, 1, n) = [i \in 1 .. (1 + n) - 1 |-> sel[(i + 1) - 1]]
      BY <1>9
    <3>2. (1 + n) - 1 = n /\ \A i \in 1 .. n : (i + 1) - 1 = i
      BY <1>9
    <3>3. QED
      BY <3>1, <3>2
  <2>5. [i \in 1 .. n |-> sel[i]] = [i \in 1 .. n |-> Shown(axes, r, k, i)]
    BY <2>3
  <2>6. QED
    BY <2>1, <2>4, <2>5
<1>14. ASSUME NEW i \in n + 1 .. n + m
       PROVE  c.requestParams[axes[i].key] = Shown(axes, r, k, i)
  <2> DEFINE j == i - n
             key == axes[i].key
             set == {l \in DOMAIN pa : pa[l].key = key}
  <2>1. i \in 1 .. n + m /\ j \in 1 .. m /\ n + j = i
    BY <1>9
  <2>2. axes[i] = pa[j]
    BY <1>9, <2>1 DEF Joins
  <2>3. \A a, b \in 1 .. m : pa[a].key = pa[b].key => a = b
    BY <1>9 DEF SortedAs
  <2>4. set = {j}
    BY <1>11, <2>1, <2>2, <2>3
  <2>5. key \in {axis.key : axis \in ToSet(pa)}
    BY <1>11, <2>1, <2>2 DEF ToSet
  <2>6. n + (CHOOSE l \in set : TRUE) = i
    BY <2>1, <2>4
  <2> HIDE DEF sel
  <2>7. c.requestParams = [x \in DOMAIN BaseParams \cup {axis.key : axis \in ToSet(pa)} |->
                             IF {l \in DOMAIN pa : pa[l].key = x} = {}
                             THEN BaseParams[x]
                             ELSE sel[n + CHOOSE l \in {l \in DOMAIN pa : pa[l].key = x} : TRUE]]
    BY <1>8, <1>11 DEF CaseOf
  <2> HIDE DEF key
  <2>8. c.requestParams[key] = IF set = {} THEN BaseParams[key]
                               ELSE sel[n + CHOOSE l \in set : TRUE]
    BY <2>5, <2>7
  <2>9. c.requestParams[key] = sel[i]
    BY <2>4, <2>6, <2>8
  <2>10. QED
    BY <1>10, <2>1, <2>9 DEF key
<1>15. QED
  BY <1>12, <1>13, <1>14 DEF FollowsTheOdometer, axes, n, m, y

\* For every set of sweeps: case k of an accepted sweep is what an odometer
\* over the axes sorted by key shows, server arguments first and repetitions
\* fastest; the order in which the request lists its axes is nowhere in it.
THEOREM OdometerFollowed == PlanSpec => []CasesFollowTheOdometer
<1>1. PlanInv => CasesFollowTheOdometer
  <2>1. SUFFICES ASSUME PlanInv, response = "accepted"
                 PROVE  CasesFollowTheOdometer
    BY DEF CasesFollowTheOdometer
  <2>2. sweep \in Sweeps
    BY <2>1 DEF PlanInv
  <2>3. cases = ExpandSweepCases(sweep, base) /\ Verdict(sweep) = "ok"
    BY <2>1, <2>2 DEF PlanInv
  <2>4. ~ HasIssue(sweep)
    BY <2>2, <2>3, TheVerdict
  <2> DEFINE n == Len(sweep.serverArgs)
             m == Len(sweep.requestParams)
             axes == RankedAxes(sweep)
  <2>5. axes = Walked(sweep)
    BY <2>2, TheSetting, RankedAreWalked
  <2>6. \A k \in DOMAIN cases : FollowsTheOdometer(cases[k], sweep, base, axes, n, m, k)
    BY <2>2, <2>3, <2>4, <2>5, EveryCaseFollows
  <2>7. \A k \in DOMAIN cases :
           /\ cases[k].repetitionIndex = (k - 1) % sweep.repetitions
           /\ cases[k].engineArgs =
                 base \o FlattenSeq([i \in 1 .. n |-> axes[i].values[Digit(axes, sweep.repetitions, k, i)]])
           /\ \A i \in n + 1 .. n + m :
                 cases[k].requestParams[axes[i].key] =
                     axes[i].values[Digit(axes, sweep.repetitions, k, i)]
    <3> HIDE DEF axes, n, m
    <3>1. QED
      BY <2>6, Zenon DEF FollowsTheOdometer, Shown
  <2>8. QED
    BY <2>1, <2>7, Zenon DEF CasesFollowTheOdometer, RankedAxes
<1>2. QED
  BY <1>1, PlanInvariant, PTL

-------------------------------------------------------------------------------
(* The ranking.  Before orders what can be published of an outcome totally,  *)
(* so that outcomes the sort cannot tell apart are equal in all that the     *)
(* ranking shows of them, whatever made them: two cases of one identity, or  *)
(* a case recorded twice.                                                    *)

\* What a run keeps of its cases.
Outcomes == {Outcome(id, m) : id \in Nat, m \in Measurements \cup {Failure}}

\* The speed and the latency of a completed case are natural numbers, and with
\* its identity they are all that is published of it.
LEMMA OutcomeIs ==
  ASSUME NEW o \in Outcomes
  PROVE  /\ o.caseId \in Nat
         /\ Completed(o) => /\ o.tokensPerSecond \in Nat /\ o.latencyMs \in Nat
                            /\ o = [caseId |-> o.caseId, status |-> "completed",
                                    tokensPerSecond |-> o.tokensPerSecond,
                                    latencyMs |-> o.latencyMs]
         /\ ~ Completed(o) => o = [caseId |-> o.caseId, status |-> "failed"]
<1>1. PICK id \in Nat, m \in Measurements \cup {Failure} : o = Outcome(id, m)
  BY DEF Outcomes
<1>2. CASE m = Failure
  <2>1. o = [caseId |-> id, status |-> "failed"]
    BY <1>1, <1>2 DEF Outcome
  <2>2. QED
    BY <2>1 DEF Completed
<1>3. CASE m # Failure
  <2> DEFINE t == TokensPerSecond(m.tokens, m.latencyMs)
  <2>1. o = [caseId |-> id, status |-> "completed",
             tokensPerSecond |-> t, latencyMs |-> m.latencyMs]
    BY <1>1, <1>3 DEF Outcome
  <2>2. m.tokens \in Nat /\ m.latencyMs \in Nat
    BY <1>3, SweepPlanAssumption
  <2>3. t \in Nat
    <3>1. CASE m.tokens <= 0 \/ m.latencyMs <= 0
      BY <3>1 DEF TokensPerSecond
    <3>2. CASE ~ (m.tokens <= 0 \/ m.latencyMs <= 0)
      <4>1. /\ 2000000 * m.tokens + m.latencyMs \in Nat
            /\ 2 * m.latencyMs \in Nat /\ 2 * m.latencyMs > 0
        BY <2>2, <3>2
      <4>2. (2000000 * m.tokens + m.latencyMs) \div (2 * m.latencyMs) \in Nat
        BY <4>1, QuotientIsNat
      <4>3. QED
        BY <3>2, <4>2 DEF TokensPerSecond
    <3>3. QED
      BY <3>1, <3>2
  <2> HIDE DEF t
  <2>4. QED
    BY <2>1, <2>2, <2>3 DEF Completed
<1>4. QED
  BY <1>2, <1>3

\* The comparison is a strict order of outcomes, and a total one.
LEMMA BeforeOrders ==
  ASSUME NEW x \in Outcomes, NEW y \in Outcomes, NEW z \in Outcomes
  PROVE  /\ ~ Before(x, x)
         /\ Before(x, y) /\ Before(y, z) => Before(x, z)
         /\ x = y \/ Before(x, y) \/ Before(y, x)
<1>1. \A o \in {x, y, z} :
        /\ o.caseId \in Nat
        /\ Completed(o) => o.tokensPerSecond \in Nat /\ o.latencyMs \in Nat
  BY OutcomeIs
<1>2. ~ Before(x, x)
  BY <1>1 DEF Before
<1>3. Before(x, y) /\ Before(y, z) => Before(x, z)
  BY <1>1 DEF Before
<1>4. ASSUME ~ Before(x, y), ~ Before(y, x)
      PROVE  x = y
  <2>1. Completed(x) <=> Completed(y)
    BY <1>4 DEF Before
  <2>2. x.caseId = y.caseId
    BY <1>1, <1>4, <2>1 DEF Before
  <2>3. CASE ~ Completed(x)
    <3>1. /\ x = [caseId |-> x.caseId, status |-> "failed"]
          /\ y = [caseId |-> y.caseId, status |-> "failed"]
      BY <2>1, <2>3, OutcomeIs
    <3>2. QED
      BY <2>2, <3>1
  <2>4. CASE Completed(x)
    <3>1. x.tokensPerSecond = y.tokensPerSecond /\ x.latencyMs = y.latencyMs
      BY <1>1, <1>4, <2>1, <2>4 DEF Before
    <3>2. /\ x = [caseId |-> x.caseId, status |-> "completed",
                  tokensPerSecond |-> x.tokensPerSecond, latencyMs |-> x.latencyMs]
          /\ y = [caseId |-> y.caseId, status |-> "completed",
                  tokensPerSecond |-> y.tokensPerSecond, latencyMs |-> y.latencyMs]
      BY <2>1, <2>4, OutcomeIs
    <3>3. QED
      BY <2>2, <3>1, <3>2
  <2>5. QED
    BY <2>3, <2>4
<1>5. QED
  BY <1>2, <1>3, <1>4

\* The places of the outcomes, as the stable sort orders them.
PrecedesRel(o, n) == {p \in (1 .. n) \X (1 .. n) : Precedes(o, p[1], p[2])}

LEMMA PrecedesOrders ==
  ASSUME NEW n \in Nat, NEW o \in [1 .. n -> Outcomes]
  PROVE  /\ IsFiniteSet(1 .. n) /\ Cardinality(1 .. n) = n
         /\ Orders(PrecedesRel(o, n), 1 .. n)
<1>1. IsFiniteSet(1 .. n) /\ Cardinality(1 .. n) = n
  BY FS_Interval
<1>2. \A p \in 1 .. n : o[p] \in Outcomes
  OBVIOUS
<1>3. \A p, q \in 1 .. n :
        <<p, q>> \in PrecedesRel(o, n)
            <=> Before(o[p], o[q]) \/ (o[p] = o[q] /\ p < q)
  <2>1. ASSUME NEW p \in 1 .. n, NEW q \in 1 .. n
        PROVE  Precedes(o, p, q) <=> Before(o[p], o[q]) \/ (o[p] = o[q] /\ p < q)
    <3>1. o[p] = o[q] \/ Before(o[p], o[q]) \/ Before(o[q], o[p])
      BY <1>2, BeforeOrders
    <3>2. o[p] = o[q] => ~ Before(o[q], o[p])
      BY <1>2, BeforeOrders
    <3>3. QED
      BY <3>1, <3>2 DEF Precedes
  <2>2. QED
    BY <2>1 DEF PrecedesRel
<1>4. ASSUME NEW p \in 1 .. n
      PROVE  <<p, p>> \notin PrecedesRel(o, n)
  <2>1. ~ Before(o[p], o[p])
    BY <1>2, BeforeOrders
  <2>2. QED
    BY <1>3, <2>1
<1>5. ASSUME NEW p \in 1 .. n, NEW q \in 1 .. n, NEW r \in 1 .. n,
             <<p, q>> \in PrecedesRel(o, n), <<q, r>> \in PrecedesRel(o, n)
      PROVE  <<p, r>> \in PrecedesRel(o, n)
  <2>1. Before(o[p], o[q]) /\ Before(o[q], o[r]) => Before(o[p], o[r])
    BY <1>2, BeforeOrders
  <2>2. /\ Before(o[p], o[q]) \/ (o[p] = o[q] /\ p < q)
        /\ Before(o[q], o[r]) \/ (o[q] = o[r] /\ q < r)
    BY <1>3, <1>5
  <2>3. Before(o[p], o[r]) \/ (o[p] = o[r] /\ p < r)
    BY <2>1, <2>2
  <2>4. QED
    BY <1>3, <2>3
<1>6. ASSUME NEW p \in 1 .. n, NEW q \in 1 .. n, p # q
      PROVE  <<p, q>> \in PrecedesRel(o, n) \/ <<q, p>> \in PrecedesRel(o, n)
  <2>1. o[p] = o[q] \/ Before(o[p], o[q]) \/ Before(o[q], o[p])
    BY <1>2, BeforeOrders
  <2>2. p < q \/ q < p
    BY <1>6
  <2>3. QED
    BY <1>3, <2>1, <2>2
<1> HIDE DEF PrecedesRel
<1>7. QED
  BY <1>1, <1>4, <1>5, <1>6 DEF Orders

\* The sort has a result, and it is sorted.
LEMMA RankingIsSorted ==
  ASSUME NEW n \in Nat, NEW o \in [1 .. n -> Outcomes]
  PROVE  \E order : /\ Ascending(order, PrecedesRel(o, n), n, 1 .. n)
                    /\ BuildSweepRanking(o) = [rank \in 1 .. n |-> o[order[rank]]]
<1>1. /\ IsFiniteSet(1 .. n) /\ Cardinality(1 .. n) = n
      /\ Orders(PrecedesRel(o, n), 1 .. n) /\ DOMAIN o = 1 .. n
  BY PrecedesOrders
<1> DEFINE Sorted(f) == \A i, j \in 1 .. n : i < j => Precedes(o, f[i], f[j])
<1>2. PICK g : Ascending(g, PrecedesRel(o, n), n, 1 .. n)
  BY <1>1, Sortable
<1>3. \A f \in [1 .. n -> 1 .. n] :
         Ascending(f, PrecedesRel(o, n), n, 1 .. n) <=> Sorted(f)
  BY DEF Ascending, PrecedesRel
<1>4. g \in [1 .. n -> 1 .. n] /\ Sorted(g)
  BY <1>2, <1>3 DEF Ascending
<1> DEFINE order == CHOOSE f \in [1 .. n -> 1 .. n] : Sorted(f)
<1>5. BuildSweepRanking(o) = [rank \in 1 .. n |-> o[order[rank]]]
  BY <1>1 DEF BuildSweepRanking
<1> HIDE DEF Sorted
<1>6. order \in [1 .. n -> 1 .. n] /\ Sorted(order)
  BY <1>4
<1> HIDE DEF order
<1>7. QED
  BY <1>3, <1>5, <1>6

\* The places of the outcomes before one, and of those equal to it.
Betters(o, n, r) == {i \in 1 .. n : Before(o[i], r)}
Equals(o, n, r) == {i \in 1 .. n : o[i] = r}

LEMMA PlacesAreFinite ==
  ASSUME NEW n \in Nat, NEW S \in SUBSET (1 .. n)
  PROVE  IsFiniteSet(S) /\ Cardinality(S) \in Nat
<1>1. IsFiniteSet(1 .. n)
  BY FS_Interval
<1>2. IsFiniteSet(S)
  BY <1>1, FS_Subset
<1>3. QED
  BY <1>2, FS_CardinalityType

\* Outcomes that are equal share the ranks behind those before them.
LEMMA RanksAreBounded ==
  ASSUME NEW n \in Nat, NEW o \in [1 .. n -> Outcomes], NEW k \in 1 .. n
  PROVE  LET r == BuildSweepRanking(o)[k]
         IN  /\ r \in Outcomes
             /\ Cardinality(Betters(o, n, r)) < k
             /\ k <= Cardinality(Betters(o, n, r)) + Cardinality(Equals(o, n, r))
             /\ k <= Cardinality(Betters(o, n, r) \cup Equals(o, n, r))
<1>1. PICK order : /\ Ascending(order, PrecedesRel(o, n), n, 1 .. n)
                   /\ BuildSweepRanking(o) = [rank \in 1 .. n |-> o[order[rank]]]
  BY RankingIsSorted
<1> DEFINE p == order[k]
           r == o[p]
           L == Below(p, PrecedesRel(o, n), 1 .. n)
           B == Betters(o, n, r)
           E == Equals(o, n, r)
<1>2. p \in 1 .. n /\ BuildSweepRanking(o)[k] = r /\ r \in Outcomes
  BY <1>1 DEF Ascending
<1>3. Cardinality(L) = k - 1
  BY <1>1, PrecedesOrders, SortedRanks
<1>4. \A q \in 1 .. n : q \in L <=> Precedes(o, q, p)
  BY <1>2 DEF Below, PrecedesRel
<1>5. p \notin L
  BY PrecedesOrders, <1>2 DEF Below, Orders
<1>6. B \subseteq L
  BY <1>4 DEF Betters, Precedes
<1>7. L \cup {p} \subseteq B \cup E
  <2>1. p \in E
    BY <1>2 DEF Equals
  <2>2. ASSUME NEW q \in L
        PROVE  q \in B \cup E
    <3>1. q \in 1 .. n /\ Precedes(o, q, p)
      BY <1>4 DEF Below
    <3>2. o[q] = r \/ Before(o[q], r) \/ Before(r, o[q])
      BY <1>2, <3>1, BeforeOrders
    <3>3. QED
      <4>1. Before(o[q], r) => q \in B
        BY <3>1 DEF Betters
      <4>2. o[q] = r => q \in E
        BY <3>1 DEF Equals
      <4>3. ~ Before(r, o[q]) \/ Before(o[q], r)
        BY <3>1 DEF Precedes
      <4>4. QED
        BY <3>2, <4>1, <4>2, <4>3
  <2>3. QED
    BY <2>1, <2>2
<1>8. /\ B \in SUBSET (1 .. n) /\ E \in SUBSET (1 .. n) /\ L \in SUBSET (1 .. n)
      /\ B \cup E \in SUBSET (1 .. n) /\ B \cap E \in SUBSET (1 .. n)
  BY DEF Betters, Equals, Below
<1> HIDE DEF r, p, L, B, E
<1>9. /\ IsFiniteSet(B) /\ Cardinality(B) \in Nat
      /\ IsFiniteSet(E) /\ Cardinality(E) \in Nat
      /\ IsFiniteSet(L) /\ Cardinality(L) \in Nat
      /\ IsFiniteSet(B \cup E) /\ Cardinality(B \cup E) \in Nat
      /\ Cardinality(B \cap E) \in Nat
  BY <1>8, PlacesAreFinite
<1>10. Cardinality(B) <= k - 1
  BY <1>3, <1>6, <1>9, FS_Subset
<1>11. Cardinality(L \cup {p}) = k
  <2>1. Cardinality(L \cup {p}) = Cardinality(L) + 1
    BY <1>5, <1>9, FS_AddElement
  <2>2. QED
    BY <1>3, <2>1
<1>12. k <= Cardinality(B \cup E)
  BY <1>7, <1>9, <1>11, FS_Subset
<1>13. Cardinality(B \cup E) = Cardinality(B) + Cardinality(E) - Cardinality(B \cap E)
  BY <1>9, FS_Union
<1>14. Cardinality(B \cup E) <= Cardinality(B) + Cardinality(E)
  BY <1>9, <1>13
<1>15. Cardinality(B) < k /\ k <= Cardinality(B) + Cardinality(E)
  BY <1>9, <1>10, <1>12, <1>14
<1>16. QED
  BY <1>2, <1>12, <1>15 DEF r, B, E

\* Another order of the outcomes has as many of them in every set.
LEMMA AsManyInAnyOrder ==
  ASSUME NEW n \in Nat, NEW f \in [1 .. n -> 1 .. n], IsInjective(f),
         NEW S \in SUBSET (1 .. n)
  PROVE  Cardinality({j \in 1 .. n : f[j] \in S}) = Cardinality(S)
<1> DEFINE P == {j \in 1 .. n : f[j] \in S}
           g == [j \in P |-> f[j]]
<1>1. IsFiniteSet(1 .. n)
  BY FS_Interval
<1>2. \A i, j \in 1 .. n : f[i] = f[j] => i = j
  BY DEF IsInjective
<1>3. f \in Surjection(1 .. n, 1 .. n)
  <2>1. f \in Injection(1 .. n, 1 .. n)
    BY <1>2 DEF Injection, IsInjective
  <2>2. QED
    BY <1>1, <2>1, FS_Injection
<1>4. \A s \in S : \E j \in P : f[j] = s
  BY <1>3 DEF Surjection
<1>5. g \in Bijection(P, S)
  BY <1>2, <1>4 DEF Bijection, Injection, IsInjective, Surjection
<1>6. P \in SUBSET (1 .. n)
  OBVIOUS
<1>7. IsFiniteSet(P)
  BY <1>6, PlacesAreFinite
<1> HIDE DEF P, g
<1>8. Cardinality(S) = Cardinality(P)
  BY <1>5, <1>7, FS_Bijection DEF ExistsBijection
<1>9. QED
  BY <1>8 DEF P

\* Two orders of the same outcomes cannot rank a worse one as high as a better.
LEMMA NeverAhead ==
  ASSUME NEW n \in Nat, NEW o \in [1 .. n -> Outcomes],
         NEW f \in [1 .. n -> 1 .. n], IsInjective(f),
         NEW seen, seen = [i \in 1 .. n |-> o[f[i]]], NEW k \in 1 .. n
  PROVE  LET x == BuildSweepRanking(o)[k]
             y == BuildSweepRanking(seen)[k]
         IN  /\ x \in Outcomes /\ y \in Outcomes
             /\ ~ Before(x, y) /\ ~ Before(y, x)
<1> DEFINE x == BuildSweepRanking(o)[k]
           y == BuildSweepRanking(seen)[k]
           U(r) == Betters(o, n, r) \cup Equals(o, n, r)
           V(r) == Betters(seen, n, r) \cup Equals(seen, n, r)
<1>1. seen \in [1 .. n -> Outcomes] /\ \A i \in 1 .. n : seen[i] = o[f[i]]
  OBVIOUS
<1>2. /\ x \in Outcomes /\ Cardinality(Betters(o, n, x)) < k
      /\ k <= Cardinality(U(x))
  BY RanksAreBounded
<1>3. /\ y \in Outcomes /\ Cardinality(Betters(seen, n, y)) < k
      /\ k <= Cardinality(V(y))
  BY <1>1, RanksAreBounded
<1> HIDE DEF x, y
<1>4. \A r : /\ Betters(o, n, r) \in SUBSET (1 .. n) /\ U(r) \in SUBSET (1 .. n)
             /\ Betters(seen, n, r) = {j \in 1 .. n : f[j] \in Betters(o, n, r)}
             /\ V(r) = {j \in 1 .. n : f[j] \in U(r)}
  BY <1>1 DEF Betters, Equals
<1> HIDE DEF U, V
<1>5. ASSUME NEW r
      PROVE  /\ Cardinality(Betters(seen, n, r)) = Cardinality(Betters(o, n, r))
             /\ Cardinality(V(r)) = Cardinality(U(r))
  <2>1. \A S \in SUBSET (1 .. n) :
           Cardinality({j \in 1 .. n : f[j] \in S}) = Cardinality(S)
    BY AsManyInAnyOrder
  <2>2. Cardinality({j \in 1 .. n : f[j] \in Betters(o, n, r)}) = Cardinality(Betters(o, n, r))
    BY <1>4, <2>1
  <2>3. Cardinality({j \in 1 .. n : f[j] \in U(r)}) = Cardinality(U(r))
    BY <1>4, <2>1
  <2>4. /\ Betters(seen, n, r) = {j \in 1 .. n : f[j] \in Betters(o, n, r)}
        /\ V(r) = {j \in 1 .. n : f[j] \in U(r)}
    BY <1>4
  <2>5. QED
    BY <2>2, <2>3, <2>4
<1>6. ASSUME NEW r \in Outcomes, NEW s \in Outcomes, Before(r, s),
             k <= Cardinality(U(r)), Cardinality(Betters(o, n, s)) < k
      PROVE  FALSE
  <2>1. U(r) \subseteq Betters(o, n, s)
    <3>1. ASSUME NEW i \in U(r)
          PROVE  i \in Betters(o, n, s)
      <4>1. i \in 1 .. n /\ o[i] \in Outcomes /\ (Before(o[i], r) \/ o[i] = r)
        BY DEF U, Betters, Equals
      <4>2. Before(o[i], s)
        BY <1>6, <4>1, BeforeOrders
      <4>3. QED
        BY <4>1, <4>2 DEF Betters
    <3>2. QED
      BY <3>1
  <2>2. /\ IsFiniteSet(Betters(o, n, s)) /\ Cardinality(Betters(o, n, s)) \in Nat
        /\ Cardinality(U(r)) \in Nat
    BY <1>4, PlacesAreFinite
  <2>3. Cardinality(U(r)) <= Cardinality(Betters(o, n, s))
    BY <2>1, <2>2, FS_Subset
  <2>4. QED
    BY <1>6, <2>2, <2>3
<1>7. ~ Before(x, y)
  BY <1>2, <1>3, <1>5, <1>6
<1>8. ~ Before(y, x)
  BY <1>2, <1>3, <1>5, <1>6
<1>9. QED
  BY <1>2, <1>3, <1>7, <1>8 DEF x, y

\* What was ranked.
RankingInv ==
    response = "ranked" =>
        /\ \E n \in Nat : outcomes \in [1 .. n -> Outcomes]
        /\ ranking = BuildSweepRanking(outcomes)

\* A sweep that was executed has recorded outcomes, and they are ranked.
LEMMA ExecuteRanks ==
  ASSUME PlanInv, NEW n \in Nat, NEW stopFailed \in BOOLEAN, Execute(n, stopFailed)
  PROVE  RankingInv'
<1>1. /\ sweep \in Sweeps /\ cases = ExpandSweepCases(sweep, base)
      /\ n <= Len(cases) /\ (stopFailed => n > 0)
  BY DEF PlanInv, Execute
<1>2. Len(cases) \in Nat /\ DOMAIN cases = 1 .. Len(cases)
  BY <1>1, ExpandedLength DEF ExpandedTo
<1> DEFINE number == IF stopFailed THEN Len(cases) + 1 ELSE n
<1>3. PICK ids \in Identities(cases),
           measured \in [1 .. n -> Measurements \cup {Failure}] :
         outcomes' = [i \in 1 .. number |->
                         IF i <= n THEN Outcome(ids[i], measured[i])
                                   ELSE Outcome(ids[i - 1], Failure)]
  BY DEF Execute
<1>4. ids \in [1 .. Len(cases) -> 1 .. Len(cases)]
  BY <1>2 DEF Identities
<1>5. number \in Nat
  BY <1>2
<1>6. ASSUME NEW i \in 1 .. number
      PROVE  (IF i <= n THEN Outcome(ids[i], measured[i])
                        ELSE Outcome(ids[i - 1], Failure)) \in Outcomes
  <2>1. CASE i <= n
    <3>1. i \in 1 .. n /\ i \in 1 .. Len(cases)
      BY <1>1, <1>2, <1>5, <2>1
    <3>2. ids[i] \in Nat /\ measured[i] \in Measurements \cup {Failure}
      BY <1>2, <1>4, <3>1
    <3>3. QED
      BY <2>1, <3>2 DEF Outcomes
  <2>2. CASE ~ (i <= n)
    <3>1. i - 1 \in 1 .. Len(cases)
      BY <1>1, <1>2, <1>5, <2>2
    <3>2. ids[i - 1] \in Nat
      BY <1>2, <1>4, <3>1
    <3>3. QED
      BY <2>2, <3>2 DEF Outcomes
  <2>3. QED
    BY <2>1, <2>2
<1> HIDE DEF number
<1>7. outcomes' \in [1 .. number -> Outcomes]
  BY <1>3, <1>6
<1>8. ranking' = BuildSweepRanking(outcomes')
  BY DEF Execute
<1>9. (ranking = BuildSweepRanking(outcomes))'
  BY <1>8
<1>10. QED
  BY <1>5, <1>7, <1>9 DEF RankingInv

\* No later step touches outcomes or ranking.
LEMMA RankingStep ==
  ASSUME PlanInv, RankingInv, [PlanNext]_planVars
  PROVE  RankingInv'
<1>1. CASE \E n \in 0 .. MaxRanked, stopFailed \in BOOLEAN : Execute(n, stopFailed)
  BY <1>1, ExecuteRanks
<1>2. CASE UNCHANGED planVars
  BY <1>2 DEF planVars, RankingInv
<1>3. CASE Validate
  <2>1. response' # "ranked"
    BY <1>3 DEF Validate, ValidateAndPlanSweepConfig
  <2>2. QED
    BY <2>1 DEF RankingInv
<1>4. CASE WorkloadNotSupported
  BY <1>4 DEF WorkloadNotSupported, RankingInv
<1>5. CASE EngineRefuses
  BY <1>5 DEF EngineRefuses, RankingInv
<1>6. ASSUME NEW args \in BaseArgs, EngineAccepts(args)
      PROVE  RankingInv'
  <2>1. response' # "ranked"
    BY <1>6 DEF EngineAccepts
  <2>2. QED
    BY <2>1 DEF RankingInv
<1>7. QED
  BY <1>1, <1>2, <1>3, <1>4, <1>5, <1>6 DEF PlanNext

LEMMA RankingInvariant == PlanSpec => []RankingInv
<1>1. PlanInit => RankingInv
  BY DEF PlanInit, RankingInv
<1>2. PlanInv /\ RankingInv /\ [PlanNext]_planVars => RankingInv'
  BY RankingStep
<1>3. QED
  BY <1>1, <1>2, PlanInvariant, PTL DEF PlanSpec

\* In a sorted ranking the ranks count the better.
LEMMA RanksCountTheBetter ==
  ASSUME RankingInv
  PROVE  RankingCountsTheBetter
<1>1. SUFFICES ASSUME response = "ranked"
               PROVE  RankingCountsTheBetter
  BY DEF RankingCountsTheBetter
<1>2. PICK n \in Nat : outcomes \in [1 .. n -> Outcomes]
  BY <1>1 DEF RankingInv
<1>3. ranking = BuildSweepRanking(outcomes)
  BY <1>1 DEF RankingInv
<1>4. DOMAIN ranking = 1 .. n /\ DOMAIN outcomes = 1 .. n
  BY <1>2, <1>3 DEF BuildSweepRanking
<1>5. Len(ranking) = n /\ Len(outcomes) = n
  <2>1. ranking = [k \in 1 .. n |-> ranking[k]]
    BY <1>2, <1>3 DEF BuildSweepRanking
  <2>2. QED
    BY <1>2, <2>1
<1> DEFINE isBetter(o, r) ==
               IF ~Completed(r)
               THEN Completed(o) \/ o.caseId < r.caseId
               ELSE /\ Completed(o)
                    /\ IF o.tokensPerSecond # r.tokensPerSecond
                       THEN o.tokensPerSecond > r.tokensPerSecond
                       ELSE IF o.latencyMs # r.latencyMs
                       THEN o.latencyMs < r.latencyMs
                       ELSE o.caseId < r.caseId
           better(r) == {i \in DOMAIN outcomes : isBetter(outcomes[i], r)}
           equal(r) == {i \in DOMAIN outcomes : outcomes[i] = r}
<1>6. ASSUME NEW o \in Outcomes, NEW r \in Outcomes
      PROVE  isBetter(o, r) <=> Before(o, r)
  <2>1. /\ o.caseId \in Nat /\ r.caseId \in Nat
        /\ Completed(o) => o.tokensPerSecond \in Nat /\ o.latencyMs \in Nat
        /\ Completed(r) => r.tokensPerSecond \in Nat /\ r.latencyMs \in Nat
    BY OutcomeIs
  <2>2. CASE ~ Completed(r)
    BY <2>2 DEF Before
  <2>3. CASE Completed(r) /\ ~ Completed(o)
    BY <2>3 DEF Before
  <2>4. CASE Completed(r) /\ Completed(o)
    BY <2>1, <2>4 DEF Before
  <2>5. QED
    BY <2>2, <2>3, <2>4
<1> HIDE DEF isBetter
<1>7. ASSUME NEW rank \in 1 .. n
      PROVE  /\ Cardinality(better(ranking[rank])) < rank
             /\ rank <= Cardinality(better(ranking[rank]))
                          + Cardinality(equal(ranking[rank]))
  <2> DEFINE r == ranking[rank]
  <2>1. /\ r \in Outcomes
        /\ Cardinality(Betters(outcomes, n, r)) < rank
        /\ rank <= Cardinality(Betters(outcomes, n, r)) + Cardinality(Equals(outcomes, n, r))
    BY <1>2, <1>3, RanksAreBounded
  <2> HIDE DEF r
  <2>2. better(r) = Betters(outcomes, n, r)
    BY <1>2, <1>4, <1>6, <2>1 DEF Betters
  <2>3. equal(r) = Equals(outcomes, n, r)
    BY <1>4 DEF Equals
  <2> HIDE DEF better, equal
  <2>4. QED
    BY <2>1, <2>2, <2>3 DEF r
<1>8. QED
  BY <1>4, <1>5, <1>7 DEF RankingCountsTheBetter, isBetter

\* For every set of measurements, and whether or not two cases share an
\* identity or one was recorded twice: the outcomes equal to one another have
\* the ranks that follow the outcomes better than they are.
THEOREM RanksAreCounts == PlanSpec => []RankingCountsTheBetter
<1>1. RankingInv => RankingCountsTheBetter
  BY RanksCountTheBetter
<1>2. QED
  BY <1>1, RankingInvariant, PTL

\* For every set of measurements: the ranking published for a sweep is a
\* function of the outcomes, not of the order in which they were recorded.
THEOREM RankingDetermined == PlanSpec => []RankingIsDeterministic
<1>1. RankingInv => RankingIsDeterministic
  <2>1. SUFFICES ASSUME RankingInv, response = "ranked",
                        NEW seen \in InAnyOrder(outcomes)
                 PROVE  BuildSweepRanking(seen) = ranking
    BY DEF RankingIsDeterministic
  <2>2. PICK n \in Nat : outcomes \in [1 .. n -> Outcomes]
    BY <2>1 DEF RankingInv
  <2>3. ranking = BuildSweepRanking(outcomes)
    BY <2>1 DEF RankingInv
  <2>4. PICK f \in [1 .. n -> 1 .. n] :
           IsInjective(f) /\ seen = [i \in 1 .. n |-> outcomes[f[i]]]
    BY <2>2 DEF InAnyOrder
  <2>5. ASSUME NEW k \in 1 .. n
        PROVE  BuildSweepRanking(seen)[k] = ranking[k]
    <3>1. /\ ranking[k] \in Outcomes /\ BuildSweepRanking(seen)[k] \in Outcomes
          /\ ~ Before(ranking[k], BuildSweepRanking(seen)[k])
          /\ ~ Before(BuildSweepRanking(seen)[k], ranking[k])
      BY <2>2, <2>3, <2>4, NeverAhead
    <3>2. QED
      BY <3>1, BeforeOrders
  <2>6. /\ ranking = [k \in 1 .. n |-> ranking[k]]
        /\ BuildSweepRanking(seen) = [k \in 1 .. n |-> BuildSweepRanking(seen)[k]]
    BY <2>2, <2>3, <2>4 DEF BuildSweepRanking
  <2>7. QED
    BY <2>5, <2>6
<1>2. QED
  BY <1>1, RankingInvariant, PTL

\* For every sweep: the ranking puts each outcome behind those better than it,
\* and does not depend on the order in which the cases were executed.
THEOREM RankingIsKept == PlanSpec => []RankingKeepsItsPromise
<1>1. RankingCountsTheBetter /\ RankingIsDeterministic => RankingKeepsItsPromise
  BY DEF RankingKeepsItsPromise
<1>2. QED
  BY <1>1, RanksAreCounts, RankingDetermined, PTL

===============================================================================
