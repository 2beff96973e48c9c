---------------------------- MODULE DriverProofs ----------------------------
(***************************************************************************)
(* The driver for any number of callers, processes, pages and regions: the  *)
(* types, the references to processes, the protections that are put back    *)
(* and the end of monitoring.                                               *)
(***************************************************************************)
EXTENDS Driver, FiniteSetTheorems, WellFoundedInduction, TLAPS

(* Pages and addresses *)

LEMMA DivBounds ==
    ASSUME NEW n \in Nat \ {0}, NEW x \in Nat
    PROVE  x \div n \in Nat /\ n * (x \div n) <= x /\ x < n * (x \div n + 1)
<1>1. PICK q \in Int : q = x \div n
  OBVIOUS
<1>2. n * q <= x /\ x < n * (q + 1)
  BY <1>1
<1>3. q >= 0
  <2>1. ASSUME q + 1 <= 0 PROVE FALSE
    <3>1. n * (q + 1) <= 0
      BY <2>1
    <3>2. QED BY <1>2, <3>1
  <2>2. QED BY <2>1
<1>4. QED BY <1>1, <1>2, <1>3

LEMMA DivMonotone ==
    ASSUME NEW n \in Nat \ {0}, NEW x \in Nat, NEW y \in Nat, x <= y
    PROVE  x \div n <= y \div n
<1>1. PICK q \in Nat : q = x \div n
  BY DivBounds
<1>2. PICK r \in Nat : r = y \div n
  BY DivBounds
<1>3. n * q <= x /\ y < n * (r + 1)
  BY <1>1, <1>2, DivBounds
<1>4. ASSUME r + 1 <= q PROVE FALSE
  <2>1. n * (r + 1) <= n * q
    BY <1>4
  <2>2. QED BY <1>3, <2>1
<1>5. QED BY <1>1, <1>2, <1>4

(* Rounding stays in the page, at or before the address.                    *)
LEMMA RoundedIs ==
    ASSUME NEW x \in Nat
    PROVE  Rounded(x) \in Nat /\ Rounded(x) <= x /\ PageOf(Rounded(x)) = PageOf(x)
<1>1. PageSize \in Nat \ {0}
  BY DriverAssumption DEF DriverAssumption
<1>2. PICK q \in Nat : q = x \div PageSize
  BY <1>1, DivBounds
<1>3. PageSize * q \in Nat /\ PageSize * q <= x
  BY <1>1, <1>2, DivBounds
<1>4. PICK r \in Nat : r = (PageSize * q) \div PageSize
  BY <1>1, <1>3, DivBounds
<1>5. r <= q
  <2>1. PageSize * r <= PageSize * q
    BY <1>1, <1>3, <1>4, DivBounds
  <2>2. ASSUME q + 1 <= r PROVE FALSE
    <3>1. PageSize * (q + 1) <= PageSize * r
      BY <1>1, <2>2
    <3>2. PageSize * (q + 1) = PageSize * q + PageSize
      BY <1>1
    <3>3. QED BY <1>1, <2>1, <3>1, <3>2
  <2>3. QED BY <2>2
<1>6. q <= r
  <2>1. PageSize * q < PageSize * (r + 1)
    BY <1>1, <1>3, <1>4, DivBounds
  <2>2. ASSUME r + 1 <= q PROVE FALSE
    <3>1. PageSize * (r + 1) <= PageSize * q
      BY <1>1, <2>2
    <3>2. QED BY <1>1, <2>1, <3>1
  <2>3. QED BY <2>2
<1>7. QED BY <1>2, <1>3, <1>4, <1>5, <1>6 DEF Rounded, PageOf

(* The size asked for, from the rounded address on, covers pages of the      *)
(* region only.                                                             *)
LEMMA SpanShrinks ==
    ASSUME NEW x \in Nat, NEW n \in Nat \ {0}
    PROVE  Span(Rounded(x), n) \subseteq Span(x, n)
<1>1. PICK y \in Nat : y = Rounded(x) /\ y <= x /\ PageOf(y) = PageOf(x)
  BY RoundedIs
<1>2. y + n - 1 \in Nat /\ x + n - 1 \in Nat /\ y + n - 1 <= x + n - 1
  BY <1>1
<1>3. PageSize \in Nat \ {0} /\ Pages \subseteq Nat
  BY DriverAssumption DEF DriverAssumption
<1>4. PageOf(y + n - 1) <= PageOf(x + n - 1)
  BY <1>2, <1>3, DivMonotone DEF PageOf
<1>5. PageOf(y + n - 1) \in Nat /\ PageOf(x + n - 1) \in Nat
  BY <1>2, <1>3, DivBounds DEF PageOf
<1>6. ASSUME NEW a \in Pages, PageOf(y) <= a, a <= PageOf(y + n - 1)
      PROVE  PageOf(x) <= a /\ a <= PageOf(x + n - 1)
  BY <1>1, <1>3, <1>4, <1>5, <1>6
<1>7. Span(y, n) \subseteq Span(x, n)
  BY <1>6 DEF Span
<1>8. QED BY <1>1, <1>7

-----------------------------------------------------------------------------
(* What the requests bring.                                                 *)
LEMMA Converted ==
    ASSUME NEW f \in FlagSets
    PROVE  Convert(f) \in SUBSET Flags
BY DriverAssumption DEF DriverAssumption, Convert, Rights, Flags

LEMMA PagesSet ==
    ASSUME prot \in [Procs -> [Pages -> SUBSET Flags]],
           NEW p \in Procs, NEW pages, NEW to \in SUBSET Flags, SetPages(p, pages, to)
    PROVE  prot' \in [Procs -> [Pages -> SUBSET Flags]]
BY DEF SetPages

(* A sequence without the entry at i.                                       *)
Without(s, i) == [j \in 1..(Len(s) - 1) |-> s[IF j < i THEN j ELSE j + 1]]

LEMMA WithoutType ==
    ASSUME NEW S, NEW s \in Seq(S), NEW i \in 1..Len(s)
    PROVE  Without(s, i) \in Seq(S)
<1>1. Len(s) - 1 \in Nat /\ \A j \in 1..Len(s) : s[j] \in S
  OBVIOUS
<1>2. Without(s, i) \in [1..(Len(s) - 1) -> S]
  BY <1>1 DEF Without
<1>3. QED BY <1>1, <1>2

(* A set of positions has a last one.                                       *)
LEMMA LastOf ==
    ASSUME NEW n \in Nat, NEW I, I \subseteq 1..n, I # {}
    PROVE  \E i \in I : \A k \in I : k <= i
<1> DEFINE Less == {p \in Nat \X Nat : p[1] < p[2]}
           Rest == {n - i : i \in I}
<1>1. IsWellFoundedOn(Less, Nat)
  BY NatLessThanWellFounded DEF OpToRel
<1>2. Rest \subseteq Nat /\ Rest # {}
  <2>1. ASSUME NEW i \in I PROVE n - i \in Nat
    <3>1. i \in 1..n
      OBVIOUS
    <3>2. QED BY <3>1
  <2>2. QED BY <2>1
<1>3. PICK m \in Rest : \A j \in Rest : ~(<<j, m>> \in Less)
  <2> HIDE DEF Less, Rest
  <2> QED BY <1>1, <1>2, WFMin, Zenon
<1>4. PICK i \in I : m = n - i
  OBVIOUS
<1>5. ASSUME NEW k \in I PROVE k <= i
  <2>1. n - k \in Nat /\ n - k \in Rest /\ m \in Nat
    BY <1>2
  <2>2. ~(n - k < m)
    BY <1>3, <2>1
  <2>3. QED BY <1>4, <2>1, <2>2
<1>6. QED BY <1>5

-----------------------------------------------------------------------------
(* Types *)

LifeType == driver \in {"unloaded", "loaded", "unloading"} /\ loads \in 0..MaxLoads

(* A caller that is past its first step has a request to work on, of a       *)
(* region that begins in a page.                                            *)
GuardType ==
    /\ prot \in [Procs -> [Pages -> SUBSET Flags]]
    /\ listed \in Seq(Entries) /\ refs \in [Procs -> Int]
    /\ place \in [Callers -> {"idle", "protect", "insert"}]
    /\ work \in [Callers -> Requests \cup {NoEntry}]
    /\ spoiled \in [Procs -> SUBSET Pages]
    /\ \A c \in Callers : place[c] # "idle" => work[c] \in Requests /\ PageOf(work[c].base) \in Pages

WatchType ==
    /\ hooked \subseteq Kinds /\ handles \subseteq Kinds /\ enabled \in BOOLEAN
    /\ log \in Seq(Cpus) /\ Len(log) <= MaxLog
    /\ noting \in [Cpus -> BOOLEAN] /\ late \in [Cpus -> Nat]

TypeInv == LifeType /\ GuardType /\ WatchType

LEMMA TypeInit == DriverInit => TypeInv
<1> SUFFICES ASSUME DriverInit PROVE TypeInv
  OBVIOUS
<1> USE DriverAssumption DEF DriverAssumption, DriverInit
<1>1. LifeType
  BY DEF LifeType
<1>2. GuardType
  <2>1. place \in [Callers -> {"idle", "protect", "insert"}] /\ \A c \in Callers : place[c] = "idle"
    OBVIOUS
  <2>2. work \in [Callers -> Requests \cup {NoEntry}]
    OBVIOUS
  <2>3. prot \in [Procs -> [Pages -> SUBSET Flags]] /\ spoiled \in [Procs -> SUBSET Pages]
    OBVIOUS
  <2>4. listed \in Seq(Entries) /\ refs \in [Procs -> Int]
    OBVIOUS
  <2>5. QED BY <2>1, <2>2, <2>3, <2>4 DEF GuardType
<1>3. WatchType
  <2>1. noting \in [Cpus -> BOOLEAN] /\ late \in [Cpus -> Nat]
    OBVIOUS
  <2>2. log \in Seq(Cpus) /\ Len(log) <= MaxLog
    OBVIOUS
  <2>3. hooked \subseteq Kinds /\ handles \subseteq Kinds /\ enabled \in BOOLEAN
    OBVIOUS
  <2>4. QED BY <2>1, <2>2, <2>3 DEF WatchType
<1>4. QED BY <1>1, <1>2, <1>3 DEF TypeInv

LEMMA WatchKept == WatchType /\ UNCHANGED watch => WatchType'
BY DEF WatchType, watch

LEMMA GuardKept == GuardType /\ UNCHANGED guard => GuardType'
BY DEF GuardType, guard

LEMMA PageRights ==
    ASSUME prot \in [Procs -> [Pages -> SUBSET Flags]], NEW p \in Procs, NEW a \in Pages
    PROVE  prot[p][a] \in SUBSET Flags
OBVIOUS

LEMMA SpoilType ==
    ASSUME spoiled \in [Procs -> SUBSET Pages], NEW p \in Procs, NEW pages \in SUBSET Pages,
           Spoil(p, pages)
    PROVE  spoiled' \in [Procs -> SUBSET Pages]
BY DEF Spoil

LEMMA GuardStep ==
    ASSUME GuardType, NEW c \in Callers,
           \/ \E p \in Procs, r \in Regions, f \in FlagSets : Query(c, p, r, f)
           \/ Protect(c) \/ Insert(c)
           \/ \E r \in Regions : Unprotect(c, r.base) \/ Unprotect(c, Rounded(r.base))
    PROVE  GuardType' /\ UNCHANGED <<driver, loads, watch>>
<1> USE DriverAssumption DEF DriverAssumption
<1>1. ASSUME NEW p \in Procs, NEW r \in Regions, NEW f \in FlagSets, Query(c, p, r, f)
      PROVE  GuardType' /\ UNCHANGED <<driver, loads, watch>>
  <2> DEFINE first == PageOf(r.base)
             span  == Span(r.base, r.size)
             w == [proc |-> p, base |-> r.base, size |-> r.size, span |-> span, flags |-> f,
                   original |-> prot[p][first], old |-> prot[p][first]]
  <2>1. r.base \in Nat /\ r.size \in Nat \ {0} /\ first \in Pages
    OBVIOUS
  <2>2. prot[p][first] \in SUBSET Flags
    BY <2>1, PageRights DEF GuardType
  <2>3. span \in SUBSET Pages /\ Unlike(p, first, span) \in SUBSET Pages
    BY DEF Span, Unlike
  <2>4. w \in Requests
    <3> HIDE DEF first, span
    <3>1. QED BY <2>1, <2>2, <2>3 DEF Requests
  <2>5. work' = [work EXCEPT ![c] = w] /\ place' = [place EXCEPT ![c] = "protect"]
        /\ spoiled' = [spoiled EXCEPT ![p] = @ \cup Unlike(p, first, span)]
        /\ UNCHANGED <<driver, loads, prot, listed, refs, watch>>
    BY <1>1 DEF Query, GoOn, Spoil
  <2> HIDE DEF w, first, span
  <2>6. work' \in [Callers -> Requests \cup {NoEntry}]
    BY <2>4, <2>5 DEF GuardType
  <2>7. spoiled' \in [Procs -> SUBSET Pages]
    BY <2>3, <2>5 DEF GuardType
  <2>8. place' \in [Callers -> {"idle", "protect", "insert"}]
        /\ \A d \in Callers : place'[d] # "idle" => work'[d] \in Requests /\ PageOf(work'[d].base) \in Pages
    <3>1. PageOf(w.base) \in Pages
      BY <2>1 DEF w, first
    <3>2. QED BY <2>4, <2>5, <3>1 DEF GuardType
  <2>9. QED BY <2>5, <2>6, <2>7, <2>8 DEF GuardType
<1>2. CASE Protect(c)
  <2> DEFINE w == work[c]
             first == PageOf(w.base)
  <2>1. w \in Requests /\ w.proc \in Procs /\ w.flags \in FlagSets /\ w.span \in SUBSET Pages
        /\ w.base \in Nat
    <3>1. w \in Requests
      BY <1>2 DEF Protect, GuardType
    <3> HIDE DEF w
    <3>2. QED BY <3>1 DEF Requests
  <2>2. CASE Valid(Convert(w.flags))
    <3> DEFINE e == [w EXCEPT !.base = Rounded(w.base), !.old = prot[w.proc][first]]
    <3>1. SetPages(w.proc, w.span, Convert(w.flags)) /\ place' = [place EXCEPT ![c] = "insert"]
          /\ work' = [work EXCEPT ![c] = e]
          /\ spoiled' = [spoiled EXCEPT ![w.proc] = @ \cup Unlike(w.proc, first, w.span)]
          /\ UNCHANGED <<driver, loads, listed, refs, watch>>
      BY <1>2, <2>2 DEF Protect, GoOn, Spoil
    <3>2. first \in Pages
      BY <1>2, <2>1 DEF Protect, GuardType
    <3>3. prot[w.proc][first] \in SUBSET Flags
      <4> HIDE DEF w, first
      <4>1. QED BY <2>1, <3>2, PageRights DEF GuardType
    <3>4. Rounded(w.base) \in Nat
      BY <2>1, RoundedIs
    <3>5. e \in Requests
      <4> HIDE DEF w, first
      <4>1. QED BY <2>1, <3>3, <3>4 DEF Requests
    <3>6. prot' \in [Procs -> [Pages -> SUBSET Flags]]
      BY <2>1, <3>1, Converted, PagesSet DEF GuardType
    <3>7. spoiled' \in [Procs -> SUBSET Pages]
      <4>1. Unlike(w.proc, first, w.span) \in SUBSET Pages
        BY <2>1 DEF Unlike
      <4> HIDE DEF w, first
      <4>2. QED BY <2>1, <3>1, <4>1 DEF GuardType
    <3>8. PageOf(e.base) = first
      <4>1. e.base = Rounded(w.base)
        <5> HIDE DEF w, first
        <5>1. QED BY <2>1 DEF Requests
      <4>2. QED BY <2>1, <4>1, RoundedIs
    <3> HIDE DEF e, w, first
    <3>9. work' \in [Callers -> Requests \cup {NoEntry}]
          /\ \A d \in Callers : place'[d] # "idle" => work'[d] \in Requests /\ PageOf(work'[d].base) \in Pages
      BY <3>1, <3>2, <3>5, <3>8 DEF GuardType
    <3>10. QED BY <3>1, <3>6, <3>7, <3>9 DEF GuardType
  <2>3. CASE ~Valid(Convert(w.flags))
    <3>1. place' = [place EXCEPT ![c] = "idle"] /\ work' = [work EXCEPT ![c] = NoEntry]
          /\ UNCHANGED <<driver, loads, prot, listed, refs, spoiled, watch>>
      BY <1>2, <2>3 DEF Protect, GoOn
    <3>2. QED BY <3>1 DEF GuardType
  <2>4. QED BY <2>2, <2>3
<1>3. CASE Insert(c)
  <2> DEFINE w == work[c]
             e == [proc |-> w.proc, base |-> w.base, size |-> w.size, original |-> w.original]
  <2>1. w.proc \in Procs /\ w.old \in SUBSET Flags /\ w.span \in SUBSET Pages /\ e \in Entries
    <3>1. w \in Requests
      BY <1>3 DEF Insert, GuardType
    <3> HIDE DEF w
    <3>2. QED BY <3>1 DEF Requests, Entries
  <2>2. place' = [place EXCEPT ![c] = "idle"] /\ work' = [work EXCEPT ![c] = NoEntry]
        /\ UNCHANGED <<driver, loads, watch>>
    BY <1>3 DEF Insert, GoOn
  <2>3. \/ /\ listed' = Append(listed, e) /\ refs' = [refs EXCEPT ![w.proc] = @ + 1] /\ UNCHANGED prot
           /\ spoiled' = [spoiled EXCEPT ![w.proc] = @ \cup (w.span \ Span(w.base, w.size))]
        \/ SetPages(w.proc, w.span, w.old) /\ UNCHANGED <<listed, refs, spoiled>>
    BY <1>3 DEF Insert, Spoil
  <2> HIDE DEF w, e
  <2>4. listed' \in Seq(Entries)
    <3>1. listed \in Seq(Entries)
      BY DEF GuardType
    <3>2. listed' = Append(listed, e) \/ listed' = listed
      BY <2>3
    <3>3. QED BY <2>1, <3>1, <3>2
  <2>5. refs' \in [Procs -> Int]
    <3>1. refs' = refs \/ refs' = [refs EXCEPT ![w.proc] = @ + 1]
      BY <2>3
    <3>2. QED BY <2>1, <3>1 DEF GuardType
  <2>6. prot' \in [Procs -> [Pages -> SUBSET Flags]]
    BY <2>1, <2>3, PagesSet DEF GuardType
  <2>7. spoiled' \in [Procs -> SUBSET Pages]
    <3>1. spoiled' = spoiled \/ Spoil(w.proc, w.span \ Span(w.base, w.size))
      BY <2>3 DEF Spoil
    <3>2. w.span \ Span(w.base, w.size) \in SUBSET Pages /\ spoiled \in [Procs -> SUBSET Pages]
      BY <2>1 DEF GuardType
    <3>3. QED BY <2>1, <3>1, <3>2, SpoilType
  <2>8. QED BY <2>2, <2>4, <2>5, <2>6, <2>7 DEF GuardType
<1>4. ASSUME NEW a, Unprotect(c, a)
      PROVE  GuardType' /\ UNCHANGED <<driver, loads, watch>>
  <2>1. PICK i \in DOMAIN listed :
           /\ SetPages(listed[i].proc, Span(a, listed[i].size), listed[i].original)
           /\ listed' = Without(listed, i)
           /\ refs' = [refs EXCEPT ![listed[i].proc] = @ - 1]
    BY <1>4 DEF Unprotect, Without
  <2>2. listed \in Seq(Entries) /\ i \in 1..Len(listed)
    BY DEF GuardType
  <2>3. listed[i] \in Entries
    BY <2>2
  <2>4. listed[i].proc \in Procs /\ listed[i].original \in SUBSET Flags
    BY <2>3 DEF Entries
  <2>5. listed' \in Seq(Entries)
    BY <2>1, <2>2, WithoutType
  <2>6. prot' \in [Procs -> [Pages -> SUBSET Flags]]
    BY <2>1, <2>4, PagesSet DEF GuardType
  <2>7. refs' \in [Procs -> Int]
    BY <2>1, <2>4 DEF GuardType
  <2>8. UNCHANGED <<driver, loads, place, work, spoiled, watch>>
    BY <1>4 DEF Unprotect
  <2>9. QED BY <2>5, <2>6, <2>7, <2>8 DEF GuardType
<1>5. QED BY <1>1, <1>2, <1>3, <1>4

LEMMA PutBackType ==
    ASSUME GuardType, NEW p \in Procs, NEW a \in Pages
    PROVE  PutBack(p, a) \in SUBSET Flags
<1> DEFINE covering == {i \in DOMAIN listed : Covers(listed[i], p, a)}
           last == CHOOSE i \in covering : \A k \in covering : k <= i
<1>1. CASE covering = {}
  BY <1>1 DEF PutBack, GuardType
<1>2. CASE covering # {}
  <2>1. listed \in Seq(Entries) /\ Len(listed) \in Nat /\ covering \subseteq 1..Len(listed)
    BY DEF GuardType
  <2>2. last \in covering
    <3> HIDE DEF covering
    <3>1. QED BY <1>2, <2>1, LastOf
  <2>3. PutBack(p, a) = listed[last].original
    BY <1>2 DEF PutBack
  <2>4. last \in 1..Len(listed)
    BY <2>1, <2>2
  <2> HIDE DEF last
  <2>5. listed[last] \in Entries
    BY <2>1, <2>4
  <2>6. QED BY <2>3, <2>5 DEF Entries
<1>3. QED BY <1>1, <1>2

LEMMA TypeStep == TypeInv /\ [DriverNext]_driverVars => TypeInv'
<1> SUFFICES ASSUME TypeInv, [DriverNext]_driverVars PROVE TypeInv'
  OBVIOUS
<1>0. LifeType /\ GuardType /\ WatchType
  BY DEF TypeInv
<1> USE DriverAssumption DEF DriverAssumption
<1>1. CASE Load
  <2>1. \E done \in SUBSET Kinds : hooked' = done /\ handles' = Kinds \ done
    BY <1>1 DEF Load
  <2>2. hooked' \subseteq Kinds /\ handles' \subseteq Kinds
    BY <2>1
  <2>3. WatchType'
    BY <1>0, <1>1, <2>2 DEF Load, WatchType
  <2>4. GuardType'
    BY <1>0, <1>1 DEF Load, GuardType
  <2>5. QED BY <1>0, <1>1, <2>3, <2>4 DEF Load, LifeType, TypeInv
<1>2. CASE UnloadGuard
  <2>1. /\ prot' = [p \in Procs |-> [a \in Pages |-> PutBack(p, a)]] /\ listed' = <<>>
        /\ refs' = [p \in Procs |-> refs[p] - Cardinality({i \in DOMAIN listed : listed[i].proc = p})]
        /\ driver' = "unloading" /\ UNCHANGED <<loads, place, work, spoiled, watch>>
    BY <1>2 DEF UnloadGuard
  <2>2. prot' \in [Procs -> [Pages -> SUBSET Flags]]
    BY <1>0, <2>1, PutBackType
  <2>3. refs' \in [Procs -> Int]
    <3>1. ASSUME NEW p \in Procs PROVE Cardinality({i \in DOMAIN listed : listed[i].proc = p}) \in Nat
      <4>1. Len(listed) \in Nat /\ DOMAIN listed = 1..Len(listed)
        BY <1>0 DEF GuardType
      <4>2. IsFiniteSet({i \in DOMAIN listed : listed[i].proc = p})
        <5>1. IsFiniteSet(1..Len(listed))
          BY <4>1, FS_Interval
        <5>2. {i \in DOMAIN listed : listed[i].proc = p} \subseteq 1..Len(listed)
          BY <4>1
        <5>3. QED BY <5>1, <5>2, FS_Subset
      <4>3. QED BY <4>2, FS_CardinalityType
    <3>2. \A p \in Procs : refs[p] \in Int
      BY <1>0 DEF GuardType
    <3>3. QED BY <2>1, <3>1, <3>2
  <2>4. GuardType'
    BY <1>0, <2>1, <2>2, <2>3 DEF GuardType
  <2>5. QED BY <1>0, <2>1, <2>4, WatchKept DEF LifeType, TypeInv
<1>3. CASE UnloadWatcher
  <2>1. WatchType'
    <3>1. log' \in Seq(Cpus) /\ Len(log') <= MaxLog /\ late' \in [Cpus -> Nat]
      BY <1>3 DEF UnloadWatcher
    <3>2. hooked' \subseteq Kinds /\ handles' \subseteq Kinds /\ enabled' \in BOOLEAN
      BY <1>0, <1>3 DEF UnloadWatcher, WatchType
    <3>3. QED BY <1>0, <1>3, <3>1, <3>2 DEF UnloadWatcher, WatchType
  <2>2. QED BY <1>0, <1>3, <2>1, GuardKept DEF UnloadWatcher, LifeType, TypeInv
<1>4. ASSUME NEW c \in Callers, Request(c) PROVE TypeInv'
  <2>1. ASSUME NEW on \in BOOLEAN, Monitor(c, on) PROVE TypeInv'
    <3>1. WatchType'
      <4>1. late' \in [Cpus -> Nat] /\ enabled' \in BOOLEAN
        BY <2>1 DEF Monitor
      <4>2. UNCHANGED <<hooked, handles, log, noting>>
        BY <2>1 DEF Monitor
      <4>3. QED BY <1>0, <4>1, <4>2, Zenon DEF WatchType
    <3>2. QED BY <1>0, <2>1, <3>1, GuardKept DEF Monitor, LifeType, TypeInv
  <2>2. CASE ~(\E on \in BOOLEAN : Monitor(c, on))
    <3>1. GuardType' /\ UNCHANGED <<driver, loads, watch>>
      BY <1>0, <1>4, <2>2, GuardStep DEF Request
    <3>2. QED BY <1>0, <3>1, WatchKept DEF LifeType, TypeInv
  <2>3. QED BY <2>1, <2>2
<1>5. ASSUME NEW n \in Cpus, Notice(n) PROVE TypeInv'
  <2>1. CASE Test(n)
    <3>1. WatchType'
      BY <1>0, <2>1 DEF Test, WatchType
    <3>2. QED BY <1>0, <2>1, <3>1, GuardKept DEF Test, LifeType, TypeInv
  <2>2. CASE Note(n)
    <3>1. noting' \in [Cpus -> BOOLEAN] /\ late' \in [Cpus -> Nat]
      <4>1. noting' \in [Cpus -> BOOLEAN]
        BY <1>0, <2>2 DEF Note, WatchType
      <4>2. late' = late \/ late' = [late EXCEPT ![n] = IF enabled THEN @ ELSE @ + 1]
        BY <2>2 DEF Note
      <4>3. late' \in [Cpus -> Nat]
        <5>1. late \in [Cpus -> Nat]
          BY <1>0 DEF WatchType
        <5>2. QED BY <4>2, <5>1
      <4>4. QED BY <4>1, <4>3
    <3>2. log' \in Seq(Cpus) /\ Len(log') <= MaxLog
      <4>1. log \in Seq(Cpus) /\ Len(log) \in Nat /\ Len(log) <= MaxLog
        BY <1>0 DEF WatchType
      <4>2. log' = log \/ (log' = Append(log, n) /\ Len(log) < MaxLog)
        BY <2>2 DEF Note
      <4>3. CASE log' = log
        BY <4>1, <4>3
      <4>4. CASE log' = Append(log, n) /\ Len(log) < MaxLog
        BY <4>1, <4>4
      <4>5. QED BY <4>2, <4>3, <4>4
    <3>3. WatchType'
      BY <1>0, <2>2, <3>1, <3>2 DEF Note, WatchType
    <3>4. QED BY <1>0, <2>2, <3>3, GuardKept DEF Note, LifeType, TypeInv
  <2>3. QED BY <1>5, <2>1, <2>2 DEF Notice
<1>6. ASSUME NEW p \in Procs, NEW a \in Pages, NEW to \in SUBSET Flags, Reprotect(p, a, to) PROVE TypeInv'
  <2>1. SetPages(p, {a}, to) /\ UNCHANGED <<driver, loads, listed, refs, place, work, spoiled, watch>>
    BY <1>6 DEF Reprotect
  <2>2. prot' \in [Procs -> [Pages -> SUBSET Flags]]
    BY <1>0, <2>1, PagesSet DEF GuardType
  <2>3. GuardType'
    BY <1>0, <2>1, <2>2 DEF GuardType
  <2>4. QED BY <1>0, <2>1, <2>3, WatchKept DEF LifeType, TypeInv
<1>7. ASSUME NEW p \in Procs, NEW a \in Pages, NEW f \in FlagSets,
             Reprotect(p, a, Convert(f)) \/ Reprotect(p, a, Given[p][a])
      PROVE  TypeInv'
  <2>1. Convert(f) \in SUBSET Flags /\ Given[p][a] \in SUBSET Flags
    BY Converted
  <2>2. QED BY <1>6, <1>7, <2>1
<1>8. CASE UNCHANGED driverVars
  BY <1>0, <1>8, GuardKept, WatchKept DEF driverVars, LifeType, TypeInv
<1>9. QED BY <1>1, <1>2, <1>3, <1>4, <1>5, <1>7, <1>8 DEF DriverNext

(* Entries, protections and the log keep their types; the log never exceeds *)
(* its size, whoever writes to it.                                          *)
THEOREM DriverTypeCorrect == DriverSpec => []DriverTypeOK
<1>1. TypeInv => DriverTypeOK
  BY DEF TypeInv, LifeType, GuardType, WatchType, DriverTypeOK
<1>2. QED BY <1>1, TypeInit, TypeStep, PTL DEF DriverSpec

-----------------------------------------------------------------------------
(* The end of monitoring *)

(* Nobody is late while the watch is on, and who was late once has no       *)
(* event left to write.                                                     *)
LateInv == \A n \in Cpus :
    /\ enabled => late[n] = 0
    /\ late[n] = 0 \/ (late[n] = 1 /\ ~noting[n])

LEMMA LateStep == TypeInv /\ LateInv /\ [DriverNext]_driverVars => LateInv'
<1> SUFFICES ASSUME TypeInv, LateInv, [DriverNext]_driverVars PROVE LateInv'
  OBVIOUS
<1> USE DEF TypeInv, WatchType
<1>1. CASE Load
  BY <1>1 DEF Load, LateInv
<1>2. CASE UnloadWatcher
  BY <1>2 DEF UnloadWatcher, LateInv
<1>3. ASSUME NEW c \in Callers, NEW on \in BOOLEAN, Monitor(c, on) PROVE LateInv'
  BY <1>3 DEF Monitor, LateInv
<1>4. ASSUME NEW n \in Cpus, Test(n) PROVE LateInv'
  BY <1>4 DEF Test, LateInv
<1>5. ASSUME NEW n \in Cpus, Note(n) PROVE LateInv'
  BY <1>5 DEF Note, LateInv
<1>6. CASE UNCHANGED watch
  BY <1>6 DEF watch, LateInv
<1>7. QED
  BY <1>1, <1>2, <1>3, <1>4, <1>5, <1>6
  DEF DriverNext, Request, Notice, Query, Protect, Insert, Unprotect, UnloadGuard, Reprotect, driverVars

(* Once monitoring is switched off, no processor logs more than the one     *)
(* event it had already decided to log.                                     *)
THEOREM DriverStopDrains == DriverSpec => []StopDrains
<1>1. DriverInit => LateInv
  BY DEF DriverInit, LateInv
<1>2. LateInv => StopDrains
  BY DEF LateInv, StopDrains
<1>3. QED BY <1>1, <1>2, TypeInit, TypeStep, LateStep, PTL DEF DriverSpec

-----------------------------------------------------------------------------
(* References to processes *)

(* The entries of a process.                                                *)
Of(p) == {i \in DOMAIN listed : listed[i].proc = p}

(* Outside the life of the driver nothing is listed and nobody is in it.    *)
QuietInv == driver # "loaded" => listed = <<>> /\ \A c \in Callers : place[c] = "idle"

LEMMA QuietStep == TypeInv /\ QuietInv /\ [DriverNext]_driverVars => QuietInv'
<1> SUFFICES ASSUME TypeInv, QuietInv, [DriverNext]_driverVars PROVE QuietInv'
  OBVIOUS
<1> USE DEF QuietInv, TypeInv, LifeType, GuardType
<1>1. CASE Load
  BY <1>1 DEF Load
<1>2. CASE UnloadGuard
  BY <1>2 DEF UnloadGuard
<1>3. CASE UnloadWatcher
  BY <1>3 DEF UnloadWatcher, guard
<1>4. ASSUME NEW c \in Callers, Request(c) PROVE QuietInv'
  <2>1. driver = "loaded" /\ driver' = driver
    BY <1>4 DEF Request, Query, Protect, Insert, Unprotect, Monitor, Ready
  <2>2. QED BY <2>1
<1>5. CASE \E n \in Cpus : Notice(n)
  BY <1>5 DEF Notice, Test, Note, guard
<1>6. CASE UNCHANGED <<driver, listed, place>>
  BY <1>6
<1>7. QED BY <1>1, <1>2, <1>3, <1>4, <1>5, <1>6 DEF DriverNext, Reprotect, driverVars, guard

LEMMA OfFinite ==
    ASSUME GuardType, NEW p
    PROVE  IsFiniteSet(Of(p)) /\ Cardinality(Of(p)) \in Nat
<1>1. Len(listed) \in Nat /\ DOMAIN listed = 1..Len(listed)
  BY DEF GuardType
<1>2. IsFiniteSet(1..Len(listed)) /\ Of(p) \subseteq 1..Len(listed)
  BY <1>1, FS_Interval DEF Of
<1>3. QED BY <1>2, FS_Subset, FS_CardinalityType

(* One more entry of a process counts once.                                 *)
LEMMA OfAppended ==
    ASSUME GuardType, NEW e, listed' = Append(listed, e), NEW p
    PROVE  Cardinality(Of(p)') = Cardinality(Of(p)) + (IF e.proc = p THEN 1 ELSE 0)
<1>1. /\ Len(listed) \in Nat /\ DOMAIN listed = 1..Len(listed)
      /\ DOMAIN listed' = 1..(Len(listed) + 1)
      /\ listed'[Len(listed) + 1] = e
      /\ \A i \in 1..Len(listed) : listed'[i] = listed[i]
  BY DEF GuardType
<1>2. CASE e.proc = p
  <2>1. Of(p)' = Of(p) \cup {Len(listed) + 1} /\ Len(listed) + 1 \notin Of(p)
    BY <1>1, <1>2 DEF Of
  <2>2. QED BY <1>2, <2>1, OfFinite, FS_AddElement
<1>3. CASE e.proc # p
  <2>1. Of(p)' = Of(p)
    BY <1>1, <1>3 DEF Of
  <2>2. QED BY <1>3, <2>1, OfFinite
<1>4. QED BY <1>2, <1>3

(* So does one less: the entries behind it move up.                         *)
LEMMA OfRemoved ==
    ASSUME GuardType, NEW i \in DOMAIN listed, listed' = Without(listed, i), NEW p
    PROVE  Cardinality(Of(p)') = Cardinality(Of(p)) - (IF listed[i].proc = p THEN 1 ELSE 0)
<1> DEFINE f == [j \in Of(p) \ {i} |-> IF j < i THEN j ELSE j - 1]
<1>1. /\ Len(listed) \in Nat /\ DOMAIN listed = 1..Len(listed)
      /\ DOMAIN listed' = 1..(Len(listed) - 1)
      /\ \A j \in 1..(Len(listed) - 1) : listed'[j] = listed[IF j < i THEN j ELSE j + 1]
  BY DEF GuardType, Without
<1>2. f \in [Of(p) \ {i} -> Of(p)']
  BY <1>1 DEF Of
<1>3. \A j, k \in Of(p) \ {i} : f[j] = f[k] => j = k
  BY <1>1 DEF Of
<1>4. \A k \in Of(p)' : \E j \in Of(p) \ {i} : f[j] = k
  <2> SUFFICES ASSUME NEW k \in Of(p)' PROVE \E j \in Of(p) \ {i} : f[j] = k
    OBVIOUS
  <2>1. k \in 1..(Len(listed) - 1) /\ listed[IF k < i THEN k ELSE k + 1].proc = p
    BY <1>1 DEF Of
  <2>2. CASE k < i
    <3>1. k \in Of(p) \ {i} /\ f[k] = k
      BY <1>1, <2>1, <2>2 DEF Of
    <3>2. QED BY <3>1
  <2>3. CASE ~(k < i)
    <3>1. k + 1 \in Of(p) \ {i} /\ f[k + 1] = k
      BY <1>1, <2>1, <2>3 DEF Of
    <3>2. QED BY <3>1
  <2>4. QED BY <2>2, <2>3
<1>5. ExistsBijection(Of(p) \ {i}, Of(p)')
  <2> HIDE DEF f
  <2>1. f \in Bijection(Of(p) \ {i}, Of(p)')
    BY <1>2, <1>3, <1>4 DEF Bijection, Injection, Surjection, IsInjective
  <2>2. QED BY <2>1 DEF ExistsBijection
<1>6. /\ IsFiniteSet(Of(p) \ {i})
      /\ Cardinality(Of(p) \ {i}) = (IF i \in Of(p) THEN Cardinality(Of(p)) - 1 ELSE Cardinality(Of(p)))
  BY OfFinite, FS_RemoveElement
<1>7. Cardinality(Of(p)') = Cardinality(Of(p) \ {i})
  BY <1>5, <1>6, FS_Bijection
<1>8. i \in Of(p) <=> listed[i].proc = p
  BY DEF Of
<1>9. QED BY <1>6, <1>7, <1>8, OfFinite

LEMMA ReferencedStep == TypeInv /\ QuietInv /\ Referenced /\ [DriverNext]_driverVars => Referenced'
<1> SUFFICES ASSUME TypeInv, QuietInv, Referenced, [DriverNext]_driverVars PROVE Referenced'
  OBVIOUS
<1>0. GuardType /\ \A p \in Procs : refs[p] = Cardinality(Of(p))
  BY DEF TypeInv, Referenced, Of
<1>1. CASE UNCHANGED <<listed, refs>>
  BY <1>1 DEF Referenced
<1>2. CASE Load
  <2>1. UNCHANGED <<listed, refs>>
    BY <1>2 DEF Load, QuietInv
  <2>2. QED BY <1>1, <2>1
<1>3. CASE UnloadGuard
  <2>1. listed' = <<>> /\ \A p \in Procs : refs'[p] = refs[p] - Cardinality(Of(p))
    BY <1>3 DEF UnloadGuard, Of
  <2>2. \A p \in Procs : refs'[p] = 0
    BY <1>0, <2>1, OfFinite
  <2>3. ASSUME NEW p \in Procs PROVE Cardinality({i \in DOMAIN listed' : listed'[i].proc = p}) = 0
    <3>1. {i \in DOMAIN listed' : listed'[i].proc = p} = {}
      BY <2>1
    <3>2. QED BY <3>1, FS_EmptySet
  <2>4. QED BY <2>2, <2>3 DEF Referenced
<1>4. ASSUME NEW c \in Callers, Insert(c) PROVE Referenced'
  <2> DEFINE e == [proc |-> work[c].proc, base |-> work[c].base, size |-> work[c].size,
                   original |-> work[c].original]
  <2>1. CASE listed' = Append(listed, e) /\ refs' = [refs EXCEPT ![work[c].proc] = @ + 1]
    <3>1. ASSUME NEW p \in Procs PROVE refs'[p] = Cardinality(Of(p)')
      <4>1. refs'[p] = refs[p] + (IF e.proc = p THEN 1 ELSE 0)
        BY <1>0, <2>1 DEF GuardType
      <4> HIDE DEF e
      <4>2. QED BY <1>0, <2>1, <4>1, OfAppended
    <3>2. QED BY <3>1 DEF Referenced, Of
  <2>2. QED BY <1>1, <1>4, <2>1 DEF Insert
<1>5. ASSUME NEW c \in Callers, NEW a, Unprotect(c, a) PROVE Referenced'
  <2>1. PICK i \in DOMAIN listed :
           listed' = Without(listed, i) /\ refs' = [refs EXCEPT ![listed[i].proc] = @ - 1]
    BY <1>5 DEF Unprotect, Without
  <2>2. ASSUME NEW p \in Procs PROVE refs'[p] = Cardinality(Of(p)')
    <3>1. refs'[p] = refs[p] - (IF listed[i].proc = p THEN 1 ELSE 0)
      BY <1>0, <2>1 DEF GuardType
    <3>2. QED BY <1>0, <2>1, <3>1, OfRemoved
  <2>3. QED BY <2>2 DEF Referenced, Of
<1>6. QED
  BY <1>1, <1>2, <1>3, <1>4, <1>5
  DEF DriverNext, Request, Notice, Query, Protect, Monitor, Test, Note, UnloadWatcher, Reprotect, guard, driverVars

(* The driver refers to a process exactly once for each of its entries.     *)
THEOREM DriverReferences == DriverSpec => []Referenced
<1>1. DriverInit => QuietInv /\ Referenced
  <2> SUFFICES ASSUME DriverInit PROVE QuietInv /\ Referenced
    OBVIOUS
  <2>1. ASSUME NEW p \in Procs PROVE refs[p] = Cardinality({i \in DOMAIN listed : listed[i].proc = p})
    <3>1. {i \in DOMAIN listed : listed[i].proc = p} = {} /\ refs[p] = 0
      BY DEF DriverInit
    <3>2. QED BY <3>1, FS_EmptySet
  <2>2. QED BY <2>1 DEF DriverInit, QuietInv, Referenced
<1>2. QED BY <1>1, TypeInit, TypeStep, QuietStep, ReferencedStep, PTL DEF DriverSpec

-----------------------------------------------------------------------------
(* Protections put back *)

(* What is kept to be put back on a page is the page's own protection, except *)
(* on the spoiled ones.                                                     *)
EntriesRight ==
    \A i \in DOMAIN listed : \A a \in Span(listed[i].base, listed[i].size) :
        a \notin spoiled[listed[i].proc] => listed[i].original = Given[listed[i].proc][a]
RequestsRight ==
        \A c \in Callers : place[c] # "idle" =>
            /\ place[c] = "protect" => work[c].span = Span(work[c].base, work[c].size)
            /\ Span(work[c].base, work[c].size) \subseteq work[c].span
            /\ \A a \in work[c].span : a \notin spoiled[work[c].proc] =>
                   /\ work[c].original = Given[work[c].proc][a]
                   /\ place[c] = "insert" => work[c].old = Given[work[c].proc][a]
KeptInv == EntriesRight /\ RequestsRight /\ Released

LEMMA EntryAt ==
    ASSUME GuardType, NEW i \in DOMAIN listed
    PROVE  listed[i] \in Entries
BY DEF GuardType

LEMMA PagesAre ==
    ASSUME prot \in [Procs -> [Pages -> SUBSET Flags]],
           NEW q \in Procs, NEW pages, NEW to, SetPages(q, pages, to),
           NEW p \in Procs, NEW a \in Pages
    PROVE  prot'[p][a] = IF p = q /\ a \in pages THEN to ELSE prot[p][a]
BY DEF SetPages

(* Nothing is ever taken out of the spoiled pages.                          *)
LEMMA SpoilKeeps ==
    ASSUME spoiled \in [Procs -> SUBSET Pages], NEW q \in Procs, NEW pages, Spoil(q, pages),
           NEW p \in Procs
    PROVE  /\ spoiled[p] \subseteq spoiled'[p]
           /\ p = q => pages \subseteq spoiled'[p]
BY DEF Spoil

LEMMA KeptQuery ==
    ASSUME TypeInv, KeptInv, NEW c \in Callers, NEW p \in Procs, NEW r \in Regions,
           NEW f \in FlagSets, Query(c, p, r, f)
    PROVE  KeptInv'
<1> DEFINE first == PageOf(r.base)
           span  == Span(r.base, r.size)
           w == [proc |-> p, base |-> r.base, size |-> r.size, span |-> span, flags |-> f,
                 original |-> prot[p][first], old |-> prot[p][first]]
<1>0. GuardType /\ EntriesRight /\ RequestsRight /\ Released
  BY DEF TypeInv, KeptInv
<1>1. /\ place' = [place EXCEPT ![c] = "protect"] /\ work' = [work EXCEPT ![c] = w]
      /\ Spoil(p, Unlike(p, first, span)) /\ place[c] = "idle" /\ UNCHANGED <<prot, listed>>
  BY DEF Query, GoOn, Ready
<1>2. /\ place'[c] = "protect" /\ work'[c] = w
      /\ \A d \in Callers : d # c => place'[d] = place[d] /\ work'[d] = work[d]
  BY <1>0, <1>1 DEF GuardType
<1>3. \A q \in Procs : spoiled[q] \subseteq spoiled'[q]
  BY <1>0, <1>1, SpoilKeeps DEF GuardType
<1>4. \A i \in DOMAIN listed : listed[i].proc \in Procs
  BY <1>0, EntryAt DEF Entries
<1>5. \A d \in Callers : place[d] # "idle" => work[d].proc \in Procs
  BY <1>0 DEF GuardType, Requests
<1>6. EntriesRight'
  BY <1>0, <1>1, <1>3, <1>4 DEF EntriesRight
<1>7. RequestsRight'
  <2>1. ASSUME NEW a \in span, a \notin spoiled'[p] PROVE prot[p][first] = Given[p][a]
    <3>1. Unlike(p, first, span) \subseteq spoiled'[p]
      BY <1>0, <1>1, SpoilKeeps DEF GuardType
    <3>2. QED BY <2>1, <3>1 DEF Unlike
  <2>2. w.proc = p /\ w.span = span /\ w.base = r.base /\ w.size = r.size /\ w.original = prot[p][first]
    OBVIOUS
  <2> HIDE DEF w, first
  <2>3. /\ place'[c] = "protect" /\ work'[c].span = Span(work'[c].base, work'[c].size)
        /\ \A a \in work'[c].span : a \notin spoiled'[work'[c].proc] => work'[c].original = Given[work'[c].proc][a]
    BY <1>2, <2>1, <2>2
  <2> HIDE DEF span
  <2>4. ASSUME NEW d \in Callers, d # c, place'[d] # "idle"
        PROVE  /\ place'[d] = "protect" => work'[d].span = Span(work'[d].base, work'[d].size)
               /\ Span(work'[d].base, work'[d].size) \subseteq work'[d].span
               /\ \A a \in work'[d].span : a \notin spoiled'[work'[d].proc] =>
                     /\ work'[d].original = Given[work'[d].proc][a]
                     /\ place'[d] = "insert" => work'[d].old = Given[work'[d].proc][a]
    BY <1>0, <1>2, <1>3, <1>5, <2>4 DEF RequestsRight
  <2>5. QED BY <2>3, <2>4 DEF RequestsRight, Span
<1> HIDE DEF w, first, span
<1>8. Released'
  <2> SUFFICES ASSUME NEW q \in Procs, NEW a \in Pages, a \notin spoiled'[q],
                      \A i \in DOMAIN listed : ~Covers(listed[i], q, a),
                      \A d \in Callers : ~(place'[d] = "insert" /\ work'[d].proc = q /\ a \in work'[d].span)
               PROVE  prot[q][a] = Given[q][a]
    BY <1>1 DEF Released, Covers, Span, PageOf
  <2>1. \A d \in Callers : ~(place[d] = "insert" /\ work[d].proc = q /\ a \in work[d].span)
    BY <1>1, <1>2
  <2>2. QED BY <1>0, <1>3, <2>1 DEF Released
<1>9. QED BY <1>6, <1>7, <1>8 DEF KeptInv

LEMMA KeptIdle ==
    ASSUME TypeInv, KeptInv, NEW c \in Callers, place[c] = "protect",
           place' = [place EXCEPT ![c] = "idle"], work' = [work EXCEPT ![c] = NoEntry],
           UNCHANGED <<prot, listed, spoiled>>
    PROVE  KeptInv'
<1>0. GuardType /\ EntriesRight /\ RequestsRight /\ Released
  BY DEF TypeInv, KeptInv
<1>1. /\ place'[c] = "idle"
      /\ \A d \in Callers : d # c => place'[d] = place[d] /\ work'[d] = work[d]
  BY <1>0 DEF GuardType
<1>2. EntriesRight'
  BY <1>0 DEF EntriesRight, Span
<1>3. RequestsRight'
  BY <1>0, <1>1 DEF RequestsRight, Span
<1>4. Released'
  <2> SUFFICES ASSUME NEW q \in Procs, NEW a \in Pages, a \notin spoiled[q],
                      \A i \in DOMAIN listed : ~Covers(listed[i], q, a),
                      \A d \in Callers : ~(place'[d] = "insert" /\ work'[d].proc = q /\ a \in work'[d].span)
               PROVE  prot[q][a] = Given[q][a]
    BY DEF Released, Covers, Span, PageOf
  <2>1. \A d \in Callers : ~(place[d] = "insert" /\ work[d].proc = q /\ a \in work[d].span)
    BY <1>1
  <2>2. QED BY <1>0, <2>1 DEF Released
<1>5. QED BY <1>2, <1>3, <1>4 DEF KeptInv

LEMMA KeptProtect ==
    ASSUME TypeInv, KeptInv, NEW c \in Callers, Protect(c)
    PROVE  KeptInv'
<1> DEFINE w == work[c]
           first == PageOf(w.base)
<1>0. GuardType /\ EntriesRight /\ RequestsRight /\ Released /\ place[c] = "protect"
  BY DEF TypeInv, KeptInv, Protect
<1>1. /\ w \in Requests /\ w.proc \in Procs /\ w.base \in Nat /\ w.size \in Nat \ {0}
      /\ w.span \in SUBSET Pages
  <2>1. w \in Requests
    BY <1>0 DEF GuardType
  <2> HIDE DEF w
  <2>2. QED BY <2>1 DEF Requests
<1>2. \A i \in DOMAIN listed : listed[i].proc \in Procs
  BY <1>0, EntryAt DEF Entries
<1>3. \A d \in Callers : place[d] # "idle" => work[d].proc \in Procs
  BY <1>0 DEF GuardType, Requests
<1>4. CASE Valid(Convert(w.flags))
  <2> DEFINE e == [w EXCEPT !.base = Rounded(w.base), !.old = prot[w.proc][first]]
  <2>1. /\ SetPages(w.proc, w.span, Convert(w.flags)) /\ place' = [place EXCEPT ![c] = "insert"]
        /\ work' = [work EXCEPT ![c] = e] /\ Spoil(w.proc, Unlike(w.proc, first, w.span))
        /\ UNCHANGED listed
    BY <1>4 DEF Protect, GoOn
  <2>2. /\ e.proc = w.proc /\ e.span = w.span /\ e.base = Rounded(w.base) /\ e.size = w.size
        /\ e.original = w.original /\ e.old = prot[w.proc][first]
    <3> HIDE DEF w, first
    <3>1. QED BY <1>1 DEF Requests
  <2>3. /\ place'[c] = "insert" /\ work'[c] = e
        /\ \A d \in Callers : d # c => place'[d] = place[d] /\ work'[d] = work[d]
    <3> HIDE DEF e
    <3>1. QED BY <1>0, <2>1 DEF GuardType
  <2> HIDE DEF e
  <2>4. \A q \in Procs : spoiled[q] \subseteq spoiled'[q]
    BY <1>0, <1>1, <2>1, SpoilKeeps DEF GuardType
  <2>5. Unlike(w.proc, first, w.span) \subseteq spoiled'[w.proc]
    BY <1>0, <1>1, <2>1, SpoilKeeps DEF GuardType
  <2>6. EntriesRight'
    BY <1>0, <1>2, <2>1, <2>4 DEF EntriesRight
  <2>7. w.span = Span(w.base, w.size)
        /\ \A a \in w.span : a \notin spoiled[w.proc] => w.original = Given[w.proc][a]
    BY <1>0 DEF RequestsRight
  <2>8. Span(e.base, e.size) \subseteq e.span
    BY <1>1, <2>2, <2>7, SpanShrinks
  <2>9. ASSUME NEW a \in e.span, a \notin spoiled'[e.proc]
        PROVE  e.original = Given[e.proc][a] /\ e.old = Given[e.proc][a]
    <3>1. e.original = Given[e.proc][a]
      BY <1>1, <2>2, <2>4, <2>7, <2>9
    <3>2. a \notin Unlike(w.proc, first, w.span) /\ a \in w.span
      BY <2>2, <2>5, <2>9
    <3>3. QED BY <2>2, <3>1, <3>2 DEF Unlike
  <2> HIDE DEF w, first
  <2>10. RequestsRight'
    <3>1. /\ place'[c] # "protect" /\ Span(work'[c].base, work'[c].size) \subseteq work'[c].span
          /\ \A a \in work'[c].span : a \notin spoiled'[work'[c].proc] =>
                 /\ work'[c].original = Given[work'[c].proc][a]
                 /\ work'[c].old = Given[work'[c].proc][a]
      BY <2>3, <2>8, <2>9
    <3>2. ASSUME NEW d \in Callers, d # c, place'[d] # "idle"
          PROVE  /\ place'[d] = "protect" => work'[d].span = Span(work'[d].base, work'[d].size)
                 /\ Span(work'[d].base, work'[d].size) \subseteq work'[d].span
                 /\ \A a \in work'[d].span : a \notin spoiled'[work'[d].proc] =>
                        /\ work'[d].original = Given[work'[d].proc][a]
                        /\ place'[d] = "insert" => work'[d].old = Given[work'[d].proc][a]
      BY <1>0, <1>3, <2>3, <2>4, <3>2 DEF RequestsRight
    <3>3. QED BY <3>1, <3>2 DEF RequestsRight, Span
  <2>11. Released'
    <3> SUFFICES ASSUME NEW q \in Procs, NEW a \in Pages, a \notin spoiled'[q],
                        \A i \in DOMAIN listed : ~Covers(listed[i], q, a),
                        \A d \in Callers : ~(place'[d] = "insert" /\ work'[d].proc = q /\ a \in work'[d].span)
                 PROVE  prot'[q][a] = Given[q][a]
      BY <2>1 DEF Released, Covers, Span, PageOf
    <3>1. ~(w.proc = q /\ a \in w.span)
      BY <2>2, <2>3
    <3>2. prot'[q][a] = prot[q][a]
      BY <1>0, <1>1, <2>1, <3>1, PagesAre DEF GuardType
    <3>3. \A d \in Callers : ~(place[d] = "insert" /\ work[d].proc = q /\ a \in work[d].span)
      BY <1>0, <2>3
    <3>4. QED BY <1>0, <2>4, <3>2, <3>3 DEF Released
  <2>12. QED BY <2>6, <2>10, <2>11 DEF KeptInv
<1>5. CASE ~Valid(Convert(w.flags))
  <2>1. place' = [place EXCEPT ![c] = "idle"] /\ work' = [work EXCEPT ![c] = NoEntry]
        /\ UNCHANGED <<prot, listed, spoiled>>
    BY <1>5 DEF Protect, GoOn
  <2>2. QED BY <1>0, <2>1, KeptIdle
<1>6. QED BY <1>4, <1>5

LEMMA KeptInsert ==
    ASSUME TypeInv, KeptInv, NEW c \in Callers, Insert(c)
    PROVE  KeptInv'
<1> DEFINE w == work[c]
           e == [proc |-> w.proc, base |-> w.base, size |-> w.size, original |-> w.original]
<1>0. GuardType /\ EntriesRight /\ RequestsRight /\ Released /\ place[c] = "insert"
  BY DEF TypeInv, KeptInv, Insert
<1>1. w.proc \in Procs /\ w.span \in SUBSET Pages /\ e \in Entries
  <2>1. w \in Requests
    BY <1>0 DEF GuardType
  <2> HIDE DEF w
  <2>2. QED BY <2>1 DEF Requests, Entries
<1>2. place' = [place EXCEPT ![c] = "idle"] /\ work' = [work EXCEPT ![c] = NoEntry]
  BY DEF Insert, GoOn
<1>3. /\ place'[c] = "idle"
      /\ \A d \in Callers : d # c => place'[d] = place[d] /\ work'[d] = work[d]
  BY <1>0, <1>2 DEF GuardType
<1>4. \A d \in Callers : place[d] # "idle" => work[d].proc \in Procs
  BY <1>0 DEF GuardType, Requests
<1>5. /\ Span(w.base, w.size) \subseteq w.span
      /\ \A a \in w.span : a \notin spoiled[w.proc] => w.original = Given[w.proc][a]
                                                       /\ w.old = Given[w.proc][a]
  BY <1>0 DEF RequestsRight
<1>6. /\ e.proc = w.proc /\ e.base = w.base /\ e.size = w.size /\ e.original = w.original
  OBVIOUS
<1>7. \/ /\ listed' = Append(listed, e) /\ UNCHANGED prot
         /\ Spoil(w.proc, w.span \ Span(w.base, w.size))
      \/ SetPages(w.proc, w.span, w.old) /\ UNCHANGED <<listed, spoiled>>
  BY DEF Insert
<1> HIDE DEF w, e
<1>8. CASE /\ listed' = Append(listed, e) /\ UNCHANGED prot
           /\ Spoil(w.proc, w.span \ Span(w.base, w.size))
  <2>1. PICK n \in Nat : /\ DOMAIN listed' = DOMAIN listed \cup {n} /\ listed'[n] = e
                         /\ \A i \in DOMAIN listed : listed'[i] = listed[i]
    <3>1. /\ Len(listed) \in Nat /\ DOMAIN listed = 1..Len(listed)
          /\ DOMAIN listed' = 1..(Len(listed) + 1)
          /\ listed'[Len(listed) + 1] = e
          /\ \A i \in 1..Len(listed) : listed'[i] = listed[i]
      BY <1>0, <1>1, <1>8 DEF GuardType
    <3>2. QED BY <3>1
  <2>2. \A q \in Procs : spoiled[q] \subseteq spoiled'[q]
    BY <1>0, <1>1, <1>8, SpoilKeeps DEF GuardType
  <2>3. w.span \ Span(w.base, w.size) \subseteq spoiled'[w.proc]
    BY <1>0, <1>1, <1>8, SpoilKeeps DEF GuardType
  <2>4. EntriesRight'
    <3>1. ASSUME NEW a \in Span(e.base, e.size), a \notin spoiled'[e.proc]
          PROVE  e.original = Given[e.proc][a]
      BY <1>1, <1>5, <1>6, <2>2, <3>1
    <3>2. ASSUME NEW i \in DOMAIN listed, NEW a \in Span(listed[i].base, listed[i].size),
                 a \notin spoiled'[listed[i].proc]
          PROVE  listed[i].original = Given[listed[i].proc][a]
      <4>1. listed[i].proc \in Procs
        BY <1>0, EntryAt DEF Entries
      <4>2. QED BY <1>0, <2>2, <3>2, <4>1 DEF EntriesRight
    <3>3. QED BY <2>1, <3>1, <3>2 DEF EntriesRight, Span
  <2>5. RequestsRight'
    BY <1>0, <1>3, <1>4, <2>2 DEF RequestsRight, Span
  <2>6. Released'
    <3> SUFFICES ASSUME NEW q \in Procs, NEW a \in Pages, a \notin spoiled'[q],
                        \A i \in DOMAIN listed' : ~Covers(listed'[i], q, a),
                        \A d \in Callers : ~(place'[d] = "insert" /\ work'[d].proc = q /\ a \in work'[d].span)
                 PROVE  prot[q][a] = Given[q][a]
      BY <1>8 DEF Released, Covers, Span, PageOf
    <3>1. ~(w.proc = q /\ a \in w.span)
      BY <1>6, <2>1, <2>3 DEF Covers
    <3>2. \A d \in Callers : ~(place[d] = "insert" /\ work[d].proc = q /\ a \in work[d].span)
      BY <1>3, <3>1 DEF w
    <3>3. \A i \in DOMAIN listed : ~Covers(listed[i], q, a)
      BY <2>1
    <3>4. QED BY <1>0, <2>2, <3>2, <3>3 DEF Released
  <2>7. QED BY <2>4, <2>5, <2>6 DEF KeptInv
<1>9. CASE SetPages(w.proc, w.span, w.old) /\ UNCHANGED <<listed, spoiled>>
  <2>1. EntriesRight'
    BY <1>0, <1>9 DEF EntriesRight, Span
  <2>2. RequestsRight'
    BY <1>0, <1>3, <1>9 DEF RequestsRight, Span
  <2>3. Released'
    <3> SUFFICES ASSUME NEW q \in Procs, NEW a \in Pages, a \notin spoiled[q],
                        \A i \in DOMAIN listed : ~Covers(listed[i], q, a),
                        \A d \in Callers : ~(place'[d] = "insert" /\ work'[d].proc = q /\ a \in work'[d].span)
                 PROVE  prot'[q][a] = Given[q][a]
      BY <1>9 DEF Released, Covers, Span, PageOf
    <3>1. prot'[q][a] = IF q = w.proc /\ a \in w.span THEN w.old ELSE prot[q][a]
      BY <1>0, <1>1, <1>9, PagesAre DEF GuardType
    <3>2. CASE q = w.proc /\ a \in w.span
      BY <1>5, <3>1, <3>2
    <3>3. CASE ~(q = w.proc /\ a \in w.span)
      <4>1. \A d \in Callers : ~(place[d] = "insert" /\ work[d].proc = q /\ a \in work[d].span)
        BY <1>3, <3>3 DEF w
      <4>2. QED BY <1>0, <3>1, <3>3, <4>1 DEF Released
    <3>4. QED BY <3>2, <3>3
  <2>4. QED BY <2>1, <2>2, <2>3 DEF KeptInv
<1>10. QED BY <1>7, <1>8, <1>9

(* One entry is taken out, and what it kept is put back.                    *)
LEMMA KeptUnprotect ==
    ASSUME TypeInv, KeptInv, NEW c \in Callers, NEW b, Unprotect(c, b)
    PROVE  KeptInv'
<1>0. GuardType /\ EntriesRight /\ RequestsRight /\ Released
  BY DEF TypeInv, KeptInv
<1>1. PICK i \in DOMAIN listed :
         /\ listed[i].base = b /\ SetPages(listed[i].proc, Span(b, listed[i].size), listed[i].original)
         /\ listed' = Without(listed, i)
  BY DEF Unprotect, Without
<1>2. UNCHANGED <<place, work, spoiled>>
  BY DEF Unprotect
<1>3. listed[i].proc \in Procs
  BY <1>0, EntryAt DEF Entries
<1>4. /\ Len(listed) \in Nat /\ DOMAIN listed = 1..Len(listed) /\ i \in 1..Len(listed)
      /\ DOMAIN listed' = 1..(Len(listed) - 1)
      /\ \A j \in 1..(Len(listed) - 1) : listed'[j] = listed[IF j < i THEN j ELSE j + 1]
  BY <1>0, <1>1 DEF GuardType, Without
<1>5. \A j \in DOMAIN listed' : \E k \in DOMAIN listed : listed'[j] = listed[k]
  <2> SUFFICES ASSUME NEW j \in DOMAIN listed' PROVE \E k \in DOMAIN listed : listed'[j] = listed[k]
    OBVIOUS
  <2>1. (IF j < i THEN j ELSE j + 1) \in DOMAIN listed
    BY <1>4
  <2>2. QED BY <1>4, <2>1
<1>6. \A k \in DOMAIN listed \ {i} : \E j \in DOMAIN listed' : listed'[j] = listed[k]
  <2> SUFFICES ASSUME NEW k \in DOMAIN listed \ {i} PROVE \E j \in DOMAIN listed' : listed'[j] = listed[k]
    OBVIOUS
  <2>1. CASE k < i
    <3>1. k \in DOMAIN listed' /\ listed'[k] = listed[k]
      BY <1>4, <2>1
    <3>2. QED BY <3>1
  <2>2. CASE ~(k < i)
    <3>1. PICK j \in Int : j = k - 1
      BY <1>4
    <3>2. j \in 1..(Len(listed) - 1) /\ ~(j < i) /\ j + 1 = k
      BY <1>4, <2>2, <3>1
    <3>3. j \in DOMAIN listed' /\ listed'[j] = listed[k]
      BY <1>4, <3>2
    <3>4. QED BY <3>3
  <2>3. QED BY <2>1, <2>2
<1>7. EntriesRight'
  BY <1>0, <1>2, <1>5 DEF EntriesRight, Span
<1>8. RequestsRight'
  BY <1>0, <1>2 DEF RequestsRight, Span
<1>9. Released'
  <2> SUFFICES ASSUME NEW q \in Procs, NEW a \in Pages, a \notin spoiled[q],
                      \A j \in DOMAIN listed' : ~Covers(listed'[j], q, a),
                      \A d \in Callers : ~(place[d] = "insert" /\ work[d].proc = q /\ a \in work[d].span)
               PROVE  prot'[q][a] = Given[q][a]
    BY <1>2 DEF Released, Covers, Span, PageOf
  <2>1. prot'[q][a] = IF Covers(listed[i], q, a) THEN listed[i].original ELSE prot[q][a]
    BY <1>0, <1>1, <1>3, PagesAre DEF GuardType, Covers
  <2>2. CASE Covers(listed[i], q, a)
    BY <1>0, <2>1, <2>2 DEF EntriesRight, Covers
  <2>3. CASE ~Covers(listed[i], q, a)
    <3>1. \A k \in DOMAIN listed : ~Covers(listed[k], q, a)
      BY <1>6, <2>3
    <3>2. QED BY <1>0, <2>1, <2>3, <3>1 DEF Released
  <2>4. QED BY <2>2, <2>3
<1>10. QED BY <1>7, <1>8, <1>9 DEF KeptInv

(* All entries are taken out; the last one that covers a page decides.      *)
LEMMA KeptUnload ==
    ASSUME TypeInv, KeptInv, UnloadGuard
    PROVE  KeptInv'
<1>0. GuardType /\ EntriesRight /\ RequestsRight /\ Released
  BY DEF TypeInv, KeptInv
<1>1. /\ prot' = [p \in Procs |-> [a \in Pages |-> PutBack(p, a)]] /\ listed' = <<>>
      /\ UNCHANGED <<place, work, spoiled>> /\ \A c \in Callers : place[c] = "idle"
  BY DEF UnloadGuard
<1>2. ASSUME NEW p \in Procs, NEW a \in Pages, a \notin spoiled[p] PROVE prot'[p][a] = Given[p][a]
  <2> DEFINE covering == {i \in DOMAIN listed : Covers(listed[i], p, a)}
             last == CHOOSE i \in covering : \A k \in covering : k <= i
  <2>1. prot'[p][a] = PutBack(p, a)
    BY <1>1
  <2>2. CASE covering = {}
    <3>1. PutBack(p, a) = prot[p][a]
      BY <2>2 DEF PutBack
    <3>2. \A i \in DOMAIN listed : ~Covers(listed[i], p, a)
      BY <2>2
    <3>3. QED BY <1>0, <1>1, <1>2, <2>1, <3>1, <3>2 DEF Released
  <2>3. CASE covering # {}
    <3>1. Len(listed) \in Nat /\ covering \subseteq 1..Len(listed)
      BY <1>0 DEF GuardType
    <3>2. PutBack(p, a) = listed[last].original
      BY <2>3 DEF PutBack
    <3>3. last \in covering
      <4> HIDE DEF covering
      <4>1. QED BY <2>3, <3>1, LastOf
    <3>4. last \in DOMAIN listed /\ Covers(listed[last], p, a)
      BY <3>3
    <3> HIDE DEF last
    <3>5. QED BY <1>0, <1>2, <2>1, <3>2, <3>4 DEF EntriesRight, Covers
  <2>4. QED BY <2>2, <2>3
<1>3. EntriesRight' /\ RequestsRight'
  BY <1>1 DEF EntriesRight, RequestsRight
<1>4. Released'
  BY <1>1, <1>2 DEF Released
<1>5. QED BY <1>3, <1>4 DEF KeptInv

(* A process changes a page that is listed.                                 *)
LEMMA KeptReprotect ==
    ASSUME TypeInv, KeptInv, NEW q \in Procs, NEW b \in Pages, NEW to, Reprotect(q, b, to)
    PROVE  KeptInv'
<1>0. GuardType /\ EntriesRight /\ RequestsRight /\ Released
  BY DEF TypeInv, KeptInv
<1>1. PICK k \in DOMAIN listed : Covers(listed[k], q, b)
  BY DEF Reprotect
<1>2. SetPages(q, {b}, to) /\ UNCHANGED <<listed, place, work, spoiled>>
  BY DEF Reprotect
<1>3. EntriesRight' /\ RequestsRight'
  BY <1>0, <1>2 DEF EntriesRight, RequestsRight, Span
<1>4. Released'
  <2> SUFFICES ASSUME NEW p \in Procs, NEW a \in Pages, a \notin spoiled[p],
                      \A i \in DOMAIN listed : ~Covers(listed[i], p, a),
                      \A d \in Callers : ~(place[d] = "insert" /\ work[d].proc = p /\ a \in work[d].span)
               PROVE  prot'[p][a] = Given[p][a]
    BY <1>2 DEF Released, Covers, Span, PageOf
  <2>1. ~(p = q /\ a = b)
    BY <1>1
  <2>2. prot'[p][a] = prot[p][a]
    BY <1>0, <1>2, <2>1, PagesAre DEF GuardType
  <2>3. QED BY <1>0, <2>2 DEF Released
<1>5. QED BY <1>3, <1>4 DEF KeptInv

LEMMA KeptStep == TypeInv /\ QuietInv /\ KeptInv /\ [DriverNext]_driverVars => KeptInv'
<1> SUFFICES ASSUME TypeInv, QuietInv, KeptInv, [DriverNext]_driverVars PROVE KeptInv'
  OBVIOUS
<1>1. CASE UNCHANGED <<prot, listed, place, work, spoiled>>
  BY <1>1 DEF KeptInv, EntriesRight, RequestsRight, Released, Covers, Span
<1>2. CASE Load
  <2>1. UNCHANGED <<prot, listed, place, work, spoiled>>
    BY <1>2 DEF Load, QuietInv
  <2>2. QED BY <1>1, <2>1
<1>3. CASE UnloadGuard
  BY <1>3, KeptUnload
<1>4. ASSUME NEW c \in Callers, Request(c) PROVE KeptInv'
  <2>1. CASE \E p \in Procs, r \in Regions, f \in FlagSets : Query(c, p, r, f)
    BY <2>1, KeptQuery
  <2>2. CASE \E r \in Regions : Unprotect(c, r.base) \/ Unprotect(c, Rounded(r.base))
    BY <2>2, KeptUnprotect
  <2>3. CASE \E on \in BOOLEAN : Monitor(c, on)
    BY <1>1, <2>3 DEF Monitor, guard
  <2>4. QED BY <1>4, <2>1, <2>2, <2>3, KeptProtect, KeptInsert DEF Request
<1>5. CASE \E p \in Procs, a \in Pages, f \in FlagSets :
              Reprotect(p, a, Convert(f)) \/ Reprotect(p, a, Given[p][a])
  BY <1>5, KeptReprotect
<1>6. CASE UnloadWatcher \/ (\E n \in Cpus : Notice(n)) \/ UNCHANGED driverVars
  BY <1>1, <1>6 DEF UnloadWatcher, Notice, Test, Note, guard, driverVars
<1>7. QED BY <1>2, <1>3, <1>4, <1>5, <1>6 DEF DriverNext

(* Whatever the regions, their protections and the overlaps of the requests  *)
(* are: a page that nobody protects has the protection its process gave it,    *)
(* unless it once was in a region for which the driver kept the wrong         *)
(* protection, or behind the size it kept.                                   *)
THEOREM DriverReleases == DriverSpec => []Released
<1>1. DriverInit => QuietInv /\ KeptInv
  BY DEF DriverInit, QuietInv, KeptInv, EntriesRight, RequestsRight, Released
<1>2. TypeInv /\ QuietInv /\ KeptInv /\ [DriverNext]_driverVars => KeptInv'
  BY KeptStep
<1>3. KeptInv => Released
  BY DEF KeptInv
<1>4. QED BY <1>1, <1>2, <1>3, TypeInit, TypeStep, QuietStep, PTL DEF DriverSpec
=============================================================================
