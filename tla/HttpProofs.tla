----------------------------- MODULE HttpProofs -----------------------------
(***************************************************************************)
(* What HTTP keeps.  Of the sign-in, for any texts, limits and tick        *)
(* counter: whoever holds the pair the last accepted change asked for      *)
(* matches, what is in force is what a restart would load, and the         *)
(* failures compared within a window of AUTH_LOCKOUT ticks are no more     *)
(* than AUTH_MAX_FAILURES.                                                 *)
(*                                                                         *)
(* Of the routes of a setting, for any keys, range and literals: flash     *)
(* holds a key in its declared type, a number stays within its range, a    *)
(* restore ends with the backup in flash, and a value accepted in its type *)
(* is what the next start loads, but for one set after the last flush of a *)
(* restore or a restart.                                                   *)
(***************************************************************************)
EXTENDS HttpAuth, FiniteSetTheorems, SequenceTheorems, TLAPS

CONSTANTS FloatKeys, IntKeys, BoolKeys, ReadOnly, MinVal, MaxVal, DefaultVal, SHOWN, WHOLE,
          Literals, Changes
VARIABLES settings_map, settings_flash, dirty, backup, job, accepted, late, changes

Settings == INSTANCE HttpSettings WITH map <- settings_map, flash <- settings_flash

-----------------------------------------------------------------------------
(* The inductive invariant. *)

NoColons == ~Contains(cred.user, ":") /\ ~Contains(flash.user, ":")

OwnerIsInForce == owner = PairOf(cred)

(* A change is in flash up to the fields still to be written.              *)
SavedSoFar ==
  "nvs_error" \notin Faults =>
    /\ unsaved # Fields => flash.user = cred.user
    /\ unsaved \in {<<>>, <<"enabled">>} => flash.pass = cred.pass
    /\ unsaved = <<>> => flash.enabled = cred.enabled

(* The wrong pairs of the window are numbered among all, and still in it.  *)
RecentTyped ==
  /\ DOMAIN recent \subseteq 1..wrong
  /\ \A i \in DOMAIN recent : recent[i] \in 0..(AUTH_LOCKOUT - 1)

(* Before a lockout the counter has counted each of them; since it began   *)
(* they are as old as it, so that none is left when it ends.               *)
CountedOrOlder ==
  IF fail_count < AUTH_MAX_FAILURES
  THEN Cardinality(DOMAIN recent) <= fail_count
  ELSE \A i \in DOMAIN recent : ((now - lockout_until) % TICKS) <= recent[i]

IInv == /\ TypeOK /\ NoColons /\ OwnerIsInForce /\ SavedSoFar
        /\ RecentTyped /\ CountedOrOlder /\ RateLimited

-----------------------------------------------------------------------------
(* The header is taken apart where it was put together. *)

LEMMA Constants ==
  ASSUME HttpAuthAssumption
  PROVE  /\ AUTH_MAX_FAILURES \in Nat \ {0} /\ AUTH_LOCKOUT \in Nat \ {0}
         /\ TICKS \in Nat \ {0} /\ MaxWrong \in Nat
         /\ UserTexts \subseteq Seq(STRING) /\ PassTexts \subseteq Seq(STRING)
BY DEF HttpAuthAssumption

LEMMA ColonIsFound ==
  ASSUME NEW h, NEW c \in 1..Len(h), h[c] = ":", \A i \in 1..(c - 1) : h[i] # ":"
  PROVE  ColonAt(h) = c
BY DEF ColonAt, SelectInSeq, Min

LEMMA HeaderSplits ==
  ASSUME NEW p, p.user \in Seq(STRING), p.pass \in Seq(STRING), ~Contains(p.user, ":")
  PROVE  /\ SubSeq(Header(p), 1, ColonAt(Header(p)) - 1) = p.user
         /\ SubSeq(Header(p), ColonAt(Header(p)) + 1, Len(Header(p))) = p.pass
<1> DEFINE u == p.user
           w == p.pass
           h == Header(p)
           Characters == STRING \cup {":"}
<1>1. u \in Seq(Characters) /\ w \in Seq(Characters) /\ <<":">> \in Seq(Characters)
  <2>1. Seq(STRING) \subseteq Seq(Characters)
    BY SeqMonotonic
  <2>2. <<":">> \in Seq(Characters)
    OBVIOUS
  <2> QED
    BY <2>1, <2>2
<1>2. h = u \o <<":">> \o w
  BY DEF Header
<1> HIDE DEF u, w, h, Characters
<1>3. /\ h \in Seq(Characters) /\ Len(h) = Len(u) + 1 + Len(w)
      /\ \A i \in 1..Len(u) : h[i] = u[i]
      /\ h[Len(u) + 1] = ":"
      /\ \A i \in 1..Len(w) : h[Len(u) + 1 + i] = w[i]
  BY <1>1, <1>2
<1>4. ColonAt(h) = Len(u) + 1
  <2>1. \A i \in 1..((Len(u) + 1) - 1) : h[i] # ":"
    <3>1. \A i \in 1..Len(u) : u[i] # ":"
      BY DEF Contains, u
    <3>2. Len(u) \in Nat /\ (Len(u) + 1) - 1 = Len(u)
      BY <1>1
    <3> QED
      BY <1>3, <3>1, <3>2
  <2>2. Len(u) + 1 \in 1..Len(h)
    BY <1>1, <1>3
  <2> QED
    BY <1>3, <2>1, <2>2, ColonIsFound
<1>5. SubSeq(h, 1, Len(u)) = u
  <2>1. Len(u) \in Nat
    BY <1>1
  <2> QED
    BY <1>1, <1>3, <2>1
<1>6. SubSeq(h, Len(u) + 2, Len(h)) = w
  <2>1. Len(u) \in Nat /\ Len(w) \in Nat
    BY <1>1
  <2>2. SubSeq(h, Len(u) + 2, Len(h)) \in Seq(Characters) /\ Len(SubSeq(h, Len(u) + 2, Len(h))) = Len(w)
    BY <1>3, <2>1
  <2>3. \A i \in 1..Len(w) : SubSeq(h, Len(u) + 2, Len(h))[i] = w[i]
    BY <1>3, <2>1
  <2> QED
    BY <1>1, <2>1, <2>2, <2>3, SeqEqual
<1>7. ColonAt(h) - 1 = Len(u) /\ ColonAt(h) + 1 = Len(u) + 2
  BY <1>1, <1>4
<1> QED
  BY <1>5, <1>6, <1>7 DEF u, w, h

(* The counter of ticks goes round: the time since a lockout began grows   *)
(* by one at most with each tick, and is nothing when it begins.           *)
LEMMA TimeSince ==
  ASSUME NEW T \in Nat \ {0}, NEW n \in 0..(T - 1), NEW l \in 0..(T - 1)
  PROVE  /\ ((n + 1) % T) \in 0..(T - 1)
         /\ ((((n + 1) % T) - l) % T) <= (((n - l) % T) + 1)
         /\ ((n - l) % T) \in Nat
         /\ ((n - n) % T) = 0
OBVIOUS

LEMMA WindowIsFinite ==
  ASSUME HttpAuthAssumption, TypeOK, RecentTyped
  PROVE  /\ IsFiniteSet(DOMAIN recent) /\ Cardinality(DOMAIN recent) \in Nat
         /\ wrong + 1 \notin DOMAIN recent
<1>1. wrong \in Nat
  BY Constants DEF TypeOK
<1>2. IsFiniteSet(1..wrong)
  BY <1>1, FS_Interval
<1>3. IsFiniteSet(DOMAIN recent)
  BY <1>2, FS_Subset DEF RecentTyped
<1>4. Cardinality(DOMAIN recent) \in Nat
  BY <1>3, FS_CardinalityType
<1> QED
  BY <1>1, <1>3, <1>4 DEF RecentTyped

LEMMA NoneIsEmpty == DOMAIN NoneWrong = {} /\ Cardinality(DOMAIN NoneWrong) = 0
BY FS_EmptySet DEF NoneWrong

-----------------------------------------------------------------------------
(* The steps *)

Credentials == [user : UserTexts, pass : PassTexts, enabled : BOOLEAN]

LEMMA InitIInv ==
  ASSUME HttpAuthAssumption, Init
  PROVE  IInv
<1> USE DEF Init
<1>1. Factory \in Credentials /\ PairOf(Factory) \in Pair
  BY DEF HttpAuthAssumption, Factory, Credentials, PairOf, Pair
<1>2. TypeOK
  BY <1>1, Constants DEF TypeOK, Credentials
<1>3. NoColons
  BY DEF HttpAuthAssumption, NoColons, Factory
<1>4. OwnerIsInForce /\ SavedSoFar
  BY DEF OwnerIsInForce, SavedSoFar
<1>5. RecentTyped /\ CountedOrOlder /\ RateLimited
  BY NoneIsEmpty, Constants DEF RecentTyped, CountedOrOlder, RateLimited
<1> QED
  BY <1>2, <1>3, <1>4, <1>5 DEF IInv

(* A request that is let in forgets the wrong pairs, or finds the check    *)
(* switched off.                                                           *)
LEMMA GrantedKeeps ==
  ASSUME HttpAuthAssumption, IInv, NEW p, Granted(p), UNCHANGED <<lockout_until, now, wrong>>
  PROVE  RecentTyped' /\ CountedOrOlder' /\ RateLimited' /\ fail_count' \in 0..AUTH_MAX_FAILURES
<1> USE DEF IInv, Granted
<1>1. CASE UNCHANGED <<fail_count, recent>>
  BY <1>1 DEF TypeOK, RecentTyped, CountedOrOlder, RateLimited
<1>2. CASE fail_count' = 0 /\ recent' = NoneWrong
  BY <1>2, NoneIsEmpty, Constants DEF RecentTyped, CountedOrOlder, RateLimited
<1> QED
  BY <1>1, <1>2

LEMMA SignInKeeps ==
  ASSUME HttpAuthAssumption, IInv, NEW p \in Pair, SignIn(p)
  PROVE  IInv'
<1> USE DEF IInv, SignIn
<1>1. RecentTyped' /\ CountedOrOlder' /\ RateLimited' /\ fail_count' \in 0..AUTH_MAX_FAILURES
  BY GrantedKeeps
<1>2. TypeOK'
  BY <1>1 DEF TypeOK
<1>3. NoColons' /\ OwnerIsInForce' /\ SavedSoFar'
  BY DEF NoColons, OwnerIsInForce, SavedSoFar, PairOf, Fields
<1> QED
  BY <1>1, <1>2, <1>3

(* A change: the name has no colon, and whoever asked for it is the owner. *)
LEMMA PostAuthKeeps ==
  ASSUME HttpAuthAssumption, IInv, NEW p \in Pair, NEW r \in Requests, PostAuth(p, r)
  PROVE  IInv'
<1> USE DEF IInv, PostAuth
<1>1. RecentTyped' /\ CountedOrOlder' /\ RateLimited' /\ fail_count' \in 0..AUTH_MAX_FAILURES
  BY GrantedKeeps
<1>2. answer' \in {"none", "ok", "400", "401", "403", "429"}
  BY DEF Verdict
<1>3. CASE UNCHANGED <<cred, owner, unsaved>>
  <2>1. TypeOK'
    BY <1>1, <1>2, <1>3 DEF TypeOK
  <2>2. NoColons' /\ OwnerIsInForce' /\ SavedSoFar'
    BY <1>3 DEF NoColons, OwnerIsInForce, SavedSoFar, PairOf, Fields
  <2> QED
    BY <1>1, <2>1, <2>2
<1>4. CASE Change(r)
  <2>1. cred' = Asked(r) /\ owner' = PairOf(Asked(r)) /\ unsaved' = Fields /\ Verdict(r) = "ok"
    BY <1>4 DEF Change
  <2>2. Asked(r) \in Credentials /\ ~Contains(Asked(r).user, ":")
    <3>1. CASE r.reset
      BY <3>1 DEF Asked, Factory, HttpAuthAssumption, Credentials
    <3>2. CASE ~r.reset
      <4>1. /\ r.new \in PassTexts \cup {NoText} /\ r.name \in UserTexts \cup {NoText}
            /\ r.enabled \in {"keep", "on", "off"}
        BY <3>2 DEF Requests
      <4>2. cred \in Credentials
        BY DEF TypeOK, Credentials
      <4>3. Asked(r) = [user    |-> IF r.name # NoText THEN r.name ELSE cred.user,
                        pass    |-> IF r.new # NoText THEN r.new ELSE cred.pass,
                        enabled |-> IF r.enabled = "keep" THEN cred.enabled ELSE r.enabled = "on"]
        BY <3>2 DEF Asked
      <4>4. Asked(r) \in Credentials
        <5>1. (IF r.name # NoText THEN r.name ELSE cred.user) \in UserTexts
          BY <4>1, <4>2 DEF Credentials
        <5>2. (IF r.new # NoText THEN r.new ELSE cred.pass) \in PassTexts
          BY <4>1, <4>2 DEF Credentials
        <5>3. (IF r.enabled = "keep" THEN cred.enabled ELSE r.enabled = "on") \in BOOLEAN
          BY <4>2 DEF Credentials
        <5> QED
          BY <4>3, <5>1, <5>2, <5>3 DEF Credentials
      <4>5. ~BadName(r)
        BY <2>1, <3>2 DEF Verdict
      <4>6. ~Contains(Asked(r).user, ":")
        BY <4>3, <4>5 DEF BadName, NoColons
      <4> QED
        BY <4>4, <4>6
    <3> QED
      BY <3>1, <3>2
  <2>3. PairOf(Asked(r)) \in Pair
    BY <2>2 DEF PairOf, Pair, Credentials
  <2>4. TypeOK'
    BY <1>1, <1>2, <2>1, <2>2, <2>3 DEF TypeOK, Credentials
  <2>5. NoColons'
    BY <2>1, <2>2 DEF NoColons
  <2>6. OwnerIsInForce' /\ SavedSoFar'
    BY <2>1 DEF OwnerIsInForce, SavedSoFar, PairOf, Fields
  <2> QED
    BY <1>1, <2>4, <2>5, <2>6
<1> QED
  BY <1>3, <1>4

LEMMA SaveAuthKeeps ==
  ASSUME HttpAuthAssumption, IInv, NEW ok \in BOOLEAN, SaveAuth(ok),
         ~ok => "nvs_error" \in Faults
  PROVE  IInv'
<1> USE DEF IInv, SaveAuth
<1>1. unsaved \in {<<"enabled">>, <<"pass", "enabled">>, <<"user", "pass", "enabled">>}
  BY DEF TypeOK, Fields
<1>2. cred \in Credentials /\ flash \in Credentials
  BY DEF TypeOK, Credentials
<1>3. /\ Head(unsaved) \in {"user", "pass", "enabled"}
      /\ unsaved = <<"user", "pass", "enabled">> => Head(unsaved) = "user" /\ unsaved' = <<"pass", "enabled">>
      /\ unsaved = <<"pass", "enabled">> => Head(unsaved) = "pass" /\ unsaved' = <<"enabled">>
      /\ unsaved = <<"enabled">> => Head(unsaved) = "enabled" /\ unsaved' = <<>>
  <2>1. CASE unsaved = <<"user", "pass", "enabled">>
    BY <2>1
  <2>2. CASE unsaved = <<"pass", "enabled">>
    BY <2>2
  <2>3. CASE unsaved = <<"enabled">>
    BY <2>3
  <2> QED
    BY <1>1, <2>1, <2>2, <2>3
<1>4. flash' = flash \/ (ok /\ flash' = [flash EXCEPT ![Head(unsaved)] = cred[Head(unsaved)]])
  BY DEF Written
<1>5. /\ flash' \in Credentials
      /\ flash'.user \in {flash.user, cred.user}
      /\ ok => /\ flash'.user = IF Head(unsaved) = "user" THEN cred.user ELSE flash.user
               /\ flash'.pass = IF Head(unsaved) = "pass" THEN cred.pass ELSE flash.pass
               /\ flash'.enabled = IF Head(unsaved) = "enabled" THEN cred.enabled ELSE flash.enabled
  <2>1. CASE Head(unsaved) = "user"
    BY <1>2, <1>4, <2>1 DEF Credentials, Written
  <2>2. CASE Head(unsaved) = "pass"
    BY <1>2, <1>4, <2>2 DEF Credentials, Written
  <2>3. CASE Head(unsaved) = "enabled"
    BY <1>2, <1>4, <2>3 DEF Credentials, Written
  <2> QED
    BY <1>3, <2>1, <2>2, <2>3
<1>6. TypeOK'
  BY <1>1, <1>3, <1>5 DEF TypeOK, Credentials
<1>7. NoColons' /\ OwnerIsInForce'
  BY <1>5 DEF NoColons, OwnerIsInForce, PairOf
<1>8. SavedSoFar'
  <2> SUFFICES ASSUME "nvs_error" \notin Faults
               PROVE  /\ unsaved' # Fields => flash'.user = cred.user
                      /\ unsaved' \in {<<>>, <<"enabled">>} => flash'.pass = cred.pass
                      /\ unsaved' = <<>> => flash'.enabled = cred.enabled
    BY DEF SavedSoFar
  <2>1. CASE unsaved = <<"user", "pass", "enabled">>
    BY <1>3, <1>5, <2>1
  <2>2. CASE unsaved = <<"pass", "enabled">>
    BY <1>3, <1>5, <2>2 DEF SavedSoFar, Fields
  <2>3. CASE unsaved = <<"enabled">>
    BY <1>3, <1>5, <2>3 DEF SavedSoFar, Fields
  <2> QED
    BY <1>1, <2>1, <2>2, <2>3
<1>9. RecentTyped' /\ CountedOrOlder' /\ RateLimited'
  BY DEF RecentTyped, CountedOrOlder, RateLimited
<1> QED
  BY <1>6, <1>7, <1>8, <1>9

(* A wrong pair is compared only when no lockout is on: then the counter   *)
(* has counted the window, or a lockout is over and the window is empty.   *)
LEMMA MismatchKeeps ==
  ASSUME HttpAuthAssumption, IInv, NEW p \in Pair, Mismatch(p), UNCHANGED now
  PROVE  /\ RecentTyped' /\ CountedOrOlder' /\ RateLimited'
         /\ fail_count' \in 0..AUTH_MAX_FAILURES /\ wrong' \in 0..MaxWrong
         /\ lockout_until' \in 0..TICKS-1
<1> USE DEF IInv, Mismatch
<1> USE Constants
<1>1. /\ wrong \in 0..MaxWrong /\ fail_count \in 0..AUTH_MAX_FAILURES
      /\ now \in 0..(TICKS - 1) /\ lockout_until \in 0..(TICKS - 1)
  BY DEF TypeOK
<1>2. wrong' = wrong + 1 /\ wrong' \in 0..MaxWrong
  BY <1>1
<1>3. /\ IsFiniteSet(DOMAIN recent) /\ Cardinality(DOMAIN recent) \in Nat
      /\ wrong + 1 \notin DOMAIN recent
  BY WindowIsFinite
<1>4. Cardinality(DOMAIN recent) <= Count /\ Count \in 0..(AUTH_MAX_FAILURES - 1)
  <2>1. CASE fail_count < AUTH_MAX_FAILURES
    BY <1>1, <2>1 DEF CountedOrOlder, Count
  <2>2. CASE ~(fail_count < AUTH_MAX_FAILURES)
    <3>1. ~(((now - lockout_until) % TICKS) < AUTH_LOCKOUT)
      BY <1>1, <2>2 DEF LockedOut
    <3>2. ((now - lockout_until) % TICKS) \in Nat
      BY <1>1, TimeSince
    <3>3. DOMAIN recent = {}
      <4> SUFFICES ASSUME NEW i \in DOMAIN recent  PROVE  FALSE
        OBVIOUS
      <4>1. recent[i] \in 0..(AUTH_LOCKOUT - 1) /\ ((now - lockout_until) % TICKS) <= recent[i]
        BY <2>2 DEF RecentTyped, CountedOrOlder
      <4> QED
        BY <3>1, <3>2, <4>1
    <3>4. Cardinality(DOMAIN recent) = 0
      BY <3>3, FS_EmptySet
    <3> QED
      BY <1>1, <2>2, <3>4 DEF Count
  <2> QED
    BY <2>1, <2>2
<1>5. /\ DOMAIN recent' = DOMAIN recent \cup {wrong + 1}
      /\ \A i \in DOMAIN recent' : recent'[i] = IF i = wrong + 1 THEN 0 ELSE recent[i]
  BY <1>2
<1>6. Cardinality(DOMAIN recent') = Cardinality(DOMAIN recent) + 1
  BY <1>3, <1>5, FS_AddElement
<1>7. fail_count' = Count + 1 /\ fail_count' \in 0..AUTH_MAX_FAILURES
  BY <1>4
<1>8. RecentTyped'
  <2>1. /\ DOMAIN recent \subseteq 1..wrong /\ wrong \in Nat /\ AUTH_LOCKOUT \in Nat \ {0}
        /\ \A i \in DOMAIN recent : recent[i] \in 0..(AUTH_LOCKOUT - 1)
    BY <1>1 DEF RecentTyped
  <2> HIDE DEF IInv, Mismatch
  <2>2. DOMAIN recent' \subseteq 1..wrong'
    BY <1>2, <1>5, <2>1
  <2>3. \A i \in DOMAIN recent' : recent'[i] \in 0..(AUTH_LOCKOUT - 1)
    BY <1>5, <2>1
  <2> QED
    BY <2>2, <2>3 DEF RecentTyped
<1>9. RateLimited'
  BY <1>3, <1>4, <1>6 DEF RateLimited
<1>10. CountedOrOlder'
  <2>1. CASE fail_count' < AUTH_MAX_FAILURES
    BY <1>3, <1>4, <1>6, <1>7, <2>1 DEF CountedOrOlder
  <2>2. CASE ~(fail_count' < AUTH_MAX_FAILURES)
    <3>1. lockout_until' = now
      BY <1>4, <1>7, <2>2
    <3>2. ((now' - lockout_until') % TICKS) = 0
      BY <1>1, <3>1, TimeSince
    <3>3. \A i \in DOMAIN recent' : 0 <= recent'[i]
      BY <1>5 DEF RecentTyped
    <3> QED
      BY <2>2, <3>2, <3>3 DEF CountedOrOlder
  <2> QED
    BY <2>1, <2>2
<1>11. lockout_until' \in 0..TICKS-1
  BY <1>1
<1> QED
  BY <1>2, <1>7, <1>8, <1>9, <1>10, <1>11

LEMMA RejectedKeeps ==
  ASSUME HttpAuthAssumption, IInv, NEW p \in Pair, Rejected(p)
  PROVE  IInv'
<1> USE DEF IInv, Rejected
<1>1. NoColons' /\ OwnerIsInForce' /\ SavedSoFar'
  BY DEF NoColons, OwnerIsInForce, SavedSoFar, PairOf, Fields
<1>2. CASE Throttled
  <2>1. TypeOK'
    BY <1>2 DEF TypeOK, Throttled
  <2>2. RecentTyped' /\ CountedOrOlder' /\ RateLimited'
    BY <1>2 DEF Throttled, RecentTyped, CountedOrOlder, RateLimited
  <2> QED
    BY <1>1, <2>1, <2>2
<1>3. CASE Mismatch(p)
  <2>1. /\ RecentTyped' /\ CountedOrOlder' /\ RateLimited'
        /\ fail_count' \in 0..AUTH_MAX_FAILURES /\ wrong' \in 0..MaxWrong
        /\ lockout_until' \in 0..TICKS-1
    BY <1>3, MismatchKeeps
  <2>2. TypeOK'
    BY <1>3, <2>1 DEF TypeOK, Mismatch
  <2> QED
    BY <1>1, <2>1, <2>2
<1> QED
  BY <1>2, <1>3 DEF Refused

LEMMA TickKeeps ==
  ASSUME HttpAuthAssumption, IInv, Tick
  PROVE  IInv'
<1> USE DEF IInv, Tick
<1> USE Constants
<1>1. /\ wrong \in 0..MaxWrong /\ fail_count \in 0..AUTH_MAX_FAILURES
      /\ now \in 0..(TICKS - 1) /\ lockout_until \in 0..(TICKS - 1)
  BY DEF TypeOK
<1>2. /\ now' \in 0..(TICKS - 1)
      /\ ((now' - lockout_until) % TICKS) <= (((now - lockout_until) % TICKS) + 1)
      /\ ((now - lockout_until) % TICKS) \in Nat
  BY <1>1, TimeSince
<1>3. TypeOK'
  BY <1>2 DEF TypeOK
<1>4. NoColons' /\ OwnerIsInForce' /\ SavedSoFar'
  BY DEF NoColons, OwnerIsInForce, SavedSoFar, PairOf, Fields
<1>5. /\ DOMAIN recent' \subseteq DOMAIN recent
      /\ \A i \in DOMAIN recent' : recent'[i] = recent[i] + 1 /\ recent'[i] < AUTH_LOCKOUT
  OBVIOUS
<1>6. RecentTyped'
  <2>1. /\ DOMAIN recent \subseteq 1..wrong /\ wrong' = wrong /\ AUTH_LOCKOUT \in Nat \ {0}
        /\ \A i \in DOMAIN recent : recent[i] \in 0..(AUTH_LOCKOUT - 1)
    BY DEF RecentTyped
  <2> HIDE DEF IInv, Tick
  <2>2. DOMAIN recent' \subseteq 1..wrong'
    BY <1>5, <2>1
  <2>3. \A i \in DOMAIN recent' : recent'[i] \in 0..(AUTH_LOCKOUT - 1)
    BY <1>5, <2>1
  <2> QED
    BY <2>2, <2>3 DEF RecentTyped
<1>7. /\ Cardinality(DOMAIN recent') <= Cardinality(DOMAIN recent)
      /\ Cardinality(DOMAIN recent) \in Nat /\ Cardinality(DOMAIN recent') \in Nat
  <2>1. IsFiniteSet(DOMAIN recent) /\ Cardinality(DOMAIN recent) \in Nat
    BY WindowIsFinite
  <2>2. IsFiniteSet(DOMAIN recent') /\ Cardinality(DOMAIN recent') <= Cardinality(DOMAIN recent)
    BY <1>5, <2>1, FS_Subset
  <2> QED
    BY <2>1, <2>2, FS_CardinalityType
<1>8. RateLimited'
  BY <1>7 DEF RateLimited
<1>9. CountedOrOlder'
  <2>1. CASE fail_count < AUTH_MAX_FAILURES
    BY <1>1, <1>7, <2>1 DEF CountedOrOlder
  <2>2. CASE ~(fail_count < AUTH_MAX_FAILURES)
    <3> SUFFICES ASSUME NEW i \in DOMAIN recent'
                 PROVE  ((now' - lockout_until) % TICKS) <= recent'[i]
      BY <2>2 DEF CountedOrOlder
    <3>1. ((now - lockout_until) % TICKS) <= recent[i] /\ recent[i] \in Nat
      BY <1>5, <2>2 DEF CountedOrOlder, RecentTyped
    <3>2. ((now' - lockout_until) % TICKS) \in Nat
      BY <1>1, <1>2, TimeSince
    <3> QED
      BY <1>2, <1>5, <3>1, <3>2
  <2> QED
    BY <2>1, <2>2
<1> QED
  BY <1>3, <1>4, <1>6, <1>8, <1>9

LEMMA PowerLossKeeps ==
  ASSUME HttpAuthAssumption, IInv, PowerLoss
  PROVE  IInv'
<1> USE DEF IInv, PowerLoss
<1>1. flash \in Credentials
  BY DEF TypeOK, Credentials
<1>2. owner' = PairOf(flash)
  <2>1. CASE unsaved # <<>> \/ "nvs_error" \in Faults
    BY <2>1
  <2>2. CASE unsaved = <<>> /\ "nvs_error" \notin Faults
    <3>1. flash.user = cred.user /\ flash.pass = cred.pass
      BY <2>2 DEF SavedSoFar, Fields
    <3> QED
      BY <2>2, <3>1 DEF OwnerIsInForce, PairOf
  <2> QED
    BY <2>1, <2>2
<1>3. PairOf(flash) \in Pair
  BY <1>1 DEF PairOf, Pair, Credentials
<1>4. TypeOK'
  BY <1>1, <1>2, <1>3, Constants DEF TypeOK, Credentials
<1>5. NoColons' /\ OwnerIsInForce' /\ SavedSoFar'
  BY <1>2 DEF NoColons, OwnerIsInForce, SavedSoFar, PairOf, Fields
<1>6. RecentTyped' /\ CountedOrOlder' /\ RateLimited'
  BY NoneIsEmpty, Constants DEF RecentTyped, CountedOrOlder, RateLimited
<1> QED
  BY <1>4, <1>5, <1>6

LEMMA NextIInv ==
  ASSUME HttpAuthAssumption, IInv, [Next]_vars
  PROVE  IInv'
<1>1. CASE \E p \in Pair : SignIn(p) \/ Rejected(p) \/ \E r \in Requests : PostAuth(p, r)
  BY <1>1, SignInKeeps, RejectedKeeps, PostAuthKeeps
<1>2. CASE SaveAuth(TRUE)
  BY <1>2, SaveAuthKeeps
<1>3. CASE "nvs_error" \in Faults /\ SaveAuth(FALSE)
  BY <1>3, SaveAuthKeeps
<1>4. CASE Tick
  BY <1>4, TickKeeps
<1>5. CASE PowerLoss
  BY <1>5, PowerLossKeeps
<1>6. CASE UNCHANGED vars
  BY <1>6 DEF vars, IInv, TypeOK, NoColons, OwnerIsInForce, SavedSoFar, RecentTyped,
     CountedOrOlder, RateLimited, PairOf, Fields
<1> QED
  BY <1>1, <1>2, <1>3, <1>4, <1>5, <1>6 DEF Next

LEMMA OwnerIsMatched ==
  ASSUME HttpAuthAssumption, IInv
  PROVE  OwnerMatches
<1>1. /\ owner.user = cred.user /\ owner.pass = cred.pass
      /\ owner.user \in Seq(STRING) /\ owner.pass \in Seq(STRING) /\ ~Contains(owner.user, ":")
  BY Constants DEF IInv, OwnerIsInForce, PairOf, TypeOK, NoColons
<1> QED
  BY <1>1, HeaderSplits DEF OwnerMatches, Matches

-----------------------------------------------------------------------------
(* The theorems *)

(* Whoever sends what the last accepted change asked for is let in, and so *)
(* is the owner after a restart: no accepted name is one that check_auth() *)
(* takes apart elsewhere, whatever writes of the change a power loss cut   *)
(* short.                                                                  *)
THEOREM OwnersAlwaysMatch ==
  ASSUME HttpAuthAssumption
  PROVE  Spec => [](TypeOK /\ OwnerMatches /\ InForceIsStored)
<1>1. Init => IInv
  BY InitIInv
<1>2. IInv /\ [Next]_vars => IInv'
  BY NextIInv
<1>3. IInv => TypeOK /\ OwnerMatches
  BY OwnerIsMatched DEF IInv
<1>4. ASSUME IInv, unsaved = <<>>, "nvs_error" \notin Faults  PROVE  cred = flash
  <2>1. cred \in Credentials /\ flash \in Credentials
    BY <1>4 DEF IInv, TypeOK, Credentials
  <2>2. flash.user = cred.user /\ flash.pass = cred.pass /\ flash.enabled = cred.enabled
    BY <1>4 DEF IInv, SavedSoFar, Fields
  <2> QED
    BY <2>1, <2>2 DEF Credentials
<1>5. IInv => InForceIsStored
  BY <1>4 DEF InForceIsStored
<1> QED
  BY <1>1, <1>2, <1>3, <1>5, PTL DEF Spec

(* No AUTH_LOCKOUT ticks see more than AUTH_MAX_FAILURES wrong pairs       *)
(* compared, wherever the tick counter wraps and whatever its range.       *)
THEOREM GuessesAreLimited ==
  ASSUME HttpAuthAssumption
  PROVE  Spec => []RateLimited
<1>1. Init => IInv
  BY InitIInv
<1>2. IInv /\ [Next]_vars => IInv'
  BY NextIInv
<1>3. IInv => RateLimited
  BY DEF IInv
<1> QED
  BY <1>1, <1>2, <1>3, PTL DEF Spec

-----------------------------------------------------------------------------
(* The settings: the inductive invariant. *)

(* What a number of a key may be; atof() of nan passes Clamp() unchanged.  *)
Legal(k) ==
  IF k \in FloatKeys
  THEN [type : {"float"}, num : (MinVal..MaxVal) \cup (IF "nan" \in Literals THEN {Settings!NaN} ELSE {})]
  ELSE Settings!Declared(k)

(* What a route may leave in the state: a bool for a number, and the int 0 *)
(* for a bool, are taken as they come.                                     *)
Settable(k) == Legal(k) \cup {Settings!Bool(TRUE), Settings!Bool(FALSE)}
               \cup (IF k \in BoolKeys THEN {Settings!Val("int", 0)} ELSE {})

ValuesAreLegal ==
  \A k \in Settings!Keys : /\ settings_map[k] \in Settable(k) /\ accepted[k] \in Settable(k)
                           /\ settings_flash[k] \in Legal(k) \cup {Settings!NoValue}

BackupIsLegal == \A k \in DOMAIN backup : backup[k] \in Legal(k)

JobType == [at : {"none", "keys", "restored", "stopping", "stopped"}, todo : SUBSET Settings!Keys,
            touched : SUBSET Settings!Keys]

(* A dirty key still holds what was accepted last; any other is in flash.  *)
DirtyIsLast == \A k \in dirty : settings_map[k] = accepted[k]

(* The keys a restore has done, and nobody set since, are on their way to  *)
(* flash or there.  What is left to write when a job restarts the device   *)
(* was set after its last flush.                                           *)
Restored ==
  job.at = "keys" =>
    \A k \in DOMAIN backup \ (job.todo \cup job.touched) :
      IF k \in dirty THEN settings_map[k] = backup[k] ELSE settings_flash[k] = backup[k]
OnlyLateIsLeft ==
  /\ Settings!Restarting => dirty \subseteq late
  /\ job.at = "restored" => dirty \subseteq job.touched
TodoIsInFile  == job.at = "keys" => job.todo \subseteq DOMAIN backup

SettingsInv == /\ Settings!TypeOK /\ ValuesAreLegal /\ BackupIsLegal /\ DirtyIsLast
               /\ Restored /\ OnlyLateIsLeft /\ TodoIsInFile /\ Settings!TypedIsKept /\ Settings!RestoreFaithful

-----------------------------------------------------------------------------
(* Numbers *)

LEMMA Remainder ==
  ASSUME NEW n \in Nat, NEW w \in Nat \ {0}
  PROVE  /\ n % w \in 0..(w - 1) /\ n \div w \in Nat
         /\ n = w * (n \div w) + (n % w)
OBVIOUS

LEMMA MultipleHasNone ==
  ASSUME NEW q \in Nat, NEW w \in Nat \ {0}
  PROVE  (w * q) % w = 0
OBVIOUS

(* Rounding to a step between two bounds that are steps stays within them. *)
LEMMA RoundingStays ==
  ASSUME NEW n \in Nat, NEW s \in Nat \ {0}, NEW a \in Nat, NEW b \in Nat,
         s * a <= n, n <= s * b
  PROVE  /\ n - (n % s) \in (s * a)..(s * b)
         /\ n % s # 0 => n - (n % s) + s \in (s * a)..(s * b)
<1> DEFINE q == n \div s
<1>1. q \in Nat /\ n % s \in 0..(s - 1) /\ n = s * q + (n % s)
  BY Remainder
<1> HIDE DEF q
<1>2. s * q \in Nat /\ s * a \in Nat /\ s * b \in Nat
  BY <1>1
<1>3. n - (n % s) = s * q
  BY <1>1, <1>2
<1>4. s * a <= s * q
  <2>1. s * (q + 1) = s * q + s
    BY <1>1
  <2>2. s * a < s * (q + 1)
    BY <1>1, <1>2, <2>1
  <2>3. a < q + 1
    <3> SUFFICES ASSUME q + 1 <= a  PROVE  FALSE
      BY <1>1
    <3>1. s * (q + 1) <= s * a
      BY <1>1
    <3> QED
      BY <1>1, <1>2, <2>1, <2>2, <3>1
  <2>4. a <= q
    BY <1>1, <2>3
  <2> QED
    BY <1>1, <2>4
<1>5. s * q <= s * b
  BY <1>1, <1>2
<1>6. ASSUME n % s # 0  PROVE  s * q + s <= s * b
  <2>1. s * q < s * b
    BY <1>1, <1>2, <1>6
  <2>2. q < b
    <3> SUFFICES ASSUME b <= q  PROVE  FALSE
      BY <1>1
    <3>1. s * b <= s * q
      BY <1>1
    <3> QED
      BY <1>1, <1>2, <2>1, <3>1
  <2>3. q + 1 <= b
    BY <1>1, <2>2
  <2>4. s * (q + 1) <= s * b
    BY <1>1, <2>3
  <2>5. s * (q + 1) = s * q + s
    BY <1>1
  <2> QED
    BY <2>4, <2>5
<1> QED
  BY <1>2, <1>3, <1>4, <1>5, <1>6

LEMMA WholeIsWhole ==
  ASSUME Settings!HttpSettingsAssumption, NEW n \in Nat
  PROVE  Settings!Whole(n) \in Nat /\ Settings!Whole(n) <= n /\ Settings!Whole(n) % WHOLE = 0
<1>1. WHOLE \in Nat \ {0}
  BY DEF Settings!HttpSettingsAssumption
<1>2. /\ n % WHOLE \in 0..(WHOLE - 1) /\ n \div WHOLE \in Nat
      /\ n = WHOLE * (n \div WHOLE) + (n % WHOLE)
  BY <1>1, Remainder
<1>3. Settings!Whole(n) = WHOLE * (n \div WHOLE)
  BY <1>1, <1>2 DEF Settings!Whole
<1>4. Settings!Whole(n) % WHOLE = 0
  BY <1>1, <1>2, <1>3, MultipleHasNone
<1> QED
  BY <1>1, <1>2, <1>4 DEF Settings!Whole

(* The bounds are whole, and a whole number is a step that "%.2f" shows.   *)
LEMMA BoundsAreShown ==
  ASSUME Settings!HttpSettingsAssumption
  PROVE  \E a, b \in Nat : MinVal = SHOWN * a /\ MaxVal = SHOWN * b
<1>1. /\ WHOLE \in Nat \ {0} /\ SHOWN \in Nat \ {0} /\ MinVal \in Nat /\ MaxVal \in Nat
      /\ WHOLE % SHOWN = 0 /\ MinVal % WHOLE = 0 /\ MaxVal % WHOLE = 0
  BY DEF Settings!HttpSettingsAssumption
<1>2. WHOLE = SHOWN * (WHOLE \div SHOWN) /\ WHOLE \div SHOWN \in Nat
  BY <1>1, Remainder
<1>3. MinVal = WHOLE * (MinVal \div WHOLE) /\ MinVal \div WHOLE \in Nat
  BY <1>1, Remainder
<1>4. MaxVal = WHOLE * (MaxVal \div WHOLE) /\ MaxVal \div WHOLE \in Nat
  BY <1>1, Remainder
<1> DEFINE c == WHOLE \div SHOWN
           a == MinVal \div WHOLE
           b == MaxVal \div WHOLE
<1> HIDE DEF a, b, c
<1>5. a \in Nat /\ b \in Nat /\ c \in Nat
  BY <1>2, <1>3, <1>4 DEF a, b, c
<1>6. MinVal = (SHOWN * c) * a /\ MaxVal = (SHOWN * c) * b
  BY <1>2, <1>3, <1>4 DEF a, b, c
<1>7. (SHOWN * c) * a = SHOWN * (c * a) /\ (SHOWN * c) * b = SHOWN * (c * b)
  BY <1>1, <1>5
<1>8. c * a \in Nat /\ c * b \in Nat
  BY <1>5
<1> QED
  BY <1>6, <1>7, <1>8

-----------------------------------------------------------------------------
(* Values *)

LEMMA SettingsConstants ==
  ASSUME Settings!HttpSettingsAssumption
  PROVE  /\ MinVal \in Nat /\ MaxVal \in Nat /\ DefaultVal \in Nat /\ Changes \in Nat
         /\ MinVal <= DefaultVal /\ DefaultVal <= MaxVal /\ MinVal <= MaxVal
         /\ WHOLE \in Nat \ {0} /\ SHOWN \in Nat \ {0}
         /\ Settings!NaN \in Nat /\ MaxVal < Settings!NaN /\ WHOLE < Settings!NaN
         /\ FloatKeys \cap IntKeys = {} /\ FloatKeys \cap BoolKeys = {} /\ IntKeys \cap BoolKeys = {}
BY DEF Settings!HttpSettingsAssumption, Settings!NaN

LEMMA LegalValues ==
  ASSUME Settings!HttpSettingsAssumption, NEW k \in Settings!Keys, NEW v \in Legal(k)
  PROVE  /\ v \in Settings!Values /\ v # Settings!NoValue /\ v.type = Settings!Type(k) /\ v.type # "none"
         /\ v = Settings!Val(v.type, v.num)
<1> USE SettingsConstants
<1>1. CASE k \in FloatKeys
  BY <1>1 DEF Legal, Settings!Values, Settings!NoValue, Settings!Val, Settings!Type
<1>2. CASE k \in IntKeys
  BY <1>2 DEF Legal, Settings!Declared, Settings!Values, Settings!NoValue, Settings!Val,
     Settings!Type
<1>3. CASE k \in BoolKeys
  BY <1>3 DEF Legal, Settings!Declared, Settings!Bool, Settings!Values, Settings!NoValue,
     Settings!Val, Settings!Type
<1> QED
  BY <1>1, <1>2, <1>3 DEF Settings!Keys

LEMMA SettableValues ==
  ASSUME Settings!HttpSettingsAssumption, NEW k \in Settings!Keys, NEW v \in Settable(k)
  PROVE  /\ v \in Settings!Values /\ v.type # "none"
         /\ v.type = Settings!Type(k) => v \in Legal(k)
<1> USE SettingsConstants
<1>1. CASE v \in Legal(k)
  BY <1>1, LegalValues
<1>2. CASE v = Settings!Bool(TRUE) \/ v = Settings!Bool(FALSE)
  <2>1. v \in Settings!Values /\ v.type = "bool"
    BY <1>2 DEF Settings!Bool, Settings!Val, Settings!Values
  <2>2. Settings!Type(k) = "bool" => k \in BoolKeys
    BY DEF Settings!Type, Settings!Keys
  <2>3. k \in BoolKeys => v \in Legal(k)
    BY <1>2 DEF Legal, Settings!Declared
  <2> QED
    BY <2>1, <2>2, <2>3
<1>3. CASE k \in BoolKeys /\ v = Settings!Val("int", 0)
  BY <1>3 DEF Settings!Val, Settings!Values, Settings!Type
<1> QED
  BY <1>1, <1>2, <1>3 DEF Settable

LEMMA DefaultIsLegal ==
  ASSUME Settings!HttpSettingsAssumption, NEW k \in Settings!Keys
  PROVE  Settings!Default(k) \in Legal(k)
<1> USE SettingsConstants
<1>1. CASE k \in BoolKeys
  BY <1>1 DEF Settings!Default, Legal, Settings!Declared
<1>2. CASE k \in FloatKeys
  BY <1>2 DEF Settings!Default, Legal, Settings!Val, Settings!Type
<1>3. CASE k \in IntKeys
  <2>1. DefaultVal \in MinVal..MaxVal /\ DefaultVal % WHOLE = 0
    BY DEF Settings!HttpSettingsAssumption
  <2>2. Settings!Default(k) = Settings!Val("int", DefaultVal)
    BY <1>3 DEF Settings!Default, Settings!Type
  <2> QED
    <3>1. Legal(k) = [type : {"int"}, num : {n \in MinVal..MaxVal : n % WHOLE = 0}]
      BY <1>3 DEF Legal, Settings!Declared
    <3>2. DefaultVal \in {n \in MinVal..MaxVal : n % WHOLE = 0}
      BY <2>1
    <3> QED
      BY <2>2, <3>1, <3>2 DEF Settings!Val
<1> QED
  BY <1>1, <1>2, <1>3 DEF Settings!Keys

LEMMA ModuleValuesAreLegal ==
  ASSUME NEW k \in Settings!Keys
  PROVE  Settings!Declared(k) \subseteq Legal(k)
BY DEF Settings!Declared, Legal

LEMMA ClampIsLegal ==
  ASSUME Settings!HttpSettingsAssumption, NEW n \in Nat, n # Settings!NaN
  PROVE  /\ Settings!Clamp(n) \in MinVal..MaxVal
         /\ n \in MinVal..MaxVal => Settings!Clamp(n) = n
         /\ n % WHOLE = 0 => Settings!Clamp(n) % WHOLE = 0
<1> USE SettingsConstants
<1>1. MinVal % WHOLE = 0 /\ MaxVal % WHOLE = 0
  BY DEF Settings!HttpSettingsAssumption
<1>2. CASE n < MinVal
  BY <1>1, <1>2 DEF Settings!Clamp
<1>3. CASE n > MaxVal
  BY <1>1, <1>3 DEF Settings!Clamp
<1>4. CASE n \in MinVal..MaxVal
  BY <1>4 DEF Settings!Clamp
<1> QED
  BY <1>2, <1>3, <1>4

LEMMA ClampKeepsNaN ==
  ASSUME Settings!HttpSettingsAssumption
  PROVE  Settings!Clamp(Settings!NaN) = Settings!NaN
BY SettingsConstants DEF Settings!Clamp

(* What each route makes of a literal may be set.                          *)
LEMMA NumberIsLegal ==
  ASSUME Settings!HttpSettingsAssumption, NEW lit, lit = "nan" => "nan" \in Literals,
         NEW n \in Settings!Numbers, NEW k \in Settings!Keys
  PROVE  /\ k \in FloatKeys => Settings!Val("float", Settings!Clamp(Settings!AsFloat(lit, n))) \in Legal(k)
         /\ k \in IntKeys => Settings!Val("int", Settings!Clamp(Settings!AsInt(lit, n))) \in Legal(k)
<1> USE SettingsConstants
<1>1. n \in Nat /\ n # Settings!NaN
  BY DEF Settings!Numbers, Settings!NaN
<1>2. ASSUME k \in FloatKeys  PROVE  Settings!Val("float", Settings!Clamp(Settings!AsFloat(lit, n))) \in Legal(k)
  <2>1. CASE lit = "nan"
    <3>1. Settings!Clamp(Settings!AsFloat(lit, n)) = Settings!NaN
      BY <2>1, ClampKeepsNaN DEF Settings!AsFloat
    <3> QED
      BY <1>2, <2>1, <3>1 DEF Legal, Settings!Val
  <2>2. CASE lit # "nan"
    <3>1. Settings!AsFloat(lit, n) \in Nat /\ Settings!AsFloat(lit, n) # Settings!NaN
      BY <1>1, <2>2 DEF Settings!AsFloat
    <3>2. Settings!Clamp(Settings!AsFloat(lit, n)) \in MinVal..MaxVal
      BY <3>1, ClampIsLegal
    <3> QED
      BY <1>2, <3>2 DEF Legal, Settings!Val
  <2> QED
    BY <2>1, <2>2
<1>3. ASSUME k \in IntKeys  PROVE  Settings!Val("int", Settings!Clamp(Settings!AsInt(lit, n))) \in Legal(k)
  <2>1. Settings!AsInt(lit, n) \in Nat /\ Settings!AsInt(lit, n) # Settings!NaN /\ Settings!AsInt(lit, n) % WHOLE = 0
    <3>1. Settings!Whole(n) \in Nat /\ Settings!Whole(n) <= n /\ Settings!Whole(n) % WHOLE = 0
      BY <1>1, WholeIsWhole
    <3>2. n < Settings!NaN
      BY DEF Settings!Numbers, Settings!NaN
    <3>3. 0 % WHOLE = 0
      BY MultipleHasNone
    <3> QED
      BY <1>1, <3>1, <3>2, <3>3 DEF Settings!AsInt
  <2>2. Settings!Clamp(Settings!AsInt(lit, n)) \in MinVal..MaxVal /\ Settings!Clamp(Settings!AsInt(lit, n)) % WHOLE = 0
    BY <2>1, ClampIsLegal
  <2>3. Settings!Val("int", Settings!Clamp(Settings!AsInt(lit, n))) \in Settings!Declared(k)
    BY <1>3, <2>2 DEF Settings!Declared, Settings!Val
  <2> QED
    BY <1>3, <2>3 DEF Legal
<1> QED
  BY <1>2, <1>3

LEMMA JsonIsSettable ==
  ASSUME Settings!HttpSettingsAssumption, NEW lit, lit = "nan" => "nan" \in Literals,
         NEW n \in Settings!Numbers, NEW k \in Settings!Keys
  PROVE  Settings!JsonValue(k, lit, n) \in Settable(k)
<1>1. CASE lit = "true"
  BY <1>1 DEF Settings!JsonValue, Settable, Settings!Bool
<1>2. CASE lit # "true" /\ k \in FloatKeys
  BY <1>2, NumberIsLegal DEF Settings!JsonValue, Settable
<1>3. CASE lit # "true" /\ k \in IntKeys
  BY <1>3, NumberIsLegal, SettingsConstants DEF Settings!JsonValue, Settable
<1>4. CASE lit # "true" /\ k \in BoolKeys
  BY <1>4, SettingsConstants DEF Settings!JsonValue, Settable
<1> QED
  BY <1>1, <1>2, <1>3, <1>4 DEF Settings!Keys

LEMMA TextIsSettable ==
  ASSUME Settings!HttpSettingsAssumption, NEW lit \in Literals, NEW n \in Settings!Numbers,
         NEW k \in Settings!Keys
  PROVE  Settings!TextValue(k, lit, n) \in Settable(k)
<1>1. CASE k \in BoolKeys
  BY <1>1 DEF Settings!TextValue, Settable, Settings!Bool
<1>2. CASE k \in FloatKeys
  BY <1>2, NumberIsLegal, SettingsConstants DEF Settings!TextValue, Settable
<1>3. CASE k \in IntKeys
  BY <1>3, NumberIsLegal, SettingsConstants DEF Settings!TextValue, Settable
<1> QED
  BY <1>1, <1>2, <1>3 DEF Settings!Keys

(* What is stored of a value has the declared type, and is the value when  *)
(* that has it.                                                            *)
LEMMA StorableIsLegal ==
  ASSUME Settings!HttpSettingsAssumption, NEW k \in Settings!Keys, NEW v \in Settable(k)
  PROVE  /\ Settings!Storable(k, v) \in Legal(k) \cup {Settings!NoValue}
         /\ v \in Legal(k) => Settings!Storable(k, v) = v
<1> USE SettingsConstants
<1>1. ASSUME v \in Legal(k)  PROVE  Settings!Storable(k, v) = v
  <2>1. v.type = Settings!Type(k) /\ v = Settings!Val(v.type, v.num)
    BY <1>1, LegalValues
  <2>2. CASE k \in FloatKeys
    BY <2>1, <2>2 DEF Settings!Storable, Settings!Type
  <2>3. CASE k \in IntKeys
    <3>1. v.num \in Nat /\ v.num % WHOLE = 0 /\ v.type = "int" /\ v = Settings!Val("int", v.num)
      BY <1>1, <2>1, <2>3 DEF Legal, Settings!Declared, Settings!Type
    <3>2. Settings!Whole(v.num) = v.num
      BY <3>1 DEF Settings!Whole
    <3> QED
      BY <2>3, <3>1, <3>2 DEF Settings!Storable
  <2>4. CASE k \in BoolKeys
    BY <2>1, <2>4 DEF Settings!Storable, Settings!Type
  <2> QED
    BY <2>2, <2>3, <2>4 DEF Settings!Keys
<1>2. ASSUME v \notin Legal(k)  PROVE  Settings!Storable(k, v) = Settings!NoValue
  <2>1. CASE k \in BoolKeys
    <3>1. Legal(k) = {Settings!Bool(TRUE), Settings!Bool(FALSE)}
      BY <2>1 DEF Legal, Settings!Declared
    <3>2. v = Settings!Val("int", 0)
      BY <1>2, <2>1, <3>1 DEF Settable
    <3>3. v.type = "int"
      BY <3>2 DEF Settings!Val
    <3> QED
      BY <2>1, <3>3 DEF Settings!Storable
  <2>2. CASE k \notin BoolKeys
    <3>1. v.type = "bool"
      BY <1>2, <2>2 DEF Settable, Settings!Bool, Settings!Val
    <3> QED
      BY <2>2, <3>1 DEF Settings!Storable
  <2> QED
    BY <2>1, <2>2
<1> QED
  BY <1>1, <1>2

LEMMA LoadedIsLegal ==
  ASSUME Settings!HttpSettingsAssumption, ValuesAreLegal, NEW k \in Settings!Keys
  PROVE  Settings!Loaded[k] \in Legal(k)
BY DefaultIsLegal DEF Settings!Loaded, ValuesAreLegal

(* A backup shows legal values, and a restore reads them back as they are. *)
LEMMA ShownIsLegal ==
  ASSUME Settings!HttpSettingsAssumption, NEW k \in Settings!Keys, NEW v \in Legal(k),
         NEW up \in BOOLEAN
  PROVE  Settings!Shown(v, up) \in Legal(k)
<1> USE SettingsConstants
<1>1. CASE v.type # "float" \/ v.num = Settings!NaN
  BY <1>1 DEF Settings!Shown
<1>2. CASE v.type = "float" /\ v.num # Settings!NaN
  <2>1. k \in FloatKeys
    BY <1>2, LegalValues DEF Settings!Type
  <2>2. v.num \in MinVal..MaxVal
    BY <1>2, <2>1 DEF Legal
  <2>3. PICK a, b \in Nat : MinVal = SHOWN * a /\ MaxVal = SHOWN * b
    BY BoundsAreShown
  <2> DEFINE rest == v.num % SHOWN
  <2>4. /\ v.num - rest \in MinVal..MaxVal
        /\ rest # 0 => v.num - rest + SHOWN \in MinVal..MaxVal
    <3>1. v.num \in Nat /\ SHOWN * a <= v.num /\ v.num <= SHOWN * b
      BY <2>2, <2>3
    <3>2. /\ v.num - (v.num % SHOWN) \in (SHOWN * a)..(SHOWN * b)
          /\ v.num % SHOWN # 0 => v.num - (v.num % SHOWN) + SHOWN \in (SHOWN * a)..(SHOWN * b)
      BY <3>1, RoundingStays
    <3> QED
      BY <2>3, <3>2
  <2>5. rest \in 0..(SHOWN - 1)
    BY <2>2, Remainder
  <2> HIDE DEF rest
  <2>6. rest = 0 => ~(2 * rest > SHOWN \/ (2 * rest = SHOWN /\ up))
    BY <2>5
  <2>7. Settings!Shown(v, up) = Settings!Val("float", IF 2 * rest > SHOWN \/ (2 * rest = SHOWN /\ up)
                                                     THEN v.num - rest + SHOWN ELSE v.num - rest)
    BY <1>2 DEF Settings!Shown, rest
  <2>8. \E n \in MinVal..MaxVal : Settings!Shown(v, up) = Settings!Val("float", n)
    BY <2>4, <2>6, <2>7
  <2> QED
    BY <2>1, <2>8 DEF Legal, Settings!Val
<1> QED
  BY <1>1, <1>2

LEMMA FileIsReadBack ==
  ASSUME Settings!HttpSettingsAssumption, BackupIsLegal, NEW k \in DOMAIN backup,
         k \in Settings!Keys
  PROVE  Settings!FromFile(k) = backup[k]
<1> USE SettingsConstants
<1>1. backup[k] \in Legal(k) /\ backup[k].type = Settings!Type(k) /\ backup[k] = Settings!Val(backup[k].type, backup[k].num)
  BY LegalValues DEF BackupIsLegal
<1>2. CASE k \in BoolKeys
  BY <1>1, <1>2 DEF Settings!FromFile, Settings!JsonValue, Legal, Settings!Declared,
     Settings!Bool, Settings!Val
<1>3. CASE k \in FloatKeys
  <2>1. Settings!Clamp(backup[k].num) = backup[k].num
    BY <1>1, <1>3, ClampIsLegal, ClampKeepsNaN DEF Legal
  <2> QED
    BY <1>1, <1>3, <2>1 DEF Settings!FromFile, Settings!JsonValue, Settings!AsFloat, Settings!Type
<1>4. CASE k \in IntKeys
  <2>1. backup[k].num \in MinVal..MaxVal /\ backup[k].num % WHOLE = 0
    BY <1>1, <1>4 DEF Legal, Settings!Declared
  <2>2. Settings!Clamp(backup[k].num) = backup[k].num /\ Settings!Whole(backup[k].num) = backup[k].num
    BY <2>1, ClampIsLegal DEF Settings!Whole
  <2> QED
    BY <1>1, <1>4, <2>2 DEF Settings!FromFile, Settings!JsonValue, Settings!AsInt, Settings!Type
<1> QED
  BY <1>2, <1>3, <1>4 DEF Settings!Keys

-----------------------------------------------------------------------------
(* The steps *)

LEMMA InitSettingsInv ==
  ASSUME Settings!HttpSettingsAssumption, Settings!Init
  PROVE  SettingsInv
<1> USE DEF Settings!Init
<1>1. \A k \in Settings!Keys : settings_map[k] \in Legal(k) /\ accepted[k] = settings_map[k] /\ settings_flash[k] = Settings!NoValue
  BY DefaultIsLegal
<1>2. \A k \in Settings!Keys : settings_map[k] \in Settings!Values /\ settings_map[k].type # "none"
  BY <1>1, LegalValues
<1>3. Settings!NoValue \in Settings!Values
  BY SettingsConstants DEF Settings!NoValue, Settings!Val, Settings!Values
<1>4. DOMAIN backup = {}
  BY DEF Settings!NoFile
<1>5. job \in JobType /\ ~Settings!Restarting
      /\ job.at = "none"
  BY DEF Settings!NoJob, JobType, Settings!Restarting
<1>6. Settings!TypeOK
  BY <1>2, <1>3, <1>4, <1>5, SettingsConstants DEF Settings!TypeOK, JobType
<1>7. ValuesAreLegal /\ BackupIsLegal /\ DirtyIsLast
  BY <1>1, <1>4 DEF ValuesAreLegal, BackupIsLegal, DirtyIsLast, Settable
<1>8. Restored /\ OnlyLateIsLeft /\ TodoIsInFile /\ Settings!RestoreFaithful
  BY <1>5 DEF Restored, OnlyLateIsLeft, TodoIsInFile, Settings!RestoreFaithful
<1>9. Settings!TypedIsKept
  BY DEF Settings!TypedIsKept, Settings!Loaded
<1> QED
  BY <1>6, <1>7, <1>8, <1>9 DEF SettingsInv

(* A key that a request, a command or a module sets.                       *)
LEMMA SettingKeeps ==
  ASSUME Settings!HttpSettingsAssumption, SettingsInv, NEW k \in Settings!Keys,
         NEW v \in Settable(k),
         Settings!Set(k, v), job' = IF job = Settings!NoJob THEN job ELSE [job EXCEPT !.touched = @ \cup {k}],
         UNCHANGED <<settings_flash, backup>>, changes' \in 0..Changes
  PROVE  SettingsInv'
<1> USE DEF SettingsInv
<1>1. /\ settings_map' = [settings_map EXCEPT ![k] = v] /\ dirty' = dirty \cup {k}
      /\ settings_map \in [Settings!Keys -> Settings!Values] /\ accepted \in [Settings!Keys -> Settings!Values] /\ dirty \subseteq Settings!Keys
  BY DEF Settings!Set, Settings!TypeOK
<1>1a. /\ accepted' = [accepted EXCEPT ![k] = v] /\ late \subseteq Settings!Keys
       /\ late' = IF Settings!Restarting THEN late \cup {k} ELSE late \ {k}
  BY DEF Settings!Set, Settings!TypeOK
<1>2. v \in Settings!Values /\ v.type # "none"
  BY SettableValues
<1>3. job \in JobType
  BY DEF Settings!TypeOK, JobType
<1>4. /\ job' \in JobType
      /\ job'.at = job.at /\ job'.todo = job.todo
      /\ job.at # "none" => job'.touched = job.touched \cup {k}
      /\ Settings!Restarting' <=> Settings!Restarting
  BY <1>3 DEF Settings!NoJob, JobType, Settings!Restarting
<1>5. /\ settings_map'[k] = v /\ accepted'[k] = v
      /\ \A x \in Settings!Keys \ {k} : settings_map'[x] = settings_map[x] /\ accepted'[x] = accepted[x]
  BY <1>1, <1>1a
<1>6. Settings!TypeOK'
  <2>1. /\ settings_map' \in [Settings!Keys -> Settings!Values] /\ accepted' \in [Settings!Keys -> Settings!Values]
        /\ dirty' \subseteq Settings!Keys /\ late' \subseteq Settings!Keys
    BY <1>1, <1>1a, <1>2
  <2>2. \A x \in Settings!Keys : settings_map'[x].type # "none"
    BY <1>2, <1>5 DEF Settings!TypeOK
  <2> QED
    BY <1>4, <2>1, <2>2 DEF Settings!TypeOK, JobType
<1>7. ValuesAreLegal'
  <2>1. \A x \in Settings!Keys : /\ settings_map'[x] \in Settable(x) /\ accepted'[x] \in Settable(x)
                                 /\ settings_flash'[x] \in Legal(x) \cup {Settings!NoValue}
    BY <1>5 DEF ValuesAreLegal
  <2> QED
    BY <2>1 DEF ValuesAreLegal, Settable, Legal, Settings!Declared
<1>8. BackupIsLegal'
  BY DEF BackupIsLegal, Legal, Settings!Declared
<1>9. DirtyIsLast'
  BY <1>1, <1>5 DEF DirtyIsLast
<1>10. Restored'
  <2> SUFFICES ASSUME job'.at = "keys",
                      NEW x \in DOMAIN backup \ (job'.todo \cup job'.touched)
               PROVE  IF x \in dirty' THEN settings_map'[x] = backup[x] ELSE settings_flash[x] = backup[x]
    BY DEF Restored
  <2>1. x # k /\ x \in Settings!Keys /\ x \in DOMAIN backup \ (job.todo \cup job.touched)
    BY <1>4 DEF Settings!TypeOK
  <2> QED
    BY <1>1, <1>4, <1>5, <2>1 DEF Restored
<1>11. OnlyLateIsLeft' /\ TodoIsInFile' /\ Settings!RestoreFaithful'
  BY <1>1, <1>1a, <1>4 DEF OnlyLateIsLeft, TodoIsInFile, Settings!RestoreFaithful
<1>12. Settings!TypedIsKept'
  <2>1. Settings!Loaded' = Settings!Loaded
    BY DEF Settings!Loaded, Settings!Default
  <2>2. \A x \in Settings!Keys \ (dirty' \cup late') : x # k /\ x \notin dirty \cup late
    BY <1>1, <1>1a
  <2>3. \A x \in Settings!Keys \ (dirty' \cup late') :
          accepted'[x].type = Settings!Type(x) => Settings!Loaded[x] = accepted'[x]
    BY <2>2, <1>5 DEF Settings!TypedIsKept
  <2> QED
    BY <2>1, <2>3 DEF Settings!TypedIsKept
<1> QED
  BY <1>6, <1>7, <1>8, <1>9, <1>10, <1>11, <1>12

(* What a key's flush leaves in flash.                                     *)
LEMMA FlushedIsLegal ==
  ASSUME Settings!HttpSettingsAssumption, SettingsInv, NEW S \in SUBSET Settings!Keys
  PROVE  /\ Settings!Flushed(S) \in [Settings!Keys -> Settings!Values]
         /\ \A k \in Settings!Keys : Settings!Flushed(S)[k] \in Legal(k) \cup {Settings!NoValue}
         /\ \A k \in Settings!Keys \ S : Settings!Flushed(S)[k] = settings_flash[k]
         /\ \A k \in S : settings_map[k] \in Legal(k) => Settings!Flushed(S)[k] = settings_map[k]
<1> USE DEF SettingsInv
<1>1. \A k \in Settings!Keys : Settings!Storable(k, settings_map[k]) \in Legal(k) \cup {Settings!NoValue}
  BY StorableIsLegal DEF ValuesAreLegal
<1>2. \A k \in Settings!Keys : Settings!Flushed(S)[k] \in Legal(k) \cup {Settings!NoValue}
  BY <1>1 DEF Settings!Flushed, ValuesAreLegal
<1>3. Settings!NoValue \in Settings!Values
  BY SettingsConstants DEF Settings!NoValue, Settings!Val, Settings!Values
<1>4. \A k \in Settings!Keys : Settings!Flushed(S)[k] \in Settings!Values
  BY <1>2, <1>3, LegalValues
<1>5. Settings!Flushed(S) \in [Settings!Keys -> Settings!Values]
  BY <1>4 DEF Settings!Flushed
<1>6. \A k \in Settings!Keys \ S : Settings!Flushed(S)[k] = settings_flash[k]
  BY DEF Settings!Flushed
<1>7. ASSUME NEW k \in S, settings_map[k] \in Legal(k)  PROVE  Settings!Flushed(S)[k] = settings_map[k]
  <2>1. k \in Settings!Keys /\ settings_map[k] \in Settable(k)
    BY DEF ValuesAreLegal
  <2>2. Settings!Storable(k, settings_map[k]) = settings_map[k] /\ settings_map[k] # Settings!NoValue
    BY <1>7, <2>1, StorableIsLegal, LegalValues
  <2> QED
    BY <2>1, <2>2 DEF Settings!Flushed
<1> QED
  BY <1>2, <1>5, <1>6, <1>7

(* Writing dirty keys to flash, one as it comes due or all in a job.       *)
LEMMA FlushingKeeps ==
  ASSUME Settings!HttpSettingsAssumption, SettingsInv, NEW S \in SUBSET dirty,
         settings_flash' = Settings!Flushed(S), dirty' = dirty \ S, late' = late \ S,
         UNCHANGED <<settings_map, backup, accepted, changes>>
  PROVE  /\ settings_flash' \in [Settings!Keys -> Settings!Values] /\ dirty' \subseteq Settings!Keys /\ late' \subseteq Settings!Keys
         /\ ValuesAreLegal' /\ BackupIsLegal' /\ DirtyIsLast' /\ Settings!TypedIsKept'
<1> USE DEF SettingsInv
<1>1. S \in SUBSET Settings!Keys
  BY DEF Settings!TypeOK
<1>2. /\ settings_flash' \in [Settings!Keys -> Settings!Values]
      /\ \A k \in Settings!Keys : settings_flash'[k] \in Legal(k) \cup {Settings!NoValue}
      /\ \A k \in Settings!Keys \ S : settings_flash'[k] = settings_flash[k]
      /\ \A k \in S : settings_map[k] \in Legal(k) => settings_flash'[k] = settings_map[k]
  BY <1>1, FlushedIsLegal
<1>3. ValuesAreLegal' /\ BackupIsLegal'
  BY <1>2 DEF ValuesAreLegal, BackupIsLegal, Settable, Legal, Settings!Declared
<1>4. dirty' \subseteq Settings!Keys /\ late' \subseteq Settings!Keys /\ DirtyIsLast'
  BY DEF Settings!TypeOK, DirtyIsLast
<1>5. Settings!TypedIsKept'
  <2> SUFFICES ASSUME NEW k \in Settings!Keys, k \notin dirty' \cup late', accepted[k].type = Settings!Type(k)
               PROVE  Settings!Loaded'[k] = accepted[k]
    BY DEF Settings!TypedIsKept
  <2>1. Settings!Loaded'[k] = IF settings_flash'[k] # Settings!NoValue THEN settings_flash'[k] ELSE Settings!Default(k)
    BY DEF Settings!Loaded, Settings!Default
  <2>2. CASE k \in S
    <3>1. settings_map[k] = accepted[k] /\ accepted[k] \in Legal(k)
      BY <2>2, SettableValues DEF DirtyIsLast, ValuesAreLegal
    <3>2. accepted[k] # Settings!NoValue
      BY <3>1, LegalValues
    <3> QED
      BY <1>2, <2>1, <2>2, <3>1, <3>2
  <2>3. CASE k \notin S
    <3>1. Settings!Loaded[k] = accepted[k]
      BY <2>3 DEF Settings!TypedIsKept
    <3> QED
      BY <1>2, <2>1, <2>3, <3>1 DEF Settings!Loaded
  <2> QED
    BY <2>2, <2>3
<1> QED
  BY <1>2, <1>3, <1>4, <1>5

LEMMA FlushKeeps ==
  ASSUME Settings!HttpSettingsAssumption, SettingsInv, NEW k \in Settings!Keys, Settings!Flush(k)
  PROVE  SettingsInv'
<1> USE DEF SettingsInv, Settings!Flush
<1>1. /\ settings_flash' \in [Settings!Keys -> Settings!Values] /\ dirty' \subseteq Settings!Keys /\ late' \subseteq Settings!Keys
      /\ ValuesAreLegal' /\ BackupIsLegal' /\ DirtyIsLast' /\ Settings!TypedIsKept'
  <2>1. {k} \in SUBSET dirty
    OBVIOUS
  <2> QED
    BY <2>1, FlushingKeeps
<1>2. Settings!TypeOK'
  BY <1>1 DEF Settings!TypeOK
<1>3. Restored'
  <2> SUFFICES ASSUME job.at = "keys", NEW x \in DOMAIN backup \ (job.todo \cup job.touched)
               PROVE  IF x \in dirty' THEN settings_map[x] = backup[x] ELSE settings_flash'[x] = backup[x]
    BY DEF Restored
  <2>1. x \in Settings!Keys /\ backup[x] \in Legal(x)
    BY DEF Settings!TypeOK, BackupIsLegal
  <2>2. CASE x = k
    BY <2>1, <2>2, FlushedIsLegal DEF Restored
  <2>3. CASE x # k
    BY <2>1, <2>3, FlushedIsLegal DEF Restored
  <2> QED
    BY <2>2, <2>3
<1>4. OnlyLateIsLeft' /\ TodoIsInFile' /\ Settings!RestoreFaithful'
  <2>1. ASSUME job.at = "restored", NEW x \in DOMAIN backup \ job.touched
        PROVE  settings_flash'[x] = backup[x]
    <3>1. x # k /\ x \in Settings!Keys /\ settings_flash[x] = backup[x]
      BY <2>1 DEF OnlyLateIsLeft, Settings!RestoreFaithful, Settings!TypeOK
    <3> QED
      BY <3>1, FlushedIsLegal
  <2> QED
    BY <2>1 DEF OnlyLateIsLeft, TodoIsInFile, Settings!RestoreFaithful, Settings!Restarting
<1> QED
  BY <1>1, <1>2, <1>3, <1>4

LEMMA FlushNowKeeps ==
  ASSUME Settings!HttpSettingsAssumption, SettingsInv, Settings!FlushNow,
         UNCHANGED <<settings_map, backup, accepted, changes>>
  PROVE  /\ settings_flash' \in [Settings!Keys -> Settings!Values] /\ dirty' \subseteq Settings!Keys /\ late' \subseteq Settings!Keys
         /\ ValuesAreLegal' /\ BackupIsLegal' /\ DirtyIsLast' /\ Settings!TypedIsKept'
         /\ dirty' = {}
<1>1. dirty' = dirty \ dirty /\ dirty \in SUBSET dirty /\ settings_flash' = Settings!Flushed(dirty)
  BY DEF Settings!FlushNow
<1> QED
  BY <1>1, FlushingKeeps DEF Settings!FlushNow

LEMMA RestartFlushKeeps ==
  ASSUME Settings!HttpSettingsAssumption, SettingsInv,
         Settings!PostRestart \/ Settings!FlushStopped
  PROVE  SettingsInv'
<1> USE DEF SettingsInv
<1>1. /\ Settings!FlushNow /\ UNCHANGED <<settings_map, backup, accepted, changes>>
      /\ job' = [job EXCEPT !.at = "stopping"] \/ job' = [job EXCEPT !.at = "stopped"]
  BY DEF Settings!PostRestart, Settings!FlushStopped
<1>2. job' \in JobType /\ job'.at \in {"stopping", "stopped"}
  BY <1>1 DEF Settings!TypeOK, JobType
<1>3. Settings!TypeOK'
  BY <1>1, <1>2, FlushNowKeeps DEF Settings!TypeOK, JobType
<1>4. Restored' /\ OnlyLateIsLeft' /\ TodoIsInFile' /\ Settings!RestoreFaithful'
  BY <1>1, <1>2, FlushNowKeeps DEF Restored, OnlyLateIsLeft, TodoIsInFile,
     Settings!RestoreFaithful
<1> QED
  BY <1>1, <1>3, <1>4, FlushNowKeeps

LEMMA RestoreFlushKeeps ==
  ASSUME Settings!HttpSettingsAssumption, SettingsInv, Settings!RestoreFlush
  PROVE  SettingsInv'
<1> USE DEF SettingsInv, Settings!RestoreFlush
<1>1. job' \in JobType /\ job'.at = "restored" /\ job'.touched = job.touched
  BY DEF Settings!TypeOK, JobType
<1>2. Settings!TypeOK'
  BY <1>1, FlushNowKeeps DEF Settings!TypeOK, JobType
<1>3. Restored' /\ OnlyLateIsLeft' /\ TodoIsInFile'
  BY <1>1, FlushNowKeeps DEF Restored, OnlyLateIsLeft, TodoIsInFile
<1>4. Settings!RestoreFaithful'
  <2> SUFFICES ASSUME NEW x \in DOMAIN backup \ job.touched
               PROVE  settings_flash'[x] = backup[x]
    BY <1>1 DEF Settings!RestoreFaithful
  <2>1. x \in Settings!Keys /\ backup[x] \in Legal(x) /\ dirty \in SUBSET Settings!Keys
    BY DEF Settings!TypeOK, BackupIsLegal
  <2> QED
    BY <2>1, FlushedIsLegal DEF Restored, Settings!FlushNow
<1> QED
  BY <1>2, <1>3, <1>4, FlushNowKeeps

(* A start: what flash holds is what is in force.                          *)
LEMMA RebootKeeps ==
  ASSUME Settings!HttpSettingsAssumption, SettingsInv, Settings!Reboot,
         UNCHANGED <<settings_flash, backup, changes>>,
         \/ /\ accepted' = [k \in Settings!Keys |-> IF k \in dirty THEN Settings!Loaded[k] ELSE accepted[k]]
            /\ late' = late \ dirty
         \/ UNCHANGED <<accepted, late>> /\ dirty \subseteq late
  PROVE  SettingsInv'
<1> USE DEF SettingsInv, Settings!Reboot
<1>1. \A k \in Settings!Keys : Settings!Loaded[k] \in Legal(k) /\ Settings!Loaded[k] \in Settings!Values /\ Settings!Loaded[k].type # "none"
  BY LoadedIsLegal, LegalValues
<1>2. Settings!Loaded \in [Settings!Keys -> Settings!Values]
  BY <1>1 DEF Settings!Loaded
<1>3. /\ accepted' \in [Settings!Keys -> Settings!Values] /\ late' \subseteq Settings!Keys
      /\ \A k \in Settings!Keys : accepted'[k] = accepted[k] \/ accepted'[k] = Settings!Loaded[k]
  BY <1>1 DEF Settings!TypeOK
<1>4. job' \in JobType /\ job'.at = "none" /\ ~Settings!Restarting'
  BY DEF Settings!NoJob, JobType, Settings!Restarting
<1>5. Settings!TypeOK'
  BY <1>1, <1>2, <1>3, <1>4 DEF Settings!TypeOK, JobType
<1>6. ValuesAreLegal' /\ BackupIsLegal'
  <2>1. \A x \in Settings!Keys : /\ settings_map'[x] \in Settable(x) /\ accepted'[x] \in Settable(x)
                                 /\ settings_flash'[x] \in Legal(x) \cup {Settings!NoValue}
    BY <1>1, <1>3 DEF ValuesAreLegal, Settable
  <2> QED
    BY <2>1 DEF ValuesAreLegal, BackupIsLegal, Settable, Legal, Settings!Declared
<1>7. DirtyIsLast' /\ Restored' /\ OnlyLateIsLeft' /\ TodoIsInFile' /\ Settings!RestoreFaithful'
  BY <1>4 DEF DirtyIsLast, Restored, OnlyLateIsLeft, TodoIsInFile, Settings!RestoreFaithful
<1>8. Settings!TypedIsKept'
  <2>1. Settings!Loaded' = Settings!Loaded
    BY DEF Settings!Loaded, Settings!Default
  <2>2. \A x \in Settings!Keys \ late' :
          accepted'[x].type = Settings!Type(x) => Settings!Loaded[x] = accepted'[x]
    BY DEF Settings!TypedIsKept
  <2> QED
    BY <2>1, <2>2 DEF Settings!TypedIsKept
<1> QED
  BY <1>5, <1>6, <1>7, <1>8

LEMMA GetBackupKeeps ==
  ASSUME Settings!HttpSettingsAssumption, SettingsInv, Settings!GetBackup
  PROVE  SettingsInv'
<1> USE DEF SettingsInv, Settings!GetBackup
<1>1. PICK up \in BOOLEAN :
        backup' = [k \in {x \in Settings!Keys : settings_map[x].type = Settings!Type(x)} |-> Settings!Shown(settings_map[k], up)]
  OBVIOUS
<1>2. \A k \in DOMAIN backup' : k \in Settings!Keys /\ backup'[k] \in Legal(k)
  <2> SUFFICES ASSUME NEW k \in DOMAIN backup'  PROVE  k \in Settings!Keys /\ backup'[k] \in Legal(k)
    OBVIOUS
  <2>1. k \in Settings!Keys /\ settings_map[k].type = Settings!Type(k) /\ backup'[k] = Settings!Shown(settings_map[k], up)
    BY <1>1
  <2>2. settings_map[k] \in Legal(k)
    BY <2>1, SettableValues DEF ValuesAreLegal
  <2> QED
    BY <2>1, <2>2, ShownIsLegal
<1>3. \A k \in DOMAIN backup' : backup'[k] \in Settings!Values
  BY <1>2, LegalValues
<1>4. Settings!TypeOK'
  BY <1>2, <1>3 DEF Settings!TypeOK, JobType
<1>5. ValuesAreLegal' /\ BackupIsLegal'
  BY <1>2 DEF ValuesAreLegal, BackupIsLegal, Settable, Legal, Settings!Declared
<1>6. DirtyIsLast' /\ Restored' /\ OnlyLateIsLeft' /\ TodoIsInFile' /\ Settings!RestoreFaithful'
  BY DEF DirtyIsLast, Restored, OnlyLateIsLeft, TodoIsInFile, Settings!RestoreFaithful,
     Settings!NoJob,
         Settings!Restarting
<1>7. Settings!TypedIsKept'
  BY DEF Settings!TypedIsKept, Settings!Loaded, Settings!Default
<1> QED
  BY <1>4, <1>5, <1>6, <1>7

LEMMA PostRestoreKeeps ==
  ASSUME Settings!HttpSettingsAssumption, SettingsInv, Settings!PostRestore
  PROVE  SettingsInv'
<1> USE DEF SettingsInv, Settings!PostRestore
<1>1. /\ job' \in JobType
      /\ job'.at = "keys" /\ job'.todo = DOMAIN backup /\ ~Settings!Restarting'
  BY DEF Settings!TypeOK, JobType, Settings!Restarting
<1>2. Settings!TypeOK'
  BY <1>1 DEF Settings!TypeOK, JobType
<1>3. ValuesAreLegal' /\ BackupIsLegal' /\ DirtyIsLast'
  BY DEF ValuesAreLegal, BackupIsLegal, DirtyIsLast, Settable, Legal, Settings!Declared
<1>4. Restored' /\ OnlyLateIsLeft' /\ TodoIsInFile' /\ Settings!RestoreFaithful'
  BY <1>1 DEF Restored, OnlyLateIsLeft, TodoIsInFile, Settings!RestoreFaithful
<1>5. Settings!TypedIsKept'
  BY DEF Settings!TypedIsKept, Settings!Loaded, Settings!Default
<1> QED
  BY <1>2, <1>3, <1>4, <1>5

LEMMA RestoreKeyKeeps ==
  ASSUME Settings!HttpSettingsAssumption, SettingsInv, Settings!RestoreKey
  PROVE  SettingsInv'
<1> USE DEF SettingsInv, Settings!RestoreKey
<1>1. PICK k \in job.todo :
        /\ Settings!Set(k, Settings!FromFile(k))
        /\ job' = [job EXCEPT !.todo = @ \ {k}, !.touched = @ \ {k}]
  OBVIOUS
<1> DEFINE v == Settings!FromFile(k)
<1>2. k \in Settings!Keys /\ k \in DOMAIN backup /\ job.at = "keys"
  BY DEF Settings!TypeOK, TodoIsInFile
<1>3. v = backup[k] /\ v \in Legal(k)
  BY <1>2, FileIsReadBack DEF BackupIsLegal
<1> HIDE DEF v
<1>4. v \in Settable(k) /\ v \in Settings!Values /\ v.type # "none"
  BY <1>2, <1>3, LegalValues DEF Settable
<1>5. /\ settings_map' = [settings_map EXCEPT ![k] = v] /\ accepted' = [accepted EXCEPT ![k] = v]
      /\ dirty' = dirty \cup {k} /\ job' = [job EXCEPT !.todo = @ \ {k}, !.touched = @ \ {k}]
      /\ settings_map \in [Settings!Keys -> Settings!Values] /\ accepted \in [Settings!Keys -> Settings!Values] /\ dirty \subseteq Settings!Keys
      /\ late' = late \ {k} /\ late \subseteq Settings!Keys
  BY <1>1, <1>2 DEF Settings!Set, Settings!TypeOK, v, Settings!Restarting
<1>6. /\ job' \in JobType
      /\ job'.at = "keys" /\ job'.todo = job.todo \ {k} /\ job'.touched = job.touched \ {k}
      /\ ~Settings!Restarting'
  BY <1>2, <1>5 DEF Settings!TypeOK, JobType, Settings!Restarting
<1>7. /\ settings_map'[k] = v /\ accepted'[k] = v
      /\ \A x \in Settings!Keys \ {k} : settings_map'[x] = settings_map[x] /\ accepted'[x] = accepted[x]
  BY <1>2, <1>5
<1>8. Settings!TypeOK'
  <2>1. /\ settings_map' \in [Settings!Keys -> Settings!Values] /\ accepted' \in [Settings!Keys -> Settings!Values] /\ dirty' \subseteq Settings!Keys
        /\ late' \subseteq Settings!Keys
    BY <1>2, <1>4, <1>5
  <2>2. \A x \in Settings!Keys : settings_map'[x].type # "none"
    BY <1>4, <1>7 DEF Settings!TypeOK
  <2> QED
    BY <1>6, <2>1, <2>2 DEF Settings!TypeOK, JobType
<1>9. ValuesAreLegal' /\ BackupIsLegal'
  <2>1. \A x \in Settings!Keys : /\ settings_map'[x] \in Settable(x) /\ accepted'[x] \in Settable(x)
                                 /\ settings_flash'[x] \in Legal(x) \cup {Settings!NoValue}
    BY <1>4, <1>7 DEF ValuesAreLegal
  <2> QED
    BY <2>1 DEF ValuesAreLegal, BackupIsLegal, Settable, Legal, Settings!Declared
<1>10. DirtyIsLast'
  BY <1>5, <1>7 DEF DirtyIsLast
<1>11. Restored'
  <2> SUFFICES ASSUME NEW x \in DOMAIN backup \ (job'.todo \cup job'.touched)
               PROVE  IF x \in dirty' THEN settings_map'[x] = backup[x] ELSE settings_flash[x] = backup[x]
    BY DEF Restored
  <2>1. CASE x = k
    BY <1>3, <1>5, <1>7, <2>1
  <2>2. CASE x # k
    <3>1. x \in Settings!Keys /\ x \in DOMAIN backup \ (job.todo \cup job.touched)
      BY <1>6, <2>2 DEF Settings!TypeOK
    <3> QED
      BY <1>5, <1>7, <2>2, <3>1 DEF Restored
  <2> QED
    BY <2>1, <2>2
<1>12. OnlyLateIsLeft' /\ TodoIsInFile' /\ Settings!RestoreFaithful'
  BY <1>6 DEF OnlyLateIsLeft, TodoIsInFile, Settings!RestoreFaithful
<1>13. Settings!TypedIsKept'
  <2>1. Settings!Loaded' = Settings!Loaded
    BY DEF Settings!Loaded, Settings!Default
  <2>2. \A x \in Settings!Keys \ (dirty' \cup late') : accepted'[x].type = Settings!Type(x) => Settings!Loaded[x] = accepted'[x]
    BY <1>5, <1>7 DEF Settings!TypedIsKept
  <2> QED
    BY <2>1, <2>2 DEF Settings!TypedIsKept
<1> QED
  BY <1>8, <1>9, <1>10, <1>11, <1>12, <1>13

LEMMA NextSettingsInv ==
  ASSUME Settings!HttpSettingsAssumption, SettingsInv, [Settings!Next]_(Settings!vars)
  PROVE  SettingsInv'
<1>1. Settings!Counted => changes' \in 0..Changes
  BY SettingsConstants DEF Settings!Counted, SettingsInv, Settings!TypeOK
<1>2. ASSUME NEW k \in Settings!Keys, NEW lit \in Literals, NEW n \in Settings!Numbers, Settings!PostSettings(k, lit, n)
      PROVE  SettingsInv'
  <2>1. Settings!JsonValue(k, lit, n) \in Settable(k)
    BY JsonIsSettable
  <2> QED
    BY <1>1, <1>2, <2>1, SettingKeeps DEF Settings!PostSettings
<1>3. ASSUME NEW k \in Settings!Keys, NEW lit \in Literals, NEW n \in Settings!Numbers, Settings!Command(k, lit, n)
      PROVE  SettingsInv'
  <2>1. Settings!TextValue(k, lit, n) \in Settable(k)
    BY TextIsSettable
  <2> QED
    BY <1>1, <1>3, <2>1, SettingKeeps DEF Settings!Command, Settings!Touch
<1>4. ASSUME NEW k \in Settings!Keys, NEW v \in Settings!Declared(k), Settings!ModuleSets(k, v)  PROVE  SettingsInv'
  <2>1. v \in Settable(k)
    BY ModuleValuesAreLegal DEF Settable
  <2> QED
    BY <1>1, <1>4, <2>1, SettingKeeps DEF Settings!ModuleSets, Settings!Touch
<1>5. CASE \E k \in Settings!Keys : Settings!Flush(k)
  BY <1>5, FlushKeeps
<1>6. CASE Settings!PowerLoss
  BY <1>6, RebootKeeps DEF Settings!PowerLoss
<1>7. CASE Settings!GetBackup
  BY <1>7, GetBackupKeeps
<1>8. CASE Settings!PostRestore
  BY <1>8, PostRestoreKeeps
<1>9. CASE Settings!RestoreKey
  BY <1>9, RestoreKeyKeeps
<1>10. CASE Settings!RestoreFlush
  BY <1>10, RestoreFlushKeeps
<1>11. CASE Settings!Restart
  BY <1>11, RebootKeeps DEF Settings!Restart, SettingsInv, OnlyLateIsLeft
<1>13. CASE Settings!PostRestart \/ Settings!FlushStopped
  BY <1>13, RestartFlushKeeps
<1>12. CASE UNCHANGED Settings!vars
  BY <1>12 DEF Settings!vars, SettingsInv, Settings!TypeOK, ValuesAreLegal, BackupIsLegal,
     DirtyIsLast, Restored,
     OnlyLateIsLeft, TodoIsInFile, Settings!TypedIsKept, Settings!RestoreFaithful, Settable,
     Legal, Settings!Declared,
     Settings!Loaded, Settings!Default, Settings!Restarting
<1> QED
  BY <1>13, <1>2, <1>3, <1>4, <1>5, <1>6, <1>7, <1>8, <1>9, <1>10, <1>11, <1>12 DEF Settings!Next

-----------------------------------------------------------------------------
(* The theorems *)

(* Flash holds each key in its declared type, a restore ends with what the *)
(* backup shows in flash, and a value accepted in the declared type is     *)
(* what the next start loads, but for one set after the last flush of a    *)
(* restore or a restart: by every route, for any keys, any range and any   *)
(* literal a client sends.                                                 *)
THEOREM SettingsAreDurable ==
  ASSUME Settings!HttpSettingsAssumption
  PROVE  Settings!Spec => [](Settings!TypeOK /\ Settings!FlashTyped /\ Settings!RestoreFaithful /\ Settings!TypedIsKept)
<1>1. Settings!Init => SettingsInv
  BY InitSettingsInv
<1>2. SettingsInv /\ [Settings!Next]_(Settings!vars) => SettingsInv'
  BY NextSettingsInv
<1>3. SettingsInv => Settings!TypeOK /\ Settings!FlashTyped /\ Settings!RestoreFaithful /\ Settings!TypedIsKept
  BY LegalValues DEF SettingsInv, ValuesAreLegal, Settings!FlashTyped
<1> QED
  BY <1>1, <1>2, <1>3, PTL DEF Settings!Spec

(* A number in the state is within the range of its key by every route,    *)
(* as long as no route is sent the literal nan: atof() makes it a number   *)
(* that no comparison with a bound rejects.                                *)
THEOREM NumbersAreInRange ==
  ASSUME Settings!HttpSettingsAssumption, "nan" \notin Literals
  PROVE  Settings!Spec => []Settings!InRange
<1>1. Settings!Init => SettingsInv
  BY InitSettingsInv
<1>2. SettingsInv /\ [Settings!Next]_(Settings!vars) => SettingsInv'
  BY NextSettingsInv
<1>3. ASSUME SettingsInv, NEW k \in Settings!Keys, settings_map[k].type \in {"float", "int"}
      PROVE  settings_map[k].num \in Settings!Bounds(k)
  <2> USE SettingsConstants
  <2>1. settings_map[k] \in Settable(k)
    BY <1>3 DEF SettingsInv, ValuesAreLegal
  <2>2. CASE k \in BoolKeys
    <3>1. settings_map[k] = Settings!Val("int", 0)
      BY <1>3, <2>1, <2>2 DEF Settable, Legal, Settings!Declared, Settings!Bool, Settings!Val
    <3> QED
      BY <2>2, <3>1 DEF Settings!Bounds, Settings!Val
  <2>3. CASE k \notin BoolKeys
    <3>1. settings_map[k] \in Legal(k)
      BY <1>3, <2>1, <2>3 DEF Settable, Settings!Bool, Settings!Val
    <3>2. settings_map[k].num \in MinVal..MaxVal
      BY <2>3, <3>1 DEF Legal, Settings!Declared, Settings!Keys
    <3> QED
      BY <2>3, <3>2 DEF Settings!Bounds
  <2> QED
    BY <2>2, <2>3
<1>4. SettingsInv => Settings!InRange
  BY <1>3 DEF Settings!InRange
<1> QED
  BY <1>1, <1>2, <1>4, PTL DEF Settings!Spec

=============================================================================
