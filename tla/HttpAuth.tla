------------------------------ MODULE HttpAuth ------------------------------
(***************************************************************************)
(* Sign-in of the HTTP API: check_auth() and /api/auth of                  *)
(* components/modesp_net/src/http_service.cpp.                             *)
(*                                                                         *)
(* One task serves every request, so that the handlers run one after the   *)
(* other; the failure counter and the credentials are theirs alone.  A     *)
(* change of credentials is three separate writes to flash, between which  *)
(* the power may go.                                                       *)
(*                                                                         *)
(* A text is a sequence of characters, of which only ":" is special: the   *)
(* header is user, ":", password, and is taken apart at its first ":".     *)
(* Headers that hold no pair at all (missing, too long, not Basic, not     *)
(* Base64) are answered 401 and counted by nothing: they are left out.     *)
(***************************************************************************)
EXTENDS Integers, Sequences, FiniteSets, SequencesExt

CONSTANTS
  UserTexts, PassTexts,        \* what clients send
  FactoryUser, FactoryPass,
  MIN_PASS, MAX_PASS, MAX_USER,
  AUTH_MAX_FAILURES, AUTH_LOCKOUT,
  TICKS,                       \* the tick counter is counted modulo TICKS
  MaxWrong,                    \* bound on the wrong pairs sent in all
  Faults                       \* subset of {"power_loss", "nvs_error"}

NoText == <<"absent">>   \* a field the request does not have

HttpAuthAssumption ==
  /\ UserTexts \cup PassTexts \subseteq Seq(STRING) /\ NoText \notin UserTexts \cup PassTexts
  /\ FactoryUser \in UserTexts /\ FactoryPass \in PassTexts /\ ~Contains(FactoryUser, ":")
  /\ MIN_PASS \in Nat /\ MAX_PASS \in Nat /\ MAX_USER \in Nat
  /\ AUTH_MAX_FAILURES \in Nat \ {0} /\ AUTH_LOCKOUT \in Nat \ {0} /\ TICKS \in Nat \ {0}
  /\ MaxWrong \in Nat /\ Faults \subseteq {"power_loss", "nvs_error"}

VARIABLES
  cred,        \* user, pass and enabled in memory
  flash,       \* the same three in flash
  unsaved,     \* which of them are still to be written, in their order
  fail_count, lockout_until, now,
  owner,       \* the pair the last accepted change asked for
  answer,      \* what the last request was answered
  recent,      \* ages of the wrong pairs of the last AUTH_LOCKOUT ticks, by their number
  wrong        \* wrong pairs in all

vars == <<cred, flash, unsaved, fail_count, lockout_until, now, owner, answer, recent, wrong>>

Fields  == <<"user", "pass", "enabled">>
Factory == [user |-> FactoryUser, pass |-> FactoryPass, enabled |-> TRUE]
Pair    == [user : UserTexts, pass : PassTexts]
PairOf(c) == [user |-> c.user, pass |-> c.pass]
NoneWrong == [i \in {} |-> 0]

TypeOK ==
  /\ cred \in [user : UserTexts, pass : PassTexts, enabled : BOOLEAN]
  /\ flash \in [user : UserTexts, pass : PassTexts, enabled : BOOLEAN]
  /\ unsaved \in {<<>>, <<"enabled">>, <<"pass", "enabled">>, Fields}
  /\ fail_count \in 0..AUTH_MAX_FAILURES
  /\ lockout_until \in 0..TICKS-1 /\ now \in 0..TICKS-1
  /\ owner \in Pair
  /\ answer \in {"none", "ok", "400", "401", "403", "429"}
  /\ wrong \in 0..MaxWrong

Init ==
  /\ cred = Factory /\ flash = Factory /\ unsaved = <<>>
  /\ fail_count = 0 /\ lockout_until = 0 /\ now = 0
  /\ owner = PairOf(Factory) /\ answer = "none" /\ recent = NoneWrong /\ wrong = 0

-----------------------------------------------------------------------------
(* check_auth() *)

Header(p) == p.user \o <<":">> \o p.pass
ColonAt(h) == SelectInSeq(h, LAMBDA ch : ch = ":")
Matches(p) ==
  /\ SubSeq(Header(p), 1, ColonAt(Header(p)) - 1) = cred.user
  /\ SubSeq(Header(p), ColonAt(Header(p)) + 1, Len(Header(p))) = cred.pass

LockedOut ==
  fail_count >= AUTH_MAX_FAILURES /\ (now - lockout_until) % TICKS < AUTH_LOCKOUT
Count == IF fail_count >= AUTH_MAX_FAILURES THEN 0 ELSE fail_count

Granted(p) == \/ ~cred.enabled /\ UNCHANGED <<fail_count, recent>>
              \/ cred.enabled /\ ~LockedOut /\ Matches(p) /\ fail_count' = 0 /\ recent' = NoneWrong

(* While locked out nothing is compared and nothing is counted. *)
Throttled == /\ cred.enabled /\ LockedOut /\ answer' = "429"
             /\ UNCHANGED <<fail_count, lockout_until, recent, wrong>>

Mismatch(p) ==
  /\ cred.enabled /\ ~LockedOut /\ ~Matches(p) /\ wrong < MaxWrong
  /\ fail_count' = Count + 1
  /\ lockout_until' = IF Count + 1 >= AUTH_MAX_FAILURES THEN now ELSE lockout_until
  /\ answer' = "401" /\ wrong' = wrong + 1
  /\ recent' = [i \in DOMAIN recent \cup {wrong'} |-> IF i = wrong' THEN 0 ELSE recent[i]]

Refused(p) == Throttled \/ Mismatch(p)

-----------------------------------------------------------------------------
(* handle_post_auth() *)

(* current: is the current password given with the request, and right?     *)
Requests == [reset : {TRUE}, current : BOOLEAN] \cup
            [reset : {FALSE}, current : BOOLEAN, new : PassTexts \cup {NoText},
             name : UserTexts \cup {NoText}, enabled : {"keep", "on", "off"}]

WrongPassword(r) == (r.reset \/ r.new # NoText) /\ ~r.current
BadPassword(r)   == r.new # NoText /\ Len(r.new) \notin MIN_PASS..MAX_PASS
BadName(r)       == r.name # NoText /\ (Len(r.name) \notin 1..MAX_USER \/ Contains(r.name, ":"))

(* The first check that fails; nothing has been changed by then. *)
Verdict(r) == IF WrongPassword(r) THEN "403"
              ELSE IF ~r.reset /\ (BadPassword(r) \/ BadName(r)) THEN "400" ELSE "ok"

Asked(r) == IF r.reset THEN Factory
            ELSE [user    |-> IF r.name # NoText THEN r.name ELSE cred.user,
                  pass    |-> IF r.new # NoText THEN r.new ELSE cred.pass,
                  enabled |-> IF r.enabled = "keep" THEN cred.enabled ELSE r.enabled = "on"]

ChangeUnsaved(r) ==
  /\ Verdict(r) = "ok"
  /\ cred' = Asked(r) /\ owner' = PairOf(Asked(r))
  /\ unsaved' = IF r.reset THEN <<>> ELSE Fields
Change(r) ==
  /\ Verdict(r) = "ok"
  /\ cred' = Asked(r) /\ owner' = PairOf(Asked(r))
  /\ unsaved' = Fields

PostAuth(p, r) ==
  /\ unsaved = <<>>
  /\ Granted(p)
  /\ answer' = Verdict(r)
  /\ \/ Change(r)
     \/ Verdict(r) # "ok" /\ UNCHANGED <<cred, owner, unsaved>>
  /\ UNCHANGED <<flash, lockout_until, now, wrong>>

(* The failed write of one field is only logged; the next one is tried. *)
Written(ok) == IF ok THEN [flash EXCEPT ![Head(unsaved)] = cred[Head(unsaved)]] ELSE flash
SaveAuth(ok) ==
  /\ unsaved # <<>>
  /\ flash' = Written(ok) /\ unsaved' = Tail(unsaved)
  /\ UNCHANGED <<cred, fail_count, lockout_until, now, owner, answer, recent, wrong>>

-----------------------------------------------------------------------------
(* Any other request, the clock and the power *)

SignIn(p) ==
  /\ unsaved = <<>>
  /\ Granted(p) /\ answer' = "ok"
  /\ UNCHANGED <<cred, flash, unsaved, lockout_until, now, owner, wrong>>

Rejected(p) ==
  /\ unsaved = <<>>
  /\ Refused(p)
  /\ UNCHANGED <<cred, flash, unsaved, now, owner>>

Tick ==
  /\ now' = (now + 1) % TICKS
  /\ recent' = [i \in {j \in DOMAIN recent : recent[j] + 1 < AUTH_LOCKOUT} |-> recent[i] + 1]
  /\ answer' = "none"
  /\ UNCHANGED <<cred, flash, unsaved, fail_count, lockout_until, owner, wrong>>

(* load_auth_from_nvs() at the next start.  The owner of a change that was *)
(* cut short can only know what the device now has.                        *)
PowerLoss ==
  /\ "power_loss" \in Faults
  /\ cred' = flash
  /\ unsaved' = <<>> /\ fail_count' = 0 /\ lockout_until' = 0 /\ now' = 0
  /\ answer' = "none" /\ recent' = NoneWrong
  /\ owner' = IF unsaved # <<>> \/ "nvs_error" \in Faults THEN PairOf(flash) ELSE owner
  /\ UNCHANGED <<flash, wrong>>

Next ==
  \/ \E p \in Pair : SignIn(p) \/ Rejected(p) \/ \E r \in Requests : PostAuth(p, r)
  \/ SaveAuth(TRUE)
  \/ "nvs_error" \in Faults /\ SaveAuth(FALSE)
  \/ Tick
  \/ PowerLoss

Spec == Init /\ [][Next]_vars

(* The handlers end, time passes, and the owner keeps trying. *)
Fairness == WF_vars(SaveAuth(TRUE)) /\ WF_vars(Tick)
            /\ SF_vars(SignIn(owner)) /\ WF_vars(Rejected(owner))
LiveSpec == Spec /\ Fairness

-----------------------------------------------------------------------------
(* Whoever sends what the last accepted change asked for is let in, and so *)
(* is the owner after a restart: a name check_auth() could not match, or a *)
(* password cut to the buffer, would shut the owner out.                   *)
OwnerMatches == unsaved = <<>> => Matches(owner)

(* What is in force is what a restart would load, unless flash failed.     *)
InForceIsStored ==
  unsaved = <<>> /\ "nvs_error" \notin Faults => cred = flash

(* No AUTH_LOCKOUT ticks see more than AUTH_MAX_FAILURES pairs compared    *)
(* and found wrong without a sign-in between them, however they are spread *)
(* over the windows and wherever the tick counter wraps.                   *)
RateLimited == Cardinality(DOMAIN recent) <= AUTH_MAX_FAILURES

(* A refused request leaves the stored credentials, and those in force, as *)
(* they were (comment of handle_post_auth()).                              *)
RefusedChangesNothing ==
  [][answer' \in {"400", "401", "403", "429"} => UNCHANGED <<cred, flash, unsaved>>]_vars

(* "30 s of blocking": a request is throttled only within AUTH_LOCKOUT of  *)
(* a wrong pair.                                                           *)
\* Broken by the code: a lockout nobody probed while it lasted comes back
\* when the tick counter has wrapped.
LockoutPasses == answer = "429" => recent # NoneWrong

(* When the wrong pairs stop, a lockout ends and the owner gets in, also   *)
(* if it kept trying all along: blocked tries do not renew the lockout.    *)
OwnerGetsIn == []<>(answer = "ok")

=============================================================================
