------------------------------ MODULE SecondFactor ------------------------------
(***************************************************************************)
(* The second factor of one user: a TOTP secret, whether it is on, the     *)
(* last time step that was accepted, and the recovery codes.  Handlers     *)
(* read these first and write them in several statements; the panel can be *)
(* restarted in between.  All statements are by user or by row, so one     *)
(* user stands for each of them.                                           *)
(*                                                                         *)
(* A secret is the number of the setup that made it (0: none); the code of *)
(* a device is the time step it belongs to, in the secret of that moment.  *)
(* Codes that the server refuses change nothing and are left out.          *)
(***************************************************************************)
EXTENDS Naturals, FiniteSets

CONSTANTS
  Callers,       \* API goroutines
  Slots,         \* the recovery codes of one batch: 10 in the code
  MaxTime,       \* bound: the last 30-second step of the clock
  MaxRequests,   \* bound: requests in all
  MaxReboots     \* bound: restarts of the panel

ASSUME SecondFactorAssumption ==
  /\ IsFiniteSet(Slots) /\ Slots # {}
  /\ MaxTime \in Nat \ {0, 1} /\ MaxRequests \in Nat /\ MaxReboots \in Nat

VARIABLES
  secret, enabled, lastStep,   \* users.mfa_*
  codes,         \* mfa_recovery_codes: rows [batch, slot, used]
  at, job,       \* the handlers
  made, batches, \* secrets and batches of codes generated
  now,
  requests, reboots,
  proven,        \* history: the secret a code was last verified of
  torn,          \* history: secrets whose verification died before the codes
  uses,          \* history: calls let in by each step of that secret
  spent,         \* history: how often each recovery code was accepted
  overlapped,    \* history: two calls worked with steps at once
  crossed,       \* history: a verification ran alongside a setup or a disabling
  contested      \* history: recovery codes two calls had found at once

row == <<secret, enabled, lastStep>>
clock == <<now, reboots>>
history == <<proven, torn, uses, spent, overlapped, crossed, contested>>
secondFactorVars == <<secret, enabled, lastStep, codes, at, job, made, batches, now,
                      requests, reboots, proven, torn, uses, spent, overlapped, crossed,
                      contested>>

Times == 0 .. MaxTime + 1
Codes == [batch : 1 .. MaxRequests, slot : Slots]
Code(r) == [batch |-> r.batch, slot |-> r.slot]
NoCode == [batch |-> 0, slot |-> CHOOSE s \in Slots : TRUE]
NoJob == [secret |-> 0, step |-> 0, code |-> NoCode]

Init ==
  /\ secret = 0 /\ enabled = FALSE /\ lastStep = 0 /\ codes = {}
  /\ at = [c \in Callers |-> "idle"] /\ job = [c \in Callers |-> NoJob]
  /\ made = 0 /\ batches = 0 /\ now = 2
  /\ requests = 0 /\ reboots = 0
  /\ proven = 0 /\ torn = {} /\ contested = {}
  /\ uses = [s \in Times |-> 0]
  /\ spent = [k \in Codes |-> 0]
  /\ overlapped = FALSE /\ crossed = FALSE

-----------------------------------------------------------------------------
(* Codes.                                                                  *)

\* VerifyTOTP: the step before, this one, the next.
Shown == {s \in Times : s + 1 >= now /\ s <= now + 1}

\* A login that takes the last step again.
NewStepLoosely(s) == s >= lastStep

NewStep(s) == s > lastStep

\* ConsumeRecoveryCode finds a row that is not used.
Unused(r) == r \in codes /\ ~r.used

-----------------------------------------------------------------------------
(* Requests: what is read, and looked at, first.                           *)

Verifying == {"prove", "enable", "issue"}
Working(c, steps) == \E o \in Callers \ {c} : at[o] \in steps

Begin(c, step, j) ==
  /\ at[c] = "idle" /\ requests < MaxRequests /\ requests' = requests + 1
  /\ at' = [at EXCEPT ![c] = step]
  /\ job' = [job EXCEPT ![c] = j]
  /\ overlapped' = (overlapped \/ (step \in {"prove", "keep"}
                                     /\ Working(c, Verifying \cup {"keep"})))
  /\ crossed' = (crossed \/ (step \in {"generate", "redeem", "disable"}
                               /\ Working(c, Verifying))
                         \/ (step = "prove"
                               /\ Working(c, {"generate", "redeem", "disable"})))
  /\ contested' = IF \E o \in Callers \ {c} : job[o].code = j.code /\ j.code # NoCode
                    THEN contested \cup {j.code} ELSE contested
  /\ UNCHANGED <<row, codes, made, batches, clock, proven, torn, uses, spent>>

\* A setup that does not look whether the second factor is on.
AskSetupAlways(c) == Begin(c, "generate", NoJob)

\* handleMFASetup
AskSetup(c) == ~enabled /\ Begin(c, "generate", NoJob)

\* handleMFAVerify, on or not.
AskVerify(c) ==
  /\ secret # 0
  /\ \E s \in Shown : Begin(c, "prove", [NoJob EXCEPT !.secret = secret, !.step = s])

\* handleLoginMFA and handleMFADisable: a step, or else a recovery code.
AskWithCode(c, withStep, withCode) ==
  /\ enabled
  /\ \/ /\ secret # 0
        /\ \E s \in Shown : NewStep(s) /\
             Begin(c, withStep, [NoJob EXCEPT !.secret = secret, !.step = s])
     \/ \E r \in codes : Unused(r) /\
          Begin(c, withCode, [NoJob EXCEPT !.code = Code(r)])

Ask(c) ==
  \/ AskSetup(c) \/ AskVerify(c)
  \/ AskWithCode(c, "keep", "spend")
  \/ AskWithCode(c, "disable", "redeem")

-----------------------------------------------------------------------------
(* Statements.                                                             *)

Goto(c, step) == at' = [at EXCEPT ![c] = step] /\ UNCHANGED <<job, requests, clock>>
Answers(c) ==
  /\ at' = [at EXCEPT ![c] = "idle"] /\ job' = [job EXCEPT ![c] = NoJob]
  /\ UNCHANGED <<requests, clock>>

SetMFASecret(c) ==
  /\ at[c] = "generate" /\ Answers(c)
  /\ secret' = made + 1 /\ made' = made + 1
  /\ UNCHANGED <<enabled, lastStep, codes, batches, history>>

\* handleMFAVerify: SetMFALastStep, EnableMFA, AddRecoveryCodes.
Prove(c) ==
  /\ at[c] = "prove" /\ Goto(c, "enable")
  /\ lastStep' = job[c].step
  /\ proven' = job[c].secret
  /\ uses' = [s \in Times |-> IF s = job[c].step THEN 1 ELSE 0]
  /\ UNCHANGED <<secret, enabled, codes, made, batches, torn, spent, overlapped, crossed,
                 contested>>

EnableMFA(c) ==
  /\ at[c] = "enable" /\ Goto(c, "issue")
  /\ enabled' = TRUE
  /\ UNCHANGED <<secret, lastStep, codes, made, batches, history>>

AddRecoveryCodes(c) ==
  /\ at[c] = "issue" /\ Answers(c)
  /\ batches' = batches + 1
  /\ codes' = [batch : {batches + 1}, slot : Slots, used : {FALSE}]
  /\ torn' = torn \ {job[c].secret}
  /\ UNCHANGED <<row, made, proven, uses, spent, overlapped, crossed, contested>>

\* handleLoginMFA: SetMFALastStep and the session.
KeepStep(c) ==
  /\ at[c] = "keep" /\ Answers(c)
  /\ lastStep' = job[c].step
  /\ uses' = [s \in Times |-> IF s = job[c].step /\ job[c].secret = proven
                                THEN uses[s] + 1 ELSE uses[s]]
  /\ UNCHANGED <<secret, enabled, codes, made, batches, proven, torn, spent, overlapped,
                 crossed, contested>>

\* A code that stays unused.
SpentCodesKept(code) == codes

\* The rows once a code is used; it may have gone since it was found.
SpentCodes(code) ==
  {[r EXCEPT !.used = r.used \/ Code(r) = code] : r \in codes}

\* ConsumeRecoveryCode marks the row it found.
Spend(c) ==
  LET code == job[c].code IN
  /\ \/ at[c] = "spend" /\ Answers(c)
     \/ at[c] = "redeem" /\ Goto(c, "disable")
  /\ codes' = SpentCodes(code)
  /\ spent' = [spent EXCEPT ![code] = spent[code] + 1]
  /\ UNCHANGED <<row, made, batches, proven, torn, uses, overlapped, crossed, contested>>

TurnOff == secret' = 0 /\ enabled' = FALSE /\ lastStep' = 0 /\ codes' = {}

DisableMFA(c) ==
  /\ at[c] = "disable" /\ Answers(c) /\ TurnOff
  /\ UNCHANGED <<made, batches, history>>

\* handleAdminMFAReset, whether it is on or not.
AdminMFAReset ==
  /\ requests < MaxRequests /\ requests' = requests + 1
  /\ TurnOff
  /\ crossed' = (crossed \/ \E c \in Callers : at[c] \in Verifying)
  /\ UNCHANGED <<at, job, made, batches, clock, proven, torn, uses, spent, overlapped, contested>>

CallerStep(c) ==
  \/ SetMFASecret(c)
  \/ Prove(c) \/ EnableMFA(c) \/ AddRecoveryCodes(c)
  \/ KeepStep(c) \/ Spend(c) \/ DisableMFA(c)

Tick ==
  /\ now < MaxTime /\ now' = now + 1
  /\ UNCHANGED <<row, codes, at, job, made, batches, requests, reboots, history>>

Reboot ==
  /\ reboots < MaxReboots /\ reboots' = reboots + 1
  /\ at' = [c \in Callers |-> "idle"] /\ job' = [c \in Callers |-> NoJob]
  /\ torn' = torn \cup {job[c].secret : c \in {d \in Callers : at[d] = "issue"}}
  /\ UNCHANGED <<row, codes, made, batches, now, requests, proven, uses, spent, overlapped,
                 crossed, contested>>

Next ==
  \/ \E c \in Callers : Ask(c) \/ CallerStep(c)
  \/ AdminMFAReset \/ Tick \/ Reboot

Spec == Init /\ [][Next]_secondFactorVars

-----------------------------------------------------------------------------
(* Properties.                                                             *)

Rows == [batch : 1 .. batches, slot : Slots, used : BOOLEAN]

\* Every variable stays in its type; the rows are of one batch, one for each of
\* its codes, and a code that was accepted is not left unused.
TypeOK ==
  /\ secret \in 0 .. made /\ enabled \in BOOLEAN /\ lastStep \in Times
  /\ codes \subseteq Rows
  /\ \A r, s \in codes : r.batch = s.batch /\ (r.slot = s.slot => r = s)
  /\ \A r \in codes : spent[Code(r)] > 0 => r.used
  /\ at \in [Callers -> {"idle", "generate", "prove", "enable", "issue", "keep",
                         "spend", "redeem", "disable"}]
  /\ \A c \in Callers : job[c].secret \in 0 .. made /\ job[c].step \in Times
  /\ proven \in 0 .. made /\ now \in 2 .. MaxTime
  /\ made <= requests /\ batches <= requests
  /\ requests \in 0 .. MaxRequests /\ reboots \in 0 .. MaxReboots

\* A second factor that is on is one the user has shown to hold: the stored secret
\* is the one of which a code was verified, whatever setups and disablings came
\* before and wherever the panel died.  The recovery codes are there too once the
\* verification is through and unless it died before them.  (A verification that
\* runs alongside a setup or a disabling turns on what is there by then.)
EnabledIsProven ==
  enabled /\ ~crossed =>
    /\ secret # 0 /\ secret = proven
    /\ \/ {r.slot : r \in codes} = Slots
       \/ secret \in torn
       \/ \E c \in Callers : at[c] = "issue"

\* Since the verification, whose own code counts, a time step of its secret lets one
\* call in at most, also when a restart comes before the answer.  (Calls that overlap read the
\* last step before either has written it.)
StepOnce == ~overlapped => \A s \in Times : uses[s] <= 1

\* A recovery code is accepted once at most, whatever else goes on: other logins,
\* a new batch, a disabling or a restart between the look at the row and its
\* marking.  (Two calls can find the same code at once.)
RecoveryOnce ==
  \A k \in Codes \ contested : spent[k] <= 1

===============================================================================
