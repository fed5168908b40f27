----------------------------- MODULE ServerGate -----------------------------
(***************************************************************************)
(* The way into StampRallyServer: the HTTP routes (handle, handleCheckIn,  *)
(* handleClaimReward, handleSync), the validation of a request             *)
(* (security.ts) and the identity an operation acts for. What an admitted  *)
(* operation then does is in StampRallyServer and SyncBatch.  The checks   *)
(* of radiusMeters in a gps proof and of staffId are left out, so the      *)
(* model admits more.                                                      *)
(* A field of a body is NoField, Blank (no text, or not a string) or a      *)
(* value. Status 0 stands for no answer: the adapter's error is thrown on  *)
(* to the host.                                                            *)
(***************************************************************************)
EXTENDS Integers, Sequences, SequencesExt

CONSTANTS
  NoField, Blank,
  Sessions,       \* anonymous session ids: UUIDs of version 4
  Accounts,       \* user ids that authentication knows
  Policies,       \* "authenticate", or the anonymousPolicy without it
  MaxRequests     \* bound: the requests of a behavior

(* A session is a UUID, and no account has the id of the shared user.      *)
ASSUME IdentitiesAreNames ==
  {NoField, Blank, "anonymous"} \intersect (Sessions \union Accounts) = {}

VARIABLES
  policy,   \* how the server of this behavior identifies a caller
  acts,     \* the operations that ran: who called, by which way, for whom
  reply,    \* the last answer: [status, results]
  served    \* the requests so far

gateVars == <<policy, acts, reply, served>>

GateInit == policy \in Policies /\ acts = {} /\ reply = [status |-> 0, results |-> <<>>] /\ served = 0

NonEmpty(field) == field \notin {NoField, Blank}

(* A field that may be left out, but not be blank.                         *)
Optional(field) == field # Blank

(* contextErrors: degrees that are no finite number are out of range.      *)
ProofValid(proof) ==
  \/ proof.type \in {"qr", "passcode", "nfc"} /\ NonEmpty(proof.value)
  \/ proof.type = "custom" /\ proof.value # NoField
  \/ /\ proof.type = "gps"
     /\ proof.value[1] \in -90..90 /\ proof.value[2] \in -180..180

(* validateCheckInRequest, validateClaimRewardRequest                      *)
Valid(kind, body) ==
  /\ NonEmpty(body.rallyId) /\ NonEmpty(body.resource) /\ NonEmpty(body.idempotencyKey)
  /\ Optional(body.userId) /\ Optional(body.now)
  /\ kind = "checkIn" => ProofValid(body.proof)
  /\ kind = "claimReward" => Optional(body.staffPasscode)

(* validateSyncRequest: one operation that is not valid refuses them all.  *)
ValidSync(body) ==
  /\ NonEmpty(body.rallyId) /\ Optional(body.userId)
  /\ \A i \in DOMAIN body.operations : Valid(body.operations[i].kind, body.operations[i].request)

(* identityErrors                                                          *)
IdentityValid(userId, session) ==
  /\ Optional(userId) /\ session \in Sessions \union {NoField}
  /\ userId # NoField \/ session # NoField
  /\ userId = NoField \/ session = NoField \/ userId = session

(* directErrors                                                            *)
DirectValid(kind, body) ==
  /\ Valid(kind, body) /\ body.rallyId = "this" /\ body.resource = "known"
  /\ IdentityValid(body.userId, body.anonymousSessionId)

(* #user; the header X-Anonymous-Session-Id counts only without            *)
(* authentication. An account may be blank, but not the empty text.        *)
UserOf(caller) ==
  IF policy = "authenticate" THEN caller.account
  ELSE IF policy = "reject" THEN NoField
  ELSE IF caller.session # NoField
    THEN IF caller.session \in Sessions THEN caller.session ELSE NoField
  ELSE IF policy = "shared_global_opt_in_insecure" THEN "anonymous" ELSE NoField

MutantWithIdentity(body, user) == [body EXCEPT !.userId = IF @ = NoField THEN user ELSE @]

(* { ...request, userId }: the user found replaces the one a body names.   *)
WithIdentity(body, user) == [body EXCEPT !.userId = user]

(* The session of the header, when there is one, replaces the body's.      *)
WithSession(body, caller) ==
  [body EXCEPT !.anonymousSessionId = IF caller.session = NoField THEN @ ELSE caller.session]

(* withDirectIdentity of a call the host makes without authentication.     *)
OwnIdentity(body) ==
  [body EXCEPT !.userId =
     IF @ = NoField /\ body.anonymousSessionId \in Sessions THEN body.anonymousSessionId ELSE @]

Answer(status, results) == reply' = [status |-> status, results |-> results]

Runs(by, way, body) == [by |-> by, way |-> way, user |-> body.userId, policy |-> policy]

Refuse(status) == Answer(status, <<>>) /\ UNCHANGED acts

(* handleCheckIn, handleClaimReward: 404 is for an unknown resource, which *)
(* validation has refused by then; 422 for whatever else is not accepted.  *)
Operate(kind, caller, body) ==
  LET user == UserOf(caller)
      direct == WithSession(WithIdentity(body, user), caller)
  IN IF ~Valid(kind, body) \/ body.rallyId # "this" THEN Refuse(400)
     ELSE IF user = NoField THEN Refuse(401)
     ELSE IF ~DirectValid(kind, direct) THEN Refuse(400)
     ELSE /\ acts' = acts \union {Runs(user, "route", direct)}
          /\ \E status \in {0, 200, 422} : Answer(status, <<>>)

(* syncProgress's loop: an operation that validation refuses throws, and   *)
(* is "FAILED_RETRYABLE"; the others run.                                  *)
Admitted(operation, user) ==
  DirectValid(operation.kind, WithIdentity(operation.request, user))

(* handleSync: the user and the header's session have to be one, and a     *)
(* blank user is none (withDirectIdentity, assertValidSyncParams).         *)
Synchronize(caller, body) ==
  LET user == UserOf(caller)
      operations == body.operations
      run == {i \in DOMAIN operations : Admitted(operations[i], user)}
  IN IF ~ValidSync(body) \/ body.rallyId # "this" THEN Refuse(400)
     ELSE IF user = NoField THEN Refuse(401)
     ELSE IF ~NonEmpty(user) \/ ~IdentityValid(user, caller.session) THEN Refuse(400)
     ELSE /\ acts' = acts \union
                {Runs(user, "batch", WithIdentity(operations[i].request, user)) : i \in run}
          /\ Answer(200, [i \in DOMAIN operations |->
                            IF i \in run THEN "ran" ELSE "FAILED_RETRYABLE"])

Serve == served < MaxRequests /\ served' = served + 1 /\ UNCHANGED policy

(* handle                                                                  *)
WrongMethod == Serve /\ Refuse(405)

UnknownRoute == Serve /\ Refuse(404)

(* Who calls: an account counts where the server authenticates.            *)
HttpCallers ==
  [account : IF policy = "authenticate" THEN {NoField, Blank} \union Accounts ELSE {NoField},
   session : {NoField, Blank} \union Sessions]

(* A claim of nobody in particular, then whatever it lacks or says amiss,  *)
(* and whichever user and session it names.                                *)
CompleteBody ==
  [rallyId |-> "this", resource |-> "known", idempotencyKey |-> "key", userId |-> NoField,
   anonymousSessionId |-> NoField, now |-> NoField, staffPasscode |-> NoField,
   proof |-> [type |-> "gps", value |-> <<90, -180>>]]

Bodies ==
  LET odd == {CompleteBody, [CompleteBody EXCEPT !.rallyId = "other"], [CompleteBody EXCEPT !.resource = "unknown"],
              [CompleteBody EXCEPT !.idempotencyKey = Blank], [CompleteBody EXCEPT !.staffPasscode = Blank],
              [CompleteBody EXCEPT !.proof = [type |-> "qr", value |-> Blank]],
              [CompleteBody EXCEPT !.proof = [type |-> "gps", value |-> <<0, 181>>]]}
      names == [userId : {NoField, Blank} \union Accounts,
                anonymousSessionId : {NoField} \union Sessions]
  IN UNION {{[body EXCEPT !.userId = name.userId, !.anonymousSessionId = name.anonymousSessionId] :
               name \in names} : body \in odd}

PostOperation ==
  /\ Serve
  /\ \E kind \in {"checkIn", "claimReward"}, caller \in HttpCallers :
       \E body \in Bodies : Operate(kind, caller, body)

(* What a device queued: claims of whoever used it then, or of nobody.     *)
Queued ==
  {[kind |-> "claimReward", request |-> body] :
     body \in {body \in Bodies : body.rallyId = "this" /\ body.proof = CompleteBody.proof
                                /\ NonEmpty(body.idempotencyKey) /\ Optional(body.staffPasscode)}}

PostSync ==
  /\ Serve
  /\ \E caller \in HttpCallers, operations \in SeqOf(Queued, 2), rally \in {"this", "other"} :
       Synchronize(caller, [rallyId |-> rally, userId |-> NoField, operations |-> operations])

(* checkIn or claimReward called by the host's own code, which vouches for *)
(* the user it names: a call that is not valid throws and does nothing.    *)
HostCalls ==
  /\ Serve /\ UNCHANGED reply
  /\ \E kind \in {"checkIn", "claimReward"} : \E body \in Bodies :
       LET direct == OwnIdentity(body) IN
       acts' = IF DirectValid(kind, direct) THEN acts \union {Runs("host", "call", direct)} ELSE acts

GateNext == WrongMethod \/ UnknownRoute \/ PostOperation \/ PostSync \/ HostCalls

-----------------------------------------------------------------------------

(* An operation acts for the caller that authentication or the anonymous   *)
(* policy identified, on the direct routes and inside a batch alike,       *)
(* whatever user or session the body carries; nobody acts for a blank      *)
(* user, nor for the shared "anonymous" one unless the host opted in.      *)
(* The host's own calls name a user or a session of their own.             *)
ActsForCaller ==
  \A act \in acts :
    /\ NonEmpty(act.user)
    /\ act.by # "host" => act.user = act.by
    /\ act.user = "anonymous" => act.policy = "shared_global_opt_in_insecure"
    /\ act.by # "host" /\ act.policy = "authenticate" => act.user \in Accounts
=============================================================================
