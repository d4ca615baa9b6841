----------------------------- MODULE Household -----------------------------
(***************************************************************************)
(* How a machine becomes a device of a household: the commands `micasa pro *)
(* invite`, `join` and `devices revoke` (cmd/micasa/pro.go) against the    *)
(* relay's invites, key exchanges and devices (internal/relay).            *)
(*                                                                         *)
(* A machine runs one command at a time.  Each request that needs a token  *)
(* is authenticated in one transaction and handled in a later one; each    *)
(* secret a join saves is a file of its own.  One identity stands for an   *)
(* attempt to join: its exchange, its key pair, and the device ID and      *)
(* token it is given.  There is one household, the founder's, on which     *)
(* `pro init` has succeeded.                                               *)
(***************************************************************************)
EXTENDS Naturals, FiniteSets

CONSTANTS
    Machines,           \* computers, each with a database and a secrets directory
    Founder,            \* the machine that ran `pro init`
    maxInviteAttempts,  \* 5 in the code
    maxActiveInvites,   \* 3 in the code
    KeepsRefusal,       \* TRUE: MemStore; FALSE: PgStore, which rolls back
    MaxInvites,         \* BOUND: invite codes in a behaviour
    MaxExchanges,       \* BOUND: attempts to join in a behaviour
    MaxFaults,          \* BOUND: interruptions, lost answers, suspended machines
    None                \* no value: an empty column, a missing file, no command

Codes     == 1..MaxInvites
First     == 0                      \* the identity of the founder
Exchanges == 1..MaxExchanges
Ids       == {First} \cup Exchanges

Invite   == [by : Ids, attempts : Nat, consumed : BOOLEAN, expired : BOOLEAN]
Exchange == [code : Codes, completed : BOOLEAN, expired : BOOLEAN,
             box : Ids \cup {None}]  \* the encrypted household key, as its sealer
Secrets  == [pair : Ids \cup {None}, key : BOOLEAN, token : Ids \cup {None}]

\* The steps of `pro invite`, of `pro devices revoke`, and of `pro join`.
Steps   == {"invite", "poll", "seal", "complete", "revoke",
            "wait", "open", "pair", "key", "token", "account"}
Command == [at : Steps, to : Ids \cup {None}, from : Ids \cup {None},
            box : Ids \cup {None}]

ASSUME HouseholdAssumption ==
    /\ Founder \in Machines
    /\ maxInviteAttempts \in Nat
    /\ maxActiveInvites \in Nat
    /\ KeepsRefusal \in BOOLEAN
    /\ MaxInvites \in Nat
    /\ MaxExchanges \in Nat
    /\ MaxFaults \in Nat
    /\ None \notin Ids \cup Invite \cup Exchange \cup Command

VARIABLES
    invites,    \* the relay's invites by code
    exchanges,  \* the relay's key exchanges
    revoked,    \* the relay's devices with revoked set
    secrets,    \* secrets[m]: the files in the secrets directory of m
    account,    \* account[m]: SyncDevice.id once household_id is set, else None
    cli,        \* cli[m]: the `pro` command running on m
    faults      \* interruptions so far

relay == <<invites, exchanges, revoked>>
vars  == <<relay, secrets, account, cli, faults>>

TypeOK ==
    /\ invites \in [Codes -> Invite \cup {None}]
    /\ exchanges \in [Exchanges -> Exchange \cup {None}]
    /\ revoked \in SUBSET Ids
    /\ secrets \in [Machines -> Secrets]
    /\ account \in [Machines -> Ids \cup {None}]
    /\ cli \in [Machines -> Command \cup {None}]
    /\ faults \in Nat

Init ==
    /\ invites = [c \in Codes |-> None]
    /\ exchanges = [e \in Exchanges |-> None]
    /\ revoked = {}
    /\ secrets = [m \in Machines |->
            IF m = Founder THEN [pair |-> First, key |-> TRUE, token |-> First]
                           ELSE [pair |-> None, key |-> FALSE, token |-> None]]
    /\ account = [m \in Machines |-> IF m = Founder THEN First ELSE None]
    /\ cli = [m \in Machines |-> None]
    /\ faults = 0

Completed(e) == exchanges[e] # None /\ exchanges[e].completed

\* Devices of the relay: the founder's and those of completed exchanges.
Registered == {First} \cup {e \in Exchanges : Completed(e)}

\* AuthenticateDevice on the token m has saved.
Authenticated(m) == secrets[m].token \in Registered \ revoked

At(m, step) == cli[m] # None /\ cli[m].at = step
Goes(m, step) == cli' = [cli EXCEPT ![m].at = step]
Ends(m) == cli' = [cli EXCEPT ![m] = None]

Starts(m, step, to, from) ==
    /\ cli[m] = None
    /\ cli' = [cli EXCEPT ![m] = [at |-> step, to |-> to, from |-> from, box |-> None]]

\* A member's command passes requireAuth; its handler is still to run.
StartsAuthenticated(m, step, to) ==
    /\ account[m] # None
    /\ Authenticated(m)
    /\ Starts(m, step, to, None)
    /\ UNCHANGED <<relay, secrets, account, faults>>

-----------------------------------------------------------------------------
(***************************************************************************)
(* `pro invite`: create a code, poll for a pending exchange, take the      *)
(* first one, seal the household key for it.                               *)
(***************************************************************************)
Usable(c) == invites[c] # None /\ ~invites[c].consumed /\ ~invites[c].expired

ActiveInvites == {c \in Codes : Usable(c)}

\* Codes and exchanges are numbered in the order they are made.
Fresh(table, i) == table[i] = None /\ \A j \in 1..(i - 1) : table[j] # None

StartInvite(m) == StartsAuthenticated(m, "invite", None)

\* MUTANT: one active invite more than the limit.
RoomForOneMore == Cardinality(ActiveInvites) <= maxActiveInvites
InviteRoom == Cardinality(ActiveInvites) < maxActiveInvites

CreateInvite(m, c) ==
    /\ At(m, "invite")
    /\ InviteRoom
    /\ Fresh(invites, c)
    /\ invites' = [invites EXCEPT ![c] =
            [by |-> secrets[m].token, attempts |-> 0, consumed |-> FALSE, expired |-> FALSE]]
    /\ Goes(m, "poll")
    /\ UNCHANGED <<exchanges, revoked, secrets, account, faults>>

CreateInviteFails(m) ==
    /\ At(m, "invite")
    /\ ~InviteRoom
    /\ Ends(m)
    /\ UNCHANGED <<relay, secrets, account, faults>>

\* GetPendingExchanges, of the whole household, in no order.
Pending == {e \in Exchanges : /\ exchanges[e] # None
                              /\ ~exchanges[e].completed /\ ~exchanges[e].expired}

FindJoiner(m) ==
    /\ At(m, "poll")
    /\ Authenticated(m)
    /\ \E e \in Pending : cli' = [cli EXCEPT ![m].at = "seal", ![m].to = e]
    /\ UNCHANGED <<relay, secrets, account, faults>>

SealKey(m) ==
    /\ At(m, "seal")
    /\ Authenticated(m)
    /\ Goes(m, "complete")
    /\ UNCHANGED <<relay, secrets, account, faults>>

\* requireAuth answers 401 to a poll or a completion.
Unauthorized(m) ==
    /\ At(m, "poll") \/ At(m, "seal")
    /\ ~Authenticated(m)
    /\ Ends(m)
    /\ UNCHANGED <<relay, secrets, account, faults>>

\* MUTANT: an exchange may be completed again.
AlwaysOpen(e) == TRUE
Open(e) == ~exchanges[e].completed

CompleteKeyExchange(m) ==
    /\ At(m, "complete")
    /\ LET e == cli[m].to IN
        /\ Open(e)
        /\ exchanges' = [exchanges EXCEPT ![e].completed = TRUE, ![e].box = secrets[m].pair]
        /\ invites' = [invites EXCEPT ![exchanges[e].code].consumed = TRUE]
    /\ Ends(m)
    /\ UNCHANGED <<revoked, secrets, account, faults>>

CompleteKeyExchangeFails(m) ==
    /\ At(m, "complete")
    /\ ~Open(cli[m].to)
    /\ Ends(m)
    /\ UNCHANGED <<relay, secrets, account, faults>>

-----------------------------------------------------------------------------
(***************************************************************************)
(* `pro devices revoke`: any other device, of one's own household.         *)
(***************************************************************************)
StartRevoke(m, d) ==
    /\ d # account[m]
    /\ d # secrets[m].token
    /\ d \in Registered \ revoked
    /\ StartsAuthenticated(m, "revoke", d)

RevokeDevice(m) ==
    /\ At(m, "revoke")
    /\ revoked' = revoked \cup {cli[m].to}
    /\ Ends(m)
    /\ UNCHANGED <<invites, exchanges, secrets, account, faults>>

-----------------------------------------------------------------------------
(***************************************************************************)
(* `pro join`: ask with a code, poll for the answer, open it with the      *)
(* inviter's public key, save the secrets, then the sync device.           *)
(***************************************************************************)
\* MUTANT: a machine in a household joins another.
AnyMachine(m) == TRUE
NotJoined(m) == account[m] = None

Spent(c) == invites[c].attempts >= maxInviteAttempts

StartJoin(m, c, e) ==
    /\ NotJoined(m)
    /\ Usable(c)
    /\ ~Spent(c)
    /\ Fresh(exchanges, e)
    /\ exchanges' = [exchanges EXCEPT ![e] =
            [code |-> c, completed |-> FALSE, expired |-> FALSE, box |-> None]]
    /\ invites' = [invites EXCEPT ![c].attempts = @ + 1]
    /\ Starts(m, "wait", e, invites[c].by)
    /\ UNCHANGED <<revoked, secrets, account, faults>>

\* A spent code is refused; MemStore keeps the mark, PgStore rolls it back.
RefuseSpent(m, c) ==
    /\ NotJoined(m)
    /\ cli[m] = None
    /\ Usable(c)
    /\ Spent(c)
    /\ invites' = IF KeepsRefusal THEN [invites EXCEPT ![c].consumed = TRUE] ELSE invites
    /\ UNCHANGED <<exchanges, revoked, secrets, account, cli, faults>>

Answer(e) == exchanges[e].completed /\ ~exchanges[e].expired /\ exchanges[e].box # None

\* MUTANT: a claimed box can be claimed again.
KeptForRetry(e) == exchanges
Cleared(e) == [exchanges EXCEPT ![e].box = None]

\* GetKeyExchangeResult hands out the credentials and clears them.
GetKeyExchangeResult(m) ==
    /\ At(m, "wait")
    /\ LET e == cli[m].to IN
        /\ Answer(e)
        /\ exchanges' = Cleared(e)
        /\ cli' = [cli EXCEPT ![m].at = "open", ![m].box = exchanges[e].box]
    /\ UNCHANGED <<invites, revoked, secrets, account, faults>>

\* The exchange has expired or its credentials are gone: the command fails.
ResultGone(m) ==
    /\ At(m, "wait")
    /\ LET e == cli[m].to IN
        exchanges[e].expired \/ (exchanges[e].completed /\ exchanges[e].box = None)
    /\ Ends(m)
    /\ UNCHANGED <<relay, secrets, account, faults>>

OpenBox(m) ==
    /\ At(m, "open")
    /\ IF cli[m].box = cli[m].from THEN Goes(m, "pair") ELSE Ends(m)
    /\ UNCHANGED <<relay, secrets, account, faults>>

Saves(m, step, next) ==
    /\ At(m, step)
    /\ Goes(m, next)
    /\ UNCHANGED <<relay, account, faults>>

SaveDeviceKeyPair(m) ==
    /\ Saves(m, "pair", "key")
    /\ secrets' = [secrets EXCEPT ![m].pair = cli[m].to]

SaveHouseholdKey(m) ==
    /\ Saves(m, "key", "token")
    /\ secrets' = [secrets EXCEPT ![m].key = TRUE]

SaveDeviceToken(m) ==
    /\ Saves(m, "token", "account")
    /\ secrets' = [secrets EXCEPT ![m].token = cli[m].to]

UpdateSyncDevice(m) ==
    /\ At(m, "account")
    /\ account' = [account EXCEPT ![m] = cli[m].to]
    /\ Ends(m)
    /\ UNCHANGED <<relay, secrets, faults>>

-----------------------------------------------------------------------------
(***************************************************************************)
(* Time and failures.                                                      *)
(***************************************************************************)
Fault == faults < MaxFaults /\ faults' = faults + 1

\* A command is interrupted, times out, or is left without an answer.
Stops(m) ==
    /\ cli[m] # None
    /\ Fault
    /\ Ends(m)
    /\ UNCHANGED <<relay, secrets, account>>

\* The answer to a poll is lost and the HTTP transport repeats the request.
AnswerLost(m) ==
    /\ At(m, "wait")
    /\ Answer(cli[m].to)
    /\ Fault
    /\ exchanges' = Cleared(cli[m].to)
    /\ UNCHANGED <<invites, revoked, secrets, account, cli>>

\* Codes and exchanges expire at any time; that one nobody can use any more
\* also expires changes nothing and is left out.
ExpireInvite(c) ==
    /\ Usable(c)
    /\ invites' = [invites EXCEPT ![c].expired = TRUE]
    /\ UNCHANGED <<exchanges, revoked, secrets, account, cli, faults>>

\* keyExchangeExpiry is 15 minutes and a joiner polls for 5: an exchange
\* expires under a waiting joiner only if that machine was suspended.
ExpireExchange(e) ==
    /\ e \in Pending \/ (Completed(e) /\ Answer(e))
    /\ exchanges' = [exchanges EXCEPT ![e].expired = TRUE]
    /\ IF \E m \in Machines : At(m, "wait") /\ cli[m].to = e THEN Fault ELSE UNCHANGED faults
    /\ UNCHANGED <<invites, revoked, secrets, account, cli>>

-----------------------------------------------------------------------------
InviteStep(m) ==
    \/ \E c \in Codes : CreateInvite(m, c)
    \/ CreateInviteFails(m)
    \/ FindJoiner(m)
    \/ SealKey(m)
    \/ Unauthorized(m)
    \/ CompleteKeyExchange(m)
    \/ CompleteKeyExchangeFails(m)

JoinStep(m) ==
    \/ GetKeyExchangeResult(m)
    \/ ResultGone(m)
    \/ OpenBox(m)
    \/ SaveDeviceKeyPair(m)
    \/ SaveHouseholdKey(m)
    \/ SaveDeviceToken(m)
    \/ UpdateSyncDevice(m)

Next ==
    \/ \E m \in Machines :
        \/ StartInvite(m)
        \/ InviteStep(m)
        \/ \E d \in Ids : StartRevoke(m, d)
        \/ RevokeDevice(m)
        \/ \E c \in Codes, e \in Exchanges : StartJoin(m, c, e)
        \/ \E c \in Codes : RefuseSpent(m, c)
        \/ JoinStep(m)
        \/ Stops(m)
        \/ AnswerLost(m)
    \/ \E c \in Codes : ExpireInvite(c)
    \/ \E e \in Exchanges : ExpireExchange(e)

Spec == Init /\ [][Next]_vars

-----------------------------------------------------------------------------
(* Properties *)

\* A database that says it is in a household has all the secrets of one join,
\* of a device the relay knows: runProJoin saves them before the sync device,
\* and an interrupted join may be begun again over half-saved secrets.
AccountComplete == \A m \in Machines : account[m] # None =>
    /\ secrets[m] = [pair |-> account[m], key |-> TRUE, token |-> account[m]]
    /\ account[m] \in Registered

\* The limits of CreateInvite and StartJoin hold over expiry, consumption and
\* refusals: of active codes, and of the exchanges ever begun with one code.
CodeLimits ==
    /\ Cardinality(ActiveInvites) <= maxActiveInvites
    /\ \A c \in Codes :
        Cardinality({e \in Exchanges : exchanges[e] # None /\ exchanges[e].code = c})
            <= maxInviteAttempts

Stage(d) ==
    CASE d = First                             -> "claimed"
      [] d # First /\ exchanges[d] = None      -> "new"
      [] d # First /\ exchanges[d] # None /\ ~exchanges[d].completed -> "asked"
      [] d # First /\ Completed(d) /\ exchanges[d].box # None        -> "accepted"
      [] d # First /\ Completed(d) /\ exchanges[d].box = None        -> "claimed"

\* Invites, exchanges and the steps of the commands implement Admission:
\* nobody is inside who was not accepted and whose credentials were not
\* claimed first, and no acceptance or claim happens twice.
Promise ==
    INSTANCE Admission WITH stage  <- [d \in Ids |-> Stage(d)],
                            inside <- {account[m] : m \in Machines} \ {None},
                            barred <- revoked

ImplementsAdmission == Promise!Spec

Waiting(m, e)  == At(m, "wait") /\ cli[m].to = e
Accepted(m, e) == Waiting(m, e) /\ Answer(e) /\ exchanges[e].box = cli[m].from
TakesKey(m)    == At(m, "open") /\ cli[m].box = cli[m].from

\* Once the inviter of its code has completed the exchange of a joiner that
\* polls, the joiner gets a key it can open: unless a failure strikes, the
\* answer neither expires under it, nor is replaced by another inviter's, nor
\* claimed by anybody else.
AcceptedStays == [][\A m \in Machines, e \in Exchanges :
    Accepted(m, e) /\ faults' = faults => Accepted(m, e)' \/ TakesKey(m)']_vars

=============================================================================
