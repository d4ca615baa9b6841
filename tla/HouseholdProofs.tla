-------------------------- MODULE HouseholdProofs --------------------------
(***************************************************************************)
(* Theorems about Household, for every set of machines, either store, and  *)
(* every limit and bound.                                                  *)
(***************************************************************************)
EXTENDS Household, FiniteSetTheorems, TLAPS

JoinSteps == {"wait", "open", "pair", "key", "token", "account"}
PairSaved == {"key", "token", "account"}

\* What the command running on m knows: whether m is a member, that the
\* exchange it works on exists, and what a join has saved by each step.
CommandOK(m) == cli[m] # None =>
    /\ cli[m].at \in JoinSteps <=> account[m] = None
    /\ cli[m].at \in JoinSteps \cup {"seal", "complete"} =>
        cli[m].to \in Exchanges /\ exchanges[cli[m].to] # None
    /\ cli[m].at \in JoinSteps \ {"wait"} => Completed(cli[m].to)
    /\ cli[m].at \in PairSaved => secrets[m].pair = cli[m].to
    /\ cli[m].at \in {"token", "account"} => secrets[m].key
    /\ cli[m].at = "account" => secrets[m].token = cli[m].to
    /\ cli[m].at = "revoke" => cli[m].to \in Ids

CommandsOK == \A m \in Machines : CommandOK(m)

\* A member has the secrets of its join (AccountComplete, per machine).
MemberOK(m) == account[m] # None =>
    /\ secrets[m].pair = account[m]
    /\ secrets[m].key
    /\ secrets[m].token = account[m]
    /\ account[m] \in Registered

MembersOK == \A m \in Machines : MemberOK(m)

\* Every exchange was begun with a code that exists.
CodesExist == \A e \in Exchanges :
    exchanges[e] # None => invites[exchanges[e].code] # None

HouseholdInv == TypeOK /\ CommandsOK /\ MembersOK /\ CodesExist

-----------------------------------------------------------------------------
(***************************************************************************)
(* The relay forgets nothing that a command or a member relies on.         *)
(***************************************************************************)
RelayGrows ==
    /\ \A c \in Codes : invites[c] # None => invites'[c] # None
    /\ \A e \in Exchanges :
        exchanges[e] # None =>
            /\ exchanges'[e] # None
            /\ exchanges'[e].code = exchanges[e].code
            /\ exchanges[e].completed => exchanges'[e].completed

\* A machine whose own state does not change stays as it was.
LEMMA Untouched ==
    ASSUME RelayGrows, NEW m \in Machines, CommandOK(m), MemberOK(m),
           cli'[m] = cli[m], secrets'[m] = secrets[m], account'[m] = account[m]
    PROVE  CommandOK(m)' /\ MemberOK(m)'
<1>1. CommandOK(m)'
  BY DEF CommandOK, RelayGrows, Completed, JoinSteps
<1>2. MemberOK(m)'
  BY DEF MemberOK, RelayGrows, Completed, Registered
<1> QED BY <1>1, <1>2

\* What a step of m must show: its types, the relay's growth, its own command
\* and membership; the other machines follow.
LEMMA StepOf ==
    ASSUME HouseholdInv, TypeOK', RelayGrows, CodesExist', NEW m \in Machines,
           \A n \in Machines \ {m} : /\ cli'[n] = cli[n]
                                     /\ secrets'[n] = secrets[n]
                                     /\ account'[n] = account[n],
           CommandOK(m)', MemberOK(m)'
    PROVE  HouseholdInv'
<1>1. ASSUME NEW n \in Machines PROVE CommandOK(n)' /\ MemberOK(n)'
  <2>1. CASE n = m
    BY <2>1
  <2>2. CASE n # m
    BY <2>2, Untouched DEF HouseholdInv, CommandsOK, MembersOK
  <2> QED BY <2>1, <2>2
<1> QED
  BY <1>1 DEF HouseholdInv, CommandsOK, MembersOK

\* The relay's tables do not change.
LEMMA RelayStill ==
    ASSUME CodesExist, UNCHANGED <<invites, exchanges>>
    PROVE  RelayGrows /\ CodesExist'
BY DEF RelayGrows, CodesExist

\* A member is a device with an ID and a token.
LEMMA MemberType ==
    ASSUME HouseholdInv, NEW m \in Machines, account[m] # None
    PROVE  secrets[m].token \in Ids /\ secrets[m].pair \in Ids
BY HouseholdAssumption DEF HouseholdInv, MembersOK, MemberOK, TypeOK, Registered, Ids

-----------------------------------------------------------------------------
(***************************************************************************)
(* A command ends, or passes to its next step, and nothing else changes.   *)
(***************************************************************************)
LEMMA EndsKeeps ==
    ASSUME HouseholdInv, NEW m \in Machines, Ends(m),
           UNCHANGED <<relay, secrets, account>>, faults' \in Nat
    PROVE  HouseholdInv'
<1>1. TypeOK'
  BY DEF HouseholdInv, TypeOK, Ends, relay
<1>2. RelayGrows /\ CodesExist'
  BY RelayStill DEF HouseholdInv, relay
<1>3. cli'[m] = None
  BY DEF HouseholdInv, TypeOK, Ends
<1>4. CommandOK(m)' /\ MemberOK(m)'
  BY <1>3 DEF HouseholdInv, MembersOK, CommandOK, MemberOK, Registered, Completed, relay
<1> QED
  BY <1>1, <1>2, <1>4, StepOf DEF Ends, HouseholdInv, TypeOK

\* A command changes its own step, target or box, and nothing else changes.
LEMMA CommandKeeps ==
    ASSUME HouseholdInv, NEW m \in Machines, NEW c \in Command,
           cli' = [cli EXCEPT ![m] = c],
           UNCHANGED <<relay, secrets, account, faults>>,
           CommandOK(m)'
    PROVE  HouseholdInv'
<1>1. TypeOK'
  BY DEF HouseholdInv, TypeOK, relay
<1>2. RelayGrows /\ CodesExist'
  BY RelayStill DEF HouseholdInv, relay
<1>3. MemberOK(m)'
  BY DEF HouseholdInv, MembersOK, MemberOK, Registered, Completed, relay
<1> QED
  BY <1>1, <1>2, <1>3, StepOf DEF HouseholdInv, TypeOK

LEMMA StartsAuthenticatedKeeps ==
    ASSUME HouseholdInv, NEW m \in Machines, NEW to \in Ids \cup {None},
           NEW step \in {"invite", "revoke"}, step = "revoke" => to \in Ids,
           StartsAuthenticated(m, step, to)
    PROVE  HouseholdInv'
<1> DEFINE c == [at |-> step, to |-> to, from |-> None, box |-> None]
<1>1. c \in Command
  BY DEF Command, Steps
<1>2. cli' = [cli EXCEPT ![m] = c]
  BY DEF StartsAuthenticated, Starts
<1>3. cli'[m] = c
  BY <1>2 DEF HouseholdInv, TypeOK
<1>4. CommandOK(m)'
  BY <1>3 DEF CommandOK, StartsAuthenticated, JoinSteps, PairSaved
<1> QED
  BY <1>1, <1>2, <1>4, CommandKeeps DEF StartsAuthenticated

\* Steps that only move a command on.
LEMMA GoesType ==
    ASSUME HouseholdInv, NEW m \in Machines, NEW now \in Steps, NEW step \in Steps,
           At(m, now), Goes(m, step)
    PROVE  \E c \in Command :
                /\ cli' = [cli EXCEPT ![m] = c]
                /\ cli'[m] = c
                /\ c = [cli[m] EXCEPT !.at = step]
<1>1. cli[m] \in Command
  BY DEF At, HouseholdInv, TypeOK
<1>2. [cli[m] EXCEPT !.at = step] \in Command
  BY <1>1 DEF Command
<1> QED
  BY <1>2 DEF Goes, HouseholdInv, TypeOK

LEMMA FindJoinerKeeps ==
    ASSUME HouseholdInv, NEW m \in Machines, FindJoiner(m)
    PROVE  HouseholdInv'
<1>1. PICK e \in Pending : cli' = [cli EXCEPT ![m].at = "seal", ![m].to = e]
  BY DEF FindJoiner
<1>2. cli[m] \in Command
  BY DEF FindJoiner, At, HouseholdInv, TypeOK
<1> DEFINE c == [cli[m] EXCEPT !.at = "seal", !.to = e]
<1>3. c \in Command
  BY <1>2 DEF Command, Steps, Pending, Ids
<1>4. cli' = [cli EXCEPT ![m] = c]
  BY <1>1 DEF HouseholdInv, TypeOK
<1>5. cli'[m] = c /\ c.at = "seal" /\ c.to = e
  BY <1>2, <1>4 DEF HouseholdInv, TypeOK, Command
<1>6. account[m] # None
  BY DEF FindJoiner, At, HouseholdInv, CommandsOK, CommandOK, JoinSteps
<1>7. CommandOK(m)'
  BY <1>5, <1>6 DEF CommandOK, JoinSteps, PairSaved, FindJoiner, relay, Pending
<1> QED
  BY <1>3, <1>4, <1>7, CommandKeeps DEF FindJoiner

LEMMA SealKeyKeeps ==
    ASSUME HouseholdInv, NEW m \in Machines, SealKey(m)
    PROVE  HouseholdInv'
<1>1. PICK c \in Command : /\ cli' = [cli EXCEPT ![m] = c]
                           /\ cli'[m] = c
                           /\ c = [cli[m] EXCEPT !.at = "complete"]
  BY GoesType DEF SealKey, Steps
<1>2. c.at = "complete" /\ c.to = cli[m].to
  BY <1>1 DEF SealKey, At, HouseholdInv, TypeOK, Command
<1>3. CommandOK(m)'
  BY <1>1, <1>2 DEF SealKey, At, HouseholdInv, CommandsOK, CommandOK, JoinSteps, PairSaved, relay
<1> QED
  BY <1>1, <1>3, CommandKeeps DEF SealKey

LEMMA OpenBoxKeeps ==
    ASSUME HouseholdInv, NEW m \in Machines, OpenBox(m)
    PROVE  HouseholdInv'
<1>1. CASE Goes(m, "pair")
  <2>1. PICK c \in Command : /\ cli' = [cli EXCEPT ![m] = c]
                             /\ cli'[m] = c
                             /\ c = [cli[m] EXCEPT !.at = "pair"]
    BY <1>1, GoesType DEF OpenBox, Steps
  <2>2. c.at = "pair" /\ c.to = cli[m].to
    BY <2>1 DEF OpenBox, At, HouseholdInv, TypeOK, Command
  <2>3. CommandOK(m)'
    BY <2>1, <2>2 DEF OpenBox, At, HouseholdInv, CommandsOK, CommandOK, JoinSteps,
                      PairSaved, relay, Completed
  <2> QED
    BY <2>1, <2>3, CommandKeeps DEF OpenBox
<1>2. CASE Ends(m)
  BY <1>2, EndsKeeps DEF OpenBox, HouseholdInv, TypeOK
<1> QED
  BY <1>1, <1>2 DEF OpenBox

-----------------------------------------------------------------------------
(***************************************************************************)
(* Saving: each file of the secrets, then the sync device.                 *)
(***************************************************************************)
LEMMA SavesKeeps ==
    ASSUME HouseholdInv, NEW m \in Machines, NEW now \in JoinSteps \ {"wait"},
           NEW step \in JoinSteps \ {"wait"}, NEW s \in Secrets,
           Saves(m, now, step), secrets' = [secrets EXCEPT ![m] = s],
           step \in PairSaved => s.pair = cli[m].to,
           step \in {"token", "account"} => s.key,
           step = "account" => s.token = cli[m].to
    PROVE  HouseholdInv'
<1>1. PICK c \in Command : /\ cli' = [cli EXCEPT ![m] = c]
                           /\ cli'[m] = c
                           /\ c = [cli[m] EXCEPT !.at = step]
  BY GoesType DEF Saves, Steps, JoinSteps
<1>2. c.at = step /\ c.to = cli[m].to
  BY <1>1 DEF Saves, At, HouseholdInv, TypeOK, Command
<1>3. secrets'[m] = s
  BY DEF HouseholdInv, TypeOK
<1>4. TypeOK'
  BY <1>1 DEF HouseholdInv, TypeOK, Saves, relay
<1>5. RelayGrows /\ CodesExist'
  BY RelayStill DEF HouseholdInv, Saves, relay
<1>6. account[m] = None /\ cli[m].to \in Exchanges /\ Completed(cli[m].to)
  BY DEF Saves, At, HouseholdInv, CommandsOK, CommandOK, JoinSteps
<1>7. CommandOK(m)'
  BY <1>1, <1>2, <1>3, <1>6 DEF CommandOK, JoinSteps, Saves, relay, Completed
<1>8. MemberOK(m)'
  BY <1>6 DEF MemberOK, Saves
<1> QED
  BY <1>1, <1>4, <1>5, <1>7, <1>8, StepOf DEF Saves, HouseholdInv, TypeOK

LEMMA SaveStepsKeep ==
    ASSUME HouseholdInv, NEW m \in Machines,
           SaveDeviceKeyPair(m) \/ SaveHouseholdKey(m) \/ SaveDeviceToken(m)
    PROVE  HouseholdInv'
<1>1. secrets[m] \in Secrets
  BY DEF HouseholdInv, TypeOK
<1>2. CASE SaveDeviceKeyPair(m)
  <2> DEFINE s == [secrets[m] EXCEPT !.pair = cli[m].to]
  <2>1. cli[m].to \in Ids
    BY <1>2 DEF SaveDeviceKeyPair, Saves, At, HouseholdInv, CommandsOK, CommandOK, JoinSteps, Ids
  <2>2. s \in Secrets /\ s.pair = cli[m].to
    BY <1>1, <2>1 DEF Secrets
  <2>3. secrets' = [secrets EXCEPT ![m] = s]
    BY <1>2 DEF SaveDeviceKeyPair, HouseholdInv, TypeOK
  <2> QED
    BY <1>2, <2>2, <2>3, SavesKeeps DEF SaveDeviceKeyPair, JoinSteps, PairSaved
<1>3. CASE SaveHouseholdKey(m)
  <2> DEFINE s == [secrets[m] EXCEPT !.key = TRUE]
  <2>1. secrets[m].pair = cli[m].to
    BY <1>3 DEF SaveHouseholdKey, Saves, At, HouseholdInv, CommandsOK, CommandOK, PairSaved
  <2>2. s \in Secrets /\ s.pair = cli[m].to /\ s.key
    BY <1>1, <2>1 DEF Secrets
  <2>3. secrets' = [secrets EXCEPT ![m] = s]
    BY <1>3 DEF SaveHouseholdKey, HouseholdInv, TypeOK
  <2> QED
    BY <1>3, <2>2, <2>3, SavesKeeps DEF SaveHouseholdKey, JoinSteps
<1>4. CASE SaveDeviceToken(m)
  <2> DEFINE s == [secrets[m] EXCEPT !.token = cli[m].to]
  <2>1. secrets[m].pair = cli[m].to /\ secrets[m].key /\ cli[m].to \in Ids
    BY <1>4 DEF SaveDeviceToken, Saves, At, HouseholdInv, CommandsOK, CommandOK, PairSaved,
                JoinSteps, Ids
  <2>2. s \in Secrets /\ s.pair = cli[m].to /\ s.key /\ s.token = cli[m].to
    BY <1>1, <2>1 DEF Secrets
  <2>3. secrets' = [secrets EXCEPT ![m] = s]
    BY <1>4 DEF SaveDeviceToken, HouseholdInv, TypeOK
  <2> QED
    BY <1>4, <2>2, <2>3, SavesKeeps DEF SaveDeviceToken, JoinSteps
<1> QED
  BY <1>2, <1>3, <1>4

LEMMA UpdateSyncDeviceKeeps ==
    ASSUME HouseholdInv, NEW m \in Machines, UpdateSyncDevice(m)
    PROVE  HouseholdInv'
<1>1. /\ cli[m].to \in Exchanges
      /\ Completed(cli[m].to)
      /\ secrets[m].pair = cli[m].to
      /\ secrets[m].key
      /\ secrets[m].token = cli[m].to
  BY DEF UpdateSyncDevice, At, HouseholdInv, CommandsOK, CommandOK, JoinSteps, PairSaved
<1>2. TypeOK'
  BY <1>1 DEF UpdateSyncDevice, Ends, HouseholdInv, TypeOK, Ids, relay
<1>3. RelayGrows /\ CodesExist'
  BY RelayStill DEF HouseholdInv, UpdateSyncDevice, relay
<1>4. cli'[m] = None /\ account'[m] = cli[m].to
  BY DEF UpdateSyncDevice, Ends, HouseholdInv, TypeOK
<1>5. CommandOK(m)'
  BY <1>4 DEF CommandOK
<1>6. MemberOK(m)'
  BY <1>1, <1>4 DEF MemberOK, UpdateSyncDevice, relay, Registered, Completed
<1> QED
  BY <1>2, <1>3, <1>5, <1>6, StepOf DEF UpdateSyncDevice, Ends, HouseholdInv, TypeOK

-----------------------------------------------------------------------------
(***************************************************************************)
(* The relay's handlers and the passing of time.                           *)
(***************************************************************************)

\* An invite is replaced by one: the tables keep their types and grow.
LEMMA InviteUpdate ==
    ASSUME HouseholdInv, NEW c \in Codes, NEW i \in Invite,
           invites' = [invites EXCEPT ![c] = i]
    PROVE  /\ invites' \in [Codes -> Invite \cup {None}]
           /\ \A b \in Codes : invites[b] # None => invites'[b] # None
BY HouseholdAssumption DEF HouseholdInv, TypeOK

\* An exchange is replaced by one that keeps its code and stays completed.
LEMMA ExchangeUpdate ==
    ASSUME HouseholdInv, NEW e \in Exchanges, NEW x \in Exchange,
           exchanges' = [exchanges EXCEPT ![e] = x],
           invites[x.code] # None,
           exchanges[e] # None => /\ x.code = exchanges[e].code
                                  /\ exchanges[e].completed => x.completed,
           \A b \in Codes : invites[b] # None => invites'[b] # None
    PROVE  exchanges' \in [Exchanges -> Exchange \cup {None}] /\ RelayGrows /\ CodesExist'
<1>1. exchanges' \in [Exchanges -> Exchange \cup {None}]
  BY DEF HouseholdInv, TypeOK
<1>2. x # None /\ x.code \in Codes
  BY HouseholdAssumption DEF Exchange
<1>3. exchanges'[e] = x /\ \A f \in Exchanges \ {e} : exchanges'[f] = exchanges[f]
  BY DEF HouseholdInv, TypeOK
<1>4. RelayGrows
  BY <1>2, <1>3 DEF RelayGrows
<1>5. CodesExist'
  <2> SUFFICES ASSUME NEW f \in Exchanges, exchanges'[f] # None
               PROVE  invites'[exchanges'[f].code] # None
    BY DEF CodesExist
  <2>1. CASE f = e
    BY <2>1, <1>2, <1>3
  <2>2. CASE f # e
    <3>1. exchanges[f] # None /\ exchanges'[f] = exchanges[f]
      BY <2>2, <1>3
    <3>2. exchanges[f].code \in Codes
      BY <3>1 DEF HouseholdInv, TypeOK, Exchange
    <3> QED BY <3>1, <3>2 DEF HouseholdInv, CodesExist
  <2> QED BY <2>1, <2>2
<1> QED BY <1>1, <1>4, <1>5

\* Only the relay's tables and the count of faults change.
LEMMA RelayKeeps ==
    ASSUME HouseholdInv, RelayGrows, CodesExist', UNCHANGED <<secrets, account, cli>>,
           invites' \in [Codes -> Invite \cup {None}],
           exchanges' \in [Exchanges -> Exchange \cup {None}],
           revoked' \in SUBSET Ids, faults' \in Nat
    PROVE  HouseholdInv'
<1>1. TypeOK'
  BY DEF HouseholdInv, TypeOK
<1>2. CommandsOK' /\ MembersOK'
  BY Untouched DEF HouseholdInv, CommandsOK, MembersOK
<1> QED BY <1>1, <1>2 DEF HouseholdInv

LEMMA CreateInviteKeeps ==
    ASSUME HouseholdInv, NEW m \in Machines, NEW c \in Codes, CreateInvite(m, c)
    PROVE  HouseholdInv'
<1>1. account[m] # None
  BY DEF CreateInvite, At, HouseholdInv, CommandsOK, CommandOK, JoinSteps
<1> DEFINE i == [by |-> secrets[m].token, attempts |-> 0,
                 consumed |-> FALSE, expired |-> FALSE]
<1>2. i \in Invite
  BY <1>1, MemberType DEF Invite
<1>3. invites' = [invites EXCEPT ![c] = i]
  BY DEF CreateInvite
<1>4. /\ invites' \in [Codes -> Invite \cup {None}]
      /\ \A b \in Codes : invites[b] # None => invites'[b] # None
  BY <1>2, <1>3, InviteUpdate
<1>5. RelayGrows
  BY <1>4 DEF RelayGrows, CreateInvite
<1>6. CodesExist'
  BY <1>4 DEF CodesExist, CreateInvite, HouseholdInv, TypeOK, Exchange
<1>7. PICK k \in Command : /\ cli' = [cli EXCEPT ![m] = k]
                           /\ cli'[m] = k
                           /\ k = [cli[m] EXCEPT !.at = "poll"]
  BY GoesType DEF CreateInvite, Steps
<1>8. TypeOK'
  BY <1>4, <1>7 DEF CreateInvite, HouseholdInv, TypeOK
<1>9. k.at = "poll"
  BY <1>7 DEF CreateInvite, At, HouseholdInv, TypeOK, Command
<1>10. CommandOK(m)'
  BY <1>1, <1>7, <1>9 DEF CreateInvite, CommandOK, JoinSteps, PairSaved
<1>11. MemberOK(m)'
  BY DEF CreateInvite, HouseholdInv, MembersOK, MemberOK, Registered, Completed
<1> QED
  BY <1>5, <1>6, <1>7, <1>8, <1>10, <1>11, StepOf DEF CreateInvite, HouseholdInv, TypeOK

LEMMA CompleteKeyExchangeKeeps ==
    ASSUME HouseholdInv, NEW m \in Machines, CompleteKeyExchange(m)
    PROVE  HouseholdInv'
<1> DEFINE e == cli[m].to
           x == [exchanges[e] EXCEPT !.completed = TRUE, !.box = secrets[m].pair]
           b == exchanges[e].code
           i == [invites[b] EXCEPT !.consumed = TRUE]
<1>1. account[m] # None /\ e \in Exchanges /\ exchanges[e] # None
  BY DEF CompleteKeyExchange, At, HouseholdInv, CommandsOK, CommandOK, JoinSteps
<1>2. exchanges[e] \in Exchange
  BY <1>1 DEF HouseholdInv, TypeOK
<1>3. x \in Exchange /\ x.code = b /\ x.completed
  BY <1>1, <1>2, MemberType DEF Exchange
<1>4. b \in Codes /\ invites[b] # None
  BY <1>1, <1>2 DEF HouseholdInv, CodesExist, Exchange
<1>5. i \in Invite
  BY <1>4 DEF HouseholdInv, TypeOK, Invite
<1>6. invites' = [invites EXCEPT ![b] = i]
  BY DEF CompleteKeyExchange, HouseholdInv, TypeOK
<1>7. /\ invites' \in [Codes -> Invite \cup {None}]
      /\ \A c \in Codes : invites[c] # None => invites'[c] # None
  BY <1>4, <1>5, <1>6, InviteUpdate
<1>8. exchanges' = [exchanges EXCEPT ![e] = x]
  BY DEF CompleteKeyExchange, HouseholdInv, TypeOK
<1>9. exchanges' \in [Exchanges -> Exchange \cup {None}] /\ RelayGrows /\ CodesExist'
  BY <1>1, <1>3, <1>4, <1>7, <1>8, ExchangeUpdate
<1>10. TypeOK'
  BY <1>7, <1>9 DEF CompleteKeyExchange, Ends, HouseholdInv, TypeOK
<1>11. cli'[m] = None
  BY DEF CompleteKeyExchange, Ends, HouseholdInv, TypeOK
<1>12. CommandOK(m)'
  BY <1>11 DEF CommandOK
<1>13. MemberOK(m)'
  BY <1>9 DEF CompleteKeyExchange, HouseholdInv, MembersOK, MemberOK, Registered,
              Completed, RelayGrows
<1> QED
  BY <1>9, <1>10, <1>12, <1>13, StepOf DEF CompleteKeyExchange, Ends, HouseholdInv, TypeOK

LEMMA StartJoinKeeps ==
    ASSUME HouseholdInv, NEW m \in Machines, NEW c \in Codes, NEW e \in Exchanges,
           StartJoin(m, c, e)
    PROVE  HouseholdInv'
<1> DEFINE x == [code |-> c, completed |-> FALSE, expired |-> FALSE, box |-> None]
           i == [invites[c] EXCEPT !.attempts = @ + 1]
           k == [at |-> "wait", to |-> e, from |-> invites[c].by, box |-> None]
<1>1. invites[c] \in Invite /\ invites[c] # None /\ exchanges[e] = None
  BY DEF StartJoin, Usable, Fresh, HouseholdInv, TypeOK
<1>2. i \in Invite
  BY <1>1 DEF Invite
<1>3. x \in Exchange /\ x.code = c
  BY DEF Exchange
<1>4. invites' = [invites EXCEPT ![c] = i]
  BY DEF StartJoin, HouseholdInv, TypeOK
<1>5. /\ invites' \in [Codes -> Invite \cup {None}]
      /\ \A b \in Codes : invites[b] # None => invites'[b] # None
  BY <1>2, <1>4, InviteUpdate
<1>6. exchanges' = [exchanges EXCEPT ![e] = x]
  BY DEF StartJoin
<1>7. exchanges' \in [Exchanges -> Exchange \cup {None}] /\ RelayGrows /\ CodesExist'
  BY <1>1, <1>3, <1>5, <1>6, ExchangeUpdate
<1>8. k \in Command
  BY <1>1 DEF Command, Steps, Ids, Invite
<1>9. cli' = [cli EXCEPT ![m] = k] /\ cli'[m] = k
  BY DEF StartJoin, Starts, HouseholdInv, TypeOK
<1>10. TypeOK'
  BY <1>5, <1>7, <1>8, <1>9 DEF StartJoin, HouseholdInv, TypeOK
<1>11. exchanges'[e] = x /\ x # None
  BY <1>3, <1>6, HouseholdAssumption DEF HouseholdInv, TypeOK
<1>12. CommandOK(m)'
  BY <1>9, <1>11 DEF CommandOK, JoinSteps, PairSaved, StartJoin, NotJoined
<1>13. MemberOK(m)'
  BY DEF MemberOK, StartJoin, NotJoined
<1> QED
  BY <1>7, <1>9, <1>10, <1>12, <1>13, StepOf DEF StartJoin, HouseholdInv, TypeOK

LEMMA GetKeyExchangeResultKeeps ==
    ASSUME HouseholdInv, NEW m \in Machines, GetKeyExchangeResult(m)
    PROVE  HouseholdInv'
<1> DEFINE e == cli[m].to
           x == [exchanges[e] EXCEPT !.box = None]
           k == [cli[m] EXCEPT !.at = "open", !.box = exchanges[e].box]
<1>1. e \in Exchanges /\ exchanges[e] # None /\ account[m] = None
  BY DEF GetKeyExchangeResult, At, HouseholdInv, CommandsOK, CommandOK, JoinSteps
<1>2. exchanges[e] \in Exchange /\ exchanges[e].completed
  BY <1>1 DEF GetKeyExchangeResult, Answer, HouseholdInv, TypeOK
<1>3. x \in Exchange /\ x.code = exchanges[e].code /\ x.completed
  BY <1>2 DEF Exchange
<1>4. exchanges' = [exchanges EXCEPT ![e] = x]
  BY DEF GetKeyExchangeResult, Cleared
<1>5. invites[x.code] # None
  BY <1>1, <1>3 DEF HouseholdInv, CodesExist
<1>6. exchanges' \in [Exchanges -> Exchange \cup {None}] /\ RelayGrows /\ CodesExist'
  BY <1>1, <1>3, <1>4, <1>5, ExchangeUpdate DEF GetKeyExchangeResult
<1>7. cli[m] \in Command
  BY DEF GetKeyExchangeResult, At, HouseholdInv, TypeOK
<1>8. k \in Command /\ k.at = "open" /\ k.to = e
  BY <1>2, <1>7 DEF Command, Steps, Exchange
<1>9. cli' = [cli EXCEPT ![m] = k] /\ cli'[m] = k
  BY <1>7 DEF GetKeyExchangeResult, HouseholdInv, TypeOK
<1>10. TypeOK'
  BY <1>6, <1>8, <1>9 DEF GetKeyExchangeResult, HouseholdInv, TypeOK
<1>11. exchanges'[e] # None /\ exchanges'[e].completed
  BY <1>1, <1>2, <1>6 DEF RelayGrows
<1>12. CommandOK(m)'
  BY <1>1, <1>8, <1>9, <1>11 DEF CommandOK, JoinSteps, PairSaved, Completed,
                                 GetKeyExchangeResult
<1>13. MemberOK(m)'
  BY <1>1 DEF MemberOK, GetKeyExchangeResult
<1> QED
  BY <1>6, <1>9, <1>10, <1>12, <1>13, StepOf DEF GetKeyExchangeResult, HouseholdInv, TypeOK

LEMMA RevokeDeviceKeeps ==
    ASSUME HouseholdInv, NEW m \in Machines, RevokeDevice(m)
    PROVE  HouseholdInv'
<1>1. cli[m].to \in Ids
  BY DEF RevokeDevice, At, HouseholdInv, CommandsOK, CommandOK
<1>2. TypeOK'
  BY <1>1 DEF RevokeDevice, Ends, HouseholdInv, TypeOK
<1>3. RelayGrows /\ CodesExist'
  BY RelayStill DEF RevokeDevice, HouseholdInv
<1>4. cli'[m] = None
  BY DEF RevokeDevice, Ends, HouseholdInv, TypeOK
<1>5. CommandOK(m)' /\ MemberOK(m)'
  BY <1>4 DEF CommandOK, RevokeDevice, HouseholdInv, MembersOK, MemberOK, Registered, Completed
<1> QED
  BY <1>2, <1>3, <1>5, StepOf DEF RevokeDevice, Ends, HouseholdInv, TypeOK

\* An invite changes, to one that exists, and nothing else does.
LEMMA InviteKeeps ==
    ASSUME HouseholdInv, NEW c \in Codes, NEW i \in Invite,
           invites' = [invites EXCEPT ![c] = i],
           UNCHANGED <<exchanges, revoked, secrets, account, cli, faults>>
    PROVE  HouseholdInv'
<1>1. /\ invites' \in [Codes -> Invite \cup {None}]
      /\ \A b \in Codes : invites[b] # None => invites'[b] # None
  BY InviteUpdate
<1>2. RelayGrows
  BY <1>1 DEF RelayGrows
<1>3. CodesExist'
  BY <1>1 DEF CodesExist, HouseholdInv, TypeOK, Exchange
<1> QED
  BY <1>1, <1>2, <1>3, RelayKeeps DEF HouseholdInv, TypeOK

LEMMA RefuseSpentKeeps ==
    ASSUME HouseholdInv, NEW m \in Machines, NEW c \in Codes, RefuseSpent(m, c)
    PROVE  HouseholdInv'
<1>1. invites[c] \in Invite
  BY DEF RefuseSpent, Usable, HouseholdInv, TypeOK
<1>2. CASE KeepsRefusal
  <2> DEFINE i == [invites[c] EXCEPT !.consumed = TRUE]
  <2>1. i \in Invite
    BY <1>1 DEF Invite
  <2>2. invites' = [invites EXCEPT ![c] = i]
    BY <1>2 DEF RefuseSpent, HouseholdInv, TypeOK
  <2> QED
    BY <2>1, <2>2, InviteKeeps DEF RefuseSpent
<1>3. CASE ~KeepsRefusal
  <2>1. invites' = [invites EXCEPT ![c] = invites[c]]
    BY <1>3 DEF RefuseSpent, HouseholdInv, TypeOK
  <2> QED
    BY <1>1, <2>1, InviteKeeps DEF RefuseSpent
<1> QED BY <1>2, <1>3

LEMMA ExpireInviteKeeps ==
    ASSUME HouseholdInv, NEW c \in Codes, ExpireInvite(c)
    PROVE  HouseholdInv'
<1> DEFINE i == [invites[c] EXCEPT !.expired = TRUE]
<1>1. i \in Invite
  BY DEF ExpireInvite, Usable, HouseholdInv, TypeOK, Invite
<1>2. invites' = [invites EXCEPT ![c] = i]
  BY DEF ExpireInvite, HouseholdInv, TypeOK
<1> QED
  BY <1>1, <1>2, InviteKeeps DEF ExpireInvite

\* An exchange that exists changes, but for its code and for being completed,
\* and nothing else but the count of faults does.
LEMMA ExchangeKeeps ==
    ASSUME HouseholdInv, NEW e \in Exchanges, exchanges[e] # None, NEW x \in Exchange,
           x.code = exchanges[e].code, x.completed = exchanges[e].completed,
           exchanges' = [exchanges EXCEPT ![e] = x],
           UNCHANGED <<invites, revoked, secrets, account, cli>>, faults' \in Nat
    PROVE  HouseholdInv'
<1>1. invites[x.code] # None
  BY DEF HouseholdInv, CodesExist
<1>2. exchanges' \in [Exchanges -> Exchange \cup {None}] /\ RelayGrows /\ CodesExist'
  BY <1>1, ExchangeUpdate
<1> QED
  BY <1>2, RelayKeeps DEF HouseholdInv, TypeOK

LEMMA AnswerLostKeeps ==
    ASSUME HouseholdInv, NEW m \in Machines, AnswerLost(m)
    PROVE  HouseholdInv'
<1> DEFINE e == cli[m].to
           x == [exchanges[e] EXCEPT !.box = None]
<1>1. e \in Exchanges /\ exchanges[e] # None
  BY DEF AnswerLost, At, HouseholdInv, CommandsOK, CommandOK, JoinSteps
<1>2. exchanges[e] \in Exchange
  BY <1>1 DEF HouseholdInv, TypeOK
<1>3. x \in Exchange /\ x.code = exchanges[e].code /\ x.completed = exchanges[e].completed
  BY <1>2 DEF Exchange
<1>4. exchanges' = [exchanges EXCEPT ![e] = x]
  BY DEF AnswerLost, Cleared
<1>5. faults' \in Nat
  BY DEF AnswerLost, Fault, HouseholdInv, TypeOK
<1> QED
  BY <1>1, <1>3, <1>4, <1>5, ExchangeKeeps DEF AnswerLost

LEMMA ExpireExchangeKeeps ==
    ASSUME HouseholdInv, NEW e \in Exchanges, ExpireExchange(e)
    PROVE  HouseholdInv'
<1> DEFINE x == [exchanges[e] EXCEPT !.expired = TRUE]
<1>1. exchanges[e] # None
  BY DEF ExpireExchange, Pending, Completed
<1>2. exchanges[e] \in Exchange
  BY <1>1 DEF HouseholdInv, TypeOK
<1>3. x \in Exchange /\ x.code = exchanges[e].code /\ x.completed = exchanges[e].completed
  BY <1>2 DEF Exchange
<1>4. exchanges' = [exchanges EXCEPT ![e] = x]
  BY DEF ExpireExchange, HouseholdInv, TypeOK
<1>5. faults' \in Nat
  BY DEF ExpireExchange, Fault, HouseholdInv, TypeOK
<1> QED
  BY <1>1, <1>3, <1>4, <1>5, ExchangeKeeps DEF ExpireExchange

-----------------------------------------------------------------------------
LEMMA HouseholdInit == Init => HouseholdInv
<1> SUFFICES ASSUME Init PROVE HouseholdInv
  OBVIOUS
<1>1. TypeOK
  BY HouseholdAssumption DEF Init, TypeOK, Secrets, Ids
<1>2. CommandsOK
  BY DEF Init, CommandsOK, CommandOK
<1>3. MembersOK
  BY DEF Init, MembersOK, MemberOK, Registered
<1>4. CodesExist
  BY DEF Init, CodesExist
<1> QED BY <1>1, <1>2, <1>3, <1>4 DEF HouseholdInv

LEMMA HouseholdNext == HouseholdInv /\ [Next]_vars => HouseholdInv'
<1> SUFFICES ASSUME HouseholdInv, [Next]_vars PROVE HouseholdInv'
  OBVIOUS
<1>1. ASSUME NEW m \in Machines, StartInvite(m) PROVE HouseholdInv'
  BY <1>1, StartsAuthenticatedKeeps DEF StartInvite
<1>2. ASSUME NEW m \in Machines, InviteStep(m) PROVE HouseholdInv'
  <2>1. CASE CreateInviteFails(m) \/ Unauthorized(m) \/ CompleteKeyExchangeFails(m)
    BY <2>1, EndsKeeps DEF CreateInviteFails, Unauthorized, CompleteKeyExchangeFails,
                           HouseholdInv, TypeOK
  <2> QED
    BY <1>2, <2>1, CreateInviteKeeps, FindJoinerKeeps, SealKeyKeeps, CompleteKeyExchangeKeeps
    DEF InviteStep
<1>3. ASSUME NEW m \in Machines, NEW d \in Ids, StartRevoke(m, d) PROVE HouseholdInv'
  BY <1>3, StartsAuthenticatedKeeps DEF StartRevoke
<1>4. ASSUME NEW m \in Machines, RevokeDevice(m) PROVE HouseholdInv'
  BY <1>4, RevokeDeviceKeeps
<1>5. ASSUME NEW m \in Machines, NEW c \in Codes, NEW e \in Exchanges, StartJoin(m, c, e)
      PROVE  HouseholdInv'
  BY <1>5, StartJoinKeeps
<1>6. ASSUME NEW m \in Machines, NEW c \in Codes, RefuseSpent(m, c) PROVE HouseholdInv'
  BY <1>6, RefuseSpentKeeps
<1>7. ASSUME NEW m \in Machines, JoinStep(m) PROVE HouseholdInv'
  <2>1. CASE ResultGone(m)
    BY <2>1, EndsKeeps DEF ResultGone, HouseholdInv, TypeOK
  <2> QED
    BY <1>7, <2>1, GetKeyExchangeResultKeeps, OpenBoxKeeps, SaveStepsKeep, UpdateSyncDeviceKeeps
    DEF JoinStep
<1>8. ASSUME NEW m \in Machines, Stops(m) PROVE HouseholdInv'
  BY <1>8, EndsKeeps DEF Stops, Fault, HouseholdInv, TypeOK
<1>9. ASSUME NEW m \in Machines, AnswerLost(m) PROVE HouseholdInv'
  BY <1>9, AnswerLostKeeps
<1>10. ASSUME NEW c \in Codes, ExpireInvite(c) PROVE HouseholdInv'
  BY <1>10, ExpireInviteKeeps
<1>11. ASSUME NEW e \in Exchanges, ExpireExchange(e) PROVE HouseholdInv'
  BY <1>11, ExpireExchangeKeeps
<1>12. CASE UNCHANGED vars
  <2>1. UNCHANGED <<invites, exchanges, revoked, secrets, account, cli, faults>>
    BY <1>12 DEF vars, relay
  <2>2. RelayGrows /\ CodesExist'
    BY <2>1, RelayStill DEF HouseholdInv
  <2> QED
    BY <2>1, <2>2, RelayKeeps DEF HouseholdInv, TypeOK
<1> QED
  BY <1>1, <1>2, <1>3, <1>4, <1>5, <1>6, <1>7, <1>8, <1>9, <1>10, <1>11, <1>12 DEF Next

\* HouseholdInv, which AccountComplete and TypeOK need to be inductive.
THEOREM HouseholdInvariant == Spec => []HouseholdInv
BY HouseholdInit, HouseholdNext, PTL DEF Spec

\* Types, for every set of machines and every bound.
THEOREM HouseholdTypeCorrect == Spec => []TypeOK
<1>1. HouseholdInv => TypeOK
  BY DEF HouseholdInv
<1> QED
  BY <1>1, HouseholdInvariant, PTL

\* However joins are interrupted and begun again, a database that says it is in
\* a household has all the secrets of one join, of a device the relay knows.
THEOREM AccountsComplete == Spec => []AccountComplete
<1>1. HouseholdInv => AccountComplete
  <2> SUFFICES ASSUME HouseholdInv, NEW m \in Machines, account[m] # None
               PROVE  /\ secrets[m] = [pair |-> account[m], key |-> TRUE, token |-> account[m]]
                      /\ account[m] \in Registered
    BY DEF AccountComplete
  <2>1. secrets[m] \in Secrets
    BY DEF HouseholdInv, TypeOK
  <2>2. MemberOK(m)
    BY DEF HouseholdInv, MembersOK
  <2> QED
    BY <2>1, <2>2 DEF MemberOK, Secrets
<1> QED
  BY <1>1, HouseholdInvariant, PTL

-----------------------------------------------------------------------------
(***************************************************************************)
(* An accepted joiner.  No two machines wait for one exchange, so that the *)
(* answer of one is nobody else's to take.                                 *)
(***************************************************************************)
WaitersApart == \A m, n \in Machines, e \in Exchanges :
    Waiting(m, e) /\ Waiting(n, e) => m = n

\* The commands that were not waiting do not begin to, but for a new join.
NoNewWaiter == \A m \in Machines, e \in Exchanges : Waiting(m, e)' => Waiting(m, e)

LEMMA Moved ==
    ASSUME TypeOK, NEW m \in Machines, NEW c, cli' = [cli EXCEPT ![m] = c],
           c = None \/ c.at # "wait"
    PROVE  NoNewWaiter
BY DEF NoNewWaiter, Waiting, At, TypeOK

LEMMA InviteStepsNotWaiting ==
    ASSUME HouseholdInv, NEW m \in Machines,
           \/ StartInvite(m)
           \/ InviteStep(m)
           \/ RevokeDevice(m)
           \/ \E d \in Ids : StartRevoke(m, d)
    PROVE  NoNewWaiter
<1>1. TypeOK
  BY DEF HouseholdInv
<1>2. ASSUME Ends(m) PROVE NoNewWaiter
  BY <1>1, <1>2, Moved DEF Ends
<1>3. ASSUME NEW step, step # "wait", NEW now \in Steps, At(m, now), Goes(m, step)
      PROVE  NoNewWaiter
  <2>1. cli[m] \in Command
    BY <1>3 DEF At, HouseholdInv, TypeOK
  <2>2. cli' = [cli EXCEPT ![m] = [cli[m] EXCEPT !.at = step]]
    BY <1>1, <1>3 DEF Goes, TypeOK
  <2>3. [cli[m] EXCEPT !.at = step].at = step
    BY <2>1 DEF Command
  <2> QED BY <1>1, <1>3, <2>2, <2>3, Moved
<1>4. ASSUME NEW step, step # "wait", NEW to, NEW from, Starts(m, step, to, from)
      PROVE  NoNewWaiter
  BY <1>1, <1>4, Moved DEF Starts
<1>5. CASE StartInvite(m) \/ \E d \in Ids : StartRevoke(m, d)
  BY <1>4, <1>5 DEF StartInvite, StartRevoke, StartsAuthenticated
<1>6. CASE RevokeDevice(m)
  BY <1>2, <1>6 DEF RevokeDevice
<1>7. CASE InviteStep(m)
  <2>1. CASE FindJoiner(m)
    <3>1. PICK e \in Pending : cli' = [cli EXCEPT ![m].at = "seal", ![m].to = e]
      BY <2>1 DEF FindJoiner
    <3>2. cli[m] \in Command
      BY <2>1 DEF FindJoiner, At, HouseholdInv, TypeOK
    <3> DEFINE c == [cli[m] EXCEPT !.at = "seal", !.to = e]
    <3>3. cli' = [cli EXCEPT ![m] = c] /\ c.at = "seal"
      BY <1>1, <3>1, <3>2 DEF TypeOK, Command
    <3> QED BY <1>1, <3>3, Moved
  <2>2. CASE \E c \in Codes : CreateInvite(m, c)
    BY <1>3, <2>2 DEF CreateInvite, Steps
  <2>3. CASE SealKey(m)
    BY <1>3, <2>3 DEF SealKey, Steps
  <2> QED
    BY <1>2, <1>7, <2>1, <2>2, <2>3
    DEF InviteStep, CreateInviteFails, Unauthorized, CompleteKeyExchange,
        CompleteKeyExchangeFails
<1> QED BY <1>5, <1>6, <1>7

LEMMA JoinStepsNotWaiting ==
    ASSUME HouseholdInv, NEW m \in Machines, JoinStep(m) \/ Stops(m)
    PROVE  NoNewWaiter
<1>1. TypeOK
  BY DEF HouseholdInv
<1>2. ASSUME Ends(m) PROVE NoNewWaiter
  BY <1>1, <1>2, Moved DEF Ends
<1>3. ASSUME NEW step, step # "wait", NEW now \in Steps, At(m, now), Goes(m, step)
      PROVE  NoNewWaiter
  <2>1. cli[m] \in Command
    BY <1>3 DEF At, HouseholdInv, TypeOK
  <2>2. cli' = [cli EXCEPT ![m] = [cli[m] EXCEPT !.at = step]]
    BY <1>1, <1>3 DEF Goes, TypeOK
  <2>3. [cli[m] EXCEPT !.at = step].at = step
    BY <2>1 DEF Command
  <2> QED BY <1>1, <1>3, <2>2, <2>3, Moved
<1>4. CASE GetKeyExchangeResult(m)
  <2> DEFINE c == [cli[m] EXCEPT !.at = "open", !.box = exchanges[cli[m].to].box]
  <2>1. cli[m] \in Command
    BY <1>4 DEF GetKeyExchangeResult, At, HouseholdInv, TypeOK
  <2>2. cli' = [cli EXCEPT ![m] = c] /\ c.at = "open"
    BY <1>1, <1>4, <2>1 DEF GetKeyExchangeResult, TypeOK, Command
  <2> QED BY <1>1, <2>2, Moved
<1>5. CASE OpenBox(m)
  BY <1>2, <1>3, <1>5 DEF OpenBox, Steps
<1>6. CASE SaveDeviceKeyPair(m) \/ SaveHouseholdKey(m) \/ SaveDeviceToken(m)
  BY <1>3, <1>6 DEF SaveDeviceKeyPair, SaveHouseholdKey, SaveDeviceToken, Saves, Steps
<1>7. CASE ResultGone(m) \/ UpdateSyncDevice(m) \/ Stops(m)
  BY <1>2, <1>7 DEF ResultGone, UpdateSyncDevice, Stops
<1> QED
  BY <1>4, <1>5, <1>6, <1>7 DEF JoinStep

LEMMA WaitersApartNext ==
    HouseholdInv /\ WaitersApart /\ [Next]_vars => WaitersApart'
<1> SUFFICES ASSUME HouseholdInv, WaitersApart, [Next]_vars PROVE WaitersApart'
  OBVIOUS
<1>1. CASE NoNewWaiter
  BY <1>1 DEF NoNewWaiter, WaitersApart
<1>2. ASSUME NEW m \in Machines, NEW c \in Codes, NEW e \in Exchanges, StartJoin(m, c, e)
      PROVE  WaitersApart'
  <2> DEFINE k == [at |-> "wait", to |-> e, from |-> invites[c].by, box |-> None]
  <2>1. cli' = [cli EXCEPT ![m] = k] /\ exchanges[e] = None
    BY <1>2 DEF StartJoin, Starts, Fresh
  <2>2. ASSUME NEW n \in Machines, n # m, NEW f \in Exchanges, Waiting(n, f)'
        PROVE  Waiting(n, f) /\ f # e
    <3>1. cli'[n] = cli[n]
      BY <2>1, <2>2 DEF HouseholdInv, TypeOK
    <3>2. Waiting(n, f)
      BY <2>2, <3>1 DEF Waiting, At
    <3>3. exchanges[f] # None
      BY <3>2 DEF Waiting, At, HouseholdInv, CommandsOK, CommandOK, JoinSteps
    <3> QED BY <2>1, <3>2, <3>3
  <2>3. \A f \in Exchanges : Waiting(m, f)' => f = e
    BY <2>1 DEF Waiting, At, HouseholdInv, TypeOK
  <2> QED
    BY <2>2, <2>3 DEF WaitersApart
<1>3. ASSUME NEW m \in Machines, AnswerLost(m) PROVE NoNewWaiter
  BY <1>3 DEF AnswerLost, NoNewWaiter, Waiting, At
<1>4. ASSUME NEW m \in Machines, NEW c \in Codes, RefuseSpent(m, c) PROVE NoNewWaiter
  BY <1>4 DEF RefuseSpent, NoNewWaiter, Waiting, At
<1>5. ASSUME NEW c \in Codes, ExpireInvite(c) PROVE NoNewWaiter
  BY <1>5 DEF ExpireInvite, NoNewWaiter, Waiting, At
<1>6. ASSUME NEW e \in Exchanges, ExpireExchange(e) PROVE NoNewWaiter
  BY <1>6 DEF ExpireExchange, NoNewWaiter, Waiting, At
<1>7. CASE UNCHANGED vars
  BY <1>7 DEF vars, NoNewWaiter, Waiting, At, WaitersApart
<1> QED
  BY <1>1, <1>2, <1>3, <1>4, <1>5, <1>6, <1>7, InviteStepsNotWaiting, JoinStepsNotWaiting
  DEF Next

\* Step by step: without a fault, an accepted joiner stays so until it takes
\* its key.
LEMMA AcceptedNext ==
    ASSUME HouseholdInv, WaitersApart, [Next]_vars, faults' = faults,
           NEW m \in Machines, NEW e \in Exchanges, Accepted(m, e)
    PROVE  Accepted(m, e)' \/ TakesKey(m)'
<1>1. /\ cli[m] # None /\ cli[m].at = "wait" /\ cli[m].to = e /\ cli[m] \in Command
      /\ exchanges[e] # None /\ exchanges[e].completed
      /\ exchanges[e].box = cli[m].from /\ exchanges[e].box # None
      /\ ~exchanges[e].expired
      /\ account[m] = None
  BY DEF Accepted, Waiting, At, Answer, HouseholdInv, TypeOK, CommandsOK, CommandOK, JoinSteps
<1>2. ~Fault
  BY DEF Fault, HouseholdInv, TypeOK
<1>3. ASSUME cli'[m] = cli[m], exchanges'[e] = exchanges[e] PROVE Accepted(m, e)'
  BY <1>1, <1>3 DEF Accepted, Waiting, At, Answer
<1>4. ASSUME NEW n \in Machines, n # m, NEW c, cli' = [cli EXCEPT ![n] = c]
      PROVE  cli'[m] = cli[m]
  BY <1>4 DEF HouseholdInv, TypeOK
<1>5. ASSUME NEW n \in Machines, Ends(n), n # m PROVE cli'[m] = cli[m]
  BY <1>4, <1>5 DEF Ends
<1>6. ASSUME NEW n \in Machines, NEW step, Goes(n, step), n # m PROVE cli'[m] = cli[m]
  BY <1>6 DEF Goes, HouseholdInv, TypeOK
<1>7. ASSUME NEW n \in Machines, NEW step, step # "wait", At(n, step) PROVE n # m
  BY <1>1, <1>7 DEF At
<1>8. ASSUME NEW n \in Machines, cli[n] = None PROVE n # m
  BY <1>1, <1>8
<1>9. ASSUME NEW n \in Machines, NEW step, NEW to, StartsAuthenticated(n, step, to)
      PROVE  Accepted(m, e)'
  <2>1. n # m /\ cli'[m] = cli[m]
    BY <1>4, <1>8, <1>9 DEF StartsAuthenticated, Starts
  <2> QED BY <1>3, <1>9, <2>1 DEF StartsAuthenticated, relay
<1>10. ASSUME NEW n \in Machines, InviteStep(n) PROVE Accepted(m, e)'
  <2>1. CASE \E c \in Codes : CreateInvite(n, c)
    BY <1>3, <1>6, <1>7, <2>1 DEF CreateInvite
  <2>2. CASE CreateInviteFails(n) \/ CompleteKeyExchangeFails(n)
    BY <1>3, <1>5, <1>7, <2>2 DEF CreateInviteFails, CompleteKeyExchangeFails, relay
  <2>3. CASE FindJoiner(n)
    <3>1. n # m
      BY <1>7, <2>3 DEF FindJoiner
    <3>2. PICK f \in Pending : cli' = [cli EXCEPT ![n].at = "seal", ![n].to = f]
      BY <2>3 DEF FindJoiner
    <3>3. cli'[m] = cli[m]
      BY <3>1, <3>2 DEF HouseholdInv, TypeOK
    <3> QED BY <1>3, <2>3, <3>3 DEF FindJoiner, relay
  <2>4. CASE SealKey(n)
    BY <1>3, <1>6, <1>7, <2>4 DEF SealKey, relay
  <2>5. CASE Unauthorized(n)
    <3>1. n # m
      BY <1>7, <2>5 DEF Unauthorized
    <3> QED BY <1>3, <1>5, <2>5, <3>1 DEF Unauthorized, relay
  <2>6. CASE CompleteKeyExchange(n)
    <3>1. n # m /\ cli'[m] = cli[m]
      BY <1>5, <1>7, <2>6 DEF CompleteKeyExchange
    <3>2. cli[n].to # e
      BY <1>1, <2>6 DEF CompleteKeyExchange, Open
    <3>3. exchanges'[e] = exchanges[e]
      BY <2>6, <3>2 DEF CompleteKeyExchange, HouseholdInv, TypeOK
    <3> QED BY <1>3, <3>1, <3>3
  <2> QED
    BY <1>10, <2>1, <2>2, <2>3, <2>4, <2>5, <2>6 DEF InviteStep
<1>11. ASSUME NEW n \in Machines, RevokeDevice(n) PROVE Accepted(m, e)'
  BY <1>3, <1>5, <1>7, <1>11 DEF RevokeDevice
<1>12. ASSUME NEW n \in Machines, NEW c \in Codes, NEW f \in Exchanges, StartJoin(n, c, f)
       PROVE  Accepted(m, e)'
  <2>1. n # m /\ cli'[m] = cli[m]
    BY <1>4, <1>8, <1>12 DEF StartJoin, Starts
  <2>2. exchanges'[e] = exchanges[e]
    BY <1>1, <1>12 DEF StartJoin, Fresh, HouseholdInv, TypeOK
  <2> QED BY <1>3, <2>1, <2>2
<1>13. ASSUME NEW n \in Machines, NEW c \in Codes, RefuseSpent(n, c) PROVE Accepted(m, e)'
  BY <1>3, <1>13 DEF RefuseSpent
<1>14. ASSUME NEW n \in Machines, JoinStep(n) PROVE Accepted(m, e)' \/ TakesKey(m)'
  <2>1. CASE GetKeyExchangeResult(n) /\ n = m
    <3>1. cli' = [cli EXCEPT ![m].at = "open", ![m].box = exchanges[e].box]
      BY <1>1, <2>1 DEF GetKeyExchangeResult
    <3>2. /\ cli'[m] \in Command
          /\ cli'[m].at = "open"
          /\ cli'[m].box = exchanges[e].box
          /\ cli'[m].from = cli[m].from
      <4> DEFINE k == [cli[m] EXCEPT !.at = "open", !.box = exchanges[e].box]
      <4>1. exchanges[e].box \in Ids \cup {None}
        BY <1>1 DEF HouseholdInv, TypeOK, Exchange
      <4>2. k \in Command /\ k.at = "open" /\ k.box = exchanges[e].box /\ k.from = cli[m].from
        BY <1>1, <4>1 DEF Command, Steps
      <4>3. cli'[m] = k
        BY <3>1 DEF HouseholdInv, TypeOK
      <4> QED BY <4>2, <4>3
    <3> QED
      BY <1>1, <3>2, HouseholdAssumption DEF TakesKey, At
  <2>2. CASE GetKeyExchangeResult(n) /\ n # m
    <3>1. Waiting(n, cli[n].to) /\ cli[n].to \in Exchanges
      BY <2>2 DEF GetKeyExchangeResult, Waiting, At, HouseholdInv, CommandsOK, CommandOK, JoinSteps
    <3>2. cli[n].to # e
      BY <2>2, <3>1 DEF WaitersApart, Accepted
    <3>3. exchanges'[e] = exchanges[e]
      BY <2>2, <3>2 DEF GetKeyExchangeResult, Cleared, HouseholdInv, TypeOK
    <3>4. cli'[m] = cli[m]
      BY <2>2 DEF GetKeyExchangeResult, HouseholdInv, TypeOK
    <3> QED BY <1>3, <3>3, <3>4
  <2>3. CASE ResultGone(n)
    <3>1. n # m
      BY <1>1, <2>3 DEF ResultGone
    <3> QED BY <1>3, <1>5, <2>3, <3>1 DEF ResultGone, relay
  <2>4. CASE OpenBox(n)
    <3>1. n # m
      BY <1>7, <2>4 DEF OpenBox
    <3> QED BY <1>3, <1>5, <1>6, <2>4, <3>1 DEF OpenBox, relay
  <2>5. CASE SaveDeviceKeyPair(n) \/ SaveHouseholdKey(n) \/ SaveDeviceToken(n)
    <3>1. n # m
      BY <1>7, <2>5 DEF SaveDeviceKeyPair, SaveHouseholdKey, SaveDeviceToken, Saves
    <3>2. cli'[m] = cli[m] /\ exchanges'[e] = exchanges[e]
      BY <1>6, <2>5, <3>1 DEF SaveDeviceKeyPair, SaveHouseholdKey, SaveDeviceToken, Saves, relay
    <3> QED BY <1>3, <3>2
  <2>6. CASE UpdateSyncDevice(n)
    BY <1>3, <1>5, <1>7, <2>6 DEF UpdateSyncDevice, relay
  <2> QED
    BY <1>14, <2>1, <2>2, <2>3, <2>4, <2>5, <2>6 DEF JoinStep
<1>15. ASSUME NEW c \in Codes, ExpireInvite(c) PROVE Accepted(m, e)'
  BY <1>3, <1>15 DEF ExpireInvite
<1>16. ASSUME NEW f \in Exchanges, ExpireExchange(f) PROVE Accepted(m, e)'
  <2>1. f # e
    BY <1>2, <1>16 DEF ExpireExchange, Accepted, Waiting
  <2>2. cli'[m] = cli[m] /\ exchanges'[e] = exchanges[e]
    BY <1>16, <2>1 DEF ExpireExchange, HouseholdInv, TypeOK
  <2> QED BY <1>3, <2>2
<1>17. CASE UNCHANGED vars
  BY <1>3, <1>17 DEF vars, relay
<1>18. \A n \in Machines : ~Stops(n) /\ ~AnswerLost(n)
  BY <1>2 DEF Stops, AnswerLost
<1> QED
  BY <1>9, <1>10, <1>11, <1>12, <1>13, <1>14, <1>15, <1>16, <1>17, <1>18
  DEF Next, StartInvite, StartRevoke

\* Once the inviter of its code has completed the exchange of a joiner that
\* polls, only a failure can keep the joiner from a key it can open.
THEOREM AcceptedJoinersGetIn == Spec => AcceptedStays
<1>1. Init => WaitersApart
  BY DEF Init, WaitersApart, Waiting, At
<1>2. Spec => [](HouseholdInv /\ WaitersApart)
  BY <1>1, HouseholdInit, HouseholdNext, WaitersApartNext, PTL DEF Spec
<1>3. ASSUME HouseholdInv, WaitersApart, [Next]_vars
      PROVE  [\A m \in Machines, e \in Exchanges :
                Accepted(m, e) /\ faults' = faults => Accepted(m, e)' \/ TakesKey(m)']_vars
  BY <1>3, AcceptedNext
<1> QED
  BY <1>2, <1>3, PTL DEF Spec, AcceptedStays

-----------------------------------------------------------------------------
(***************************************************************************)
(* The limits.  StartJoin counts the attempts of a code; that count is the *)
(* number of exchanges begun with it.                                      *)
(***************************************************************************)
Begun(c) == {e \in Exchanges : exchanges[e] # None /\ exchanges[e].code = c}

AttemptsCount(c) == invites[c] # None =>
    Cardinality(Begun(c)) = invites[c].attempts /\ invites[c].attempts <= maxInviteAttempts

LimitsInv ==
    /\ Cardinality(ActiveInvites) <= maxActiveInvites
    /\ \A c \in Codes : AttemptsCount(c)

LEMMA FiniteTables ==
    /\ \A s \in SUBSET Codes : IsFiniteSet(s) /\ Cardinality(s) \in Nat
    /\ \A s \in SUBSET Exchanges : IsFiniteSet(s) /\ Cardinality(s) \in Nat
<1>1. IsFiniteSet(Codes) /\ IsFiniteSet(Exchanges)
  BY FS_Interval, HouseholdAssumption DEF Codes, Exchanges
<1> QED
  BY <1>1, FS_Subset, FS_CardinalityType

\* Nothing the limits count grows.
NothingMore ==
    /\ \A c \in Codes : Usable(c)' => Usable(c)
    /\ \A c \in Codes : invites'[c] # None =>
        invites[c] # None /\ invites'[c].attempts = invites[c].attempts
    /\ \A c \in Codes : Begun(c)' = Begun(c)

LEMMA NothingMoreKeeps ==
    ASSUME LimitsInv, NothingMore
    PROVE  LimitsInv'
<1>1. ActiveInvites' \subseteq ActiveInvites /\ ActiveInvites \subseteq Codes
  BY DEF ActiveInvites, NothingMore
<1>2. Cardinality(ActiveInvites') <= Cardinality(ActiveInvites)
  BY <1>1, FiniteTables, FS_Subset
<1>3. Cardinality(ActiveInvites') <= maxActiveInvites
  <2>1. Cardinality(ActiveInvites') \in Nat /\ Cardinality(ActiveInvites) \in Nat
    BY <1>1, FiniteTables
  <2> QED BY <1>2, <2>1, HouseholdAssumption DEF LimitsInv
<1>4. \A c \in Codes : AttemptsCount(c)'
  BY DEF NothingMore, LimitsInv, AttemptsCount
<1> QED BY <1>3, <1>4 DEF LimitsInv

\* The codes of the exchanges are what they were.
LEMMA SameBegun ==
    ASSUME \A e \in Exchanges :
            /\ (exchanges'[e] = None) <=> (exchanges[e] = None)
            /\ exchanges[e] # None => exchanges'[e].code = exchanges[e].code
    PROVE  \A c \in Codes : Begun(c)' = Begun(c)
BY DEF Begun

LEMMA InvitesSpent ==
    ASSUME HouseholdInv, NEW b \in Codes, invites[b] # None,
           \/ invites' = [invites EXCEPT ![b].consumed = TRUE]
           \/ invites' = [invites EXCEPT ![b].expired = TRUE]
           \/ UNCHANGED invites,
           \A c \in Codes : Begun(c)' = Begun(c)
    PROVE  NothingMore
<1>1. invites[b] \in Invite
  BY DEF HouseholdInv, TypeOK
<1>2. \A c \in Codes \ {b} : invites'[c] = invites[c]
  BY DEF HouseholdInv, TypeOK
<1>3. \/ invites'[b] = [invites[b] EXCEPT !.consumed = TRUE]
      \/ invites'[b] = [invites[b] EXCEPT !.expired = TRUE]
      \/ invites'[b] = invites[b]
  BY DEF HouseholdInv, TypeOK
<1>4. /\ Usable(b)' => Usable(b)
      /\ invites'[b].attempts = invites[b].attempts
  BY <1>1, <1>3 DEF Usable, Invite
<1>5. \A c \in Codes : Usable(c)' => Usable(c)
  BY <1>2, <1>4 DEF Usable
<1> QED BY <1>2, <1>4, <1>5 DEF NothingMore

\* An exchange that exists changes in other fields than its code.
LEMMA ExchangeSameBegun ==
    ASSUME HouseholdInv, NEW e \in Exchanges, exchanges[e] # None, NEW x \in Exchange,
           exchanges' = [exchanges EXCEPT ![e] = x], x.code = exchanges[e].code
    PROVE  \A c \in Codes : Begun(c)' = Begun(c)
<1>1. x # None
  BY HouseholdAssumption
<1>2. exchanges'[e] = x /\ \A f \in Exchanges \ {e} : exchanges'[f] = exchanges[f]
  BY DEF HouseholdInv, TypeOK
<1> QED BY <1>1, <1>2, SameBegun

LEMMA CreateInviteLimits ==
    ASSUME HouseholdInv, LimitsInv, NEW m \in Machines, NEW c \in Codes, CreateInvite(m, c)
    PROVE  LimitsInv'
<1> DEFINE i == [by |-> secrets[m].token, attempts |-> 0, consumed |-> FALSE, expired |-> FALSE]
<1>1. /\ invites[c] = None
      /\ invites'[c] = i
      /\ \A b \in Codes \ {c} : invites'[b] = invites[b]
      /\ UNCHANGED exchanges
  BY DEF CreateInvite, Fresh, HouseholdInv, TypeOK
<1>2. ActiveInvites' \subseteq ActiveInvites \cup {c} /\ ActiveInvites \subseteq Codes
  BY <1>1 DEF ActiveInvites, Usable
<1>3. Cardinality(ActiveInvites') <= maxActiveInvites
  <2>1. IsFiniteSet(ActiveInvites) /\ IsFiniteSet(ActiveInvites \cup {c})
    BY <1>2, FiniteTables, FS_AddElement
  <2>2. Cardinality(ActiveInvites') <= Cardinality(ActiveInvites \cup {c})
    BY <1>2, <2>1, FS_Subset
  <2>3. Cardinality(ActiveInvites \cup {c}) <= Cardinality(ActiveInvites) + 1
    BY <1>2, <2>1, FiniteTables, FS_AddElement
  <2>4. Cardinality(ActiveInvites) < maxActiveInvites
    BY DEF CreateInvite, InviteRoom
  <2>5. /\ Cardinality(ActiveInvites) \in Nat
        /\ Cardinality(ActiveInvites') \in Nat
        /\ Cardinality(ActiveInvites \cup {c}) \in Nat
    BY <1>2, FiniteTables
  <2> QED BY <2>2, <2>3, <2>4, <2>5, HouseholdAssumption
<1>4. Begun(c) = {}
  BY <1>1 DEF Begun, HouseholdInv, CodesExist
<1>5. \A b \in Codes : Begun(b)' = Begun(b)
  BY <1>1 DEF Begun
<1>6. AttemptsCount(c)'
  BY <1>1, <1>4, <1>5, FS_EmptySet, HouseholdAssumption DEF AttemptsCount
<1>7. \A b \in Codes : AttemptsCount(b)'
  BY <1>1, <1>5, <1>6 DEF AttemptsCount, LimitsInv
<1> QED BY <1>3, <1>7 DEF LimitsInv

LEMMA StartJoinLimits ==
    ASSUME HouseholdInv, LimitsInv, NEW m \in Machines, NEW c \in Codes,
           NEW e \in Exchanges, StartJoin(m, c, e)
    PROVE  LimitsInv'
<1> DEFINE x == [code |-> c, completed |-> FALSE, expired |-> FALSE, box |-> None]
<1>1. /\ exchanges[e] = None
      /\ exchanges'[e] = x
      /\ \A f \in Exchanges \ {e} : exchanges'[f] = exchanges[f]
  BY DEF StartJoin, Fresh, HouseholdInv, TypeOK
<1>2. x # None
  <2>1. x \in Exchange
    BY DEF Exchange
  <2> QED BY <2>1, HouseholdAssumption
<1>3. /\ invites[c] \in Invite /\ invites[c] # None
      /\ invites'[c] = [invites[c] EXCEPT !.attempts = @ + 1]
      /\ \A b \in Codes \ {c} : invites'[b] = invites[b]
  BY DEF StartJoin, Usable, HouseholdInv, TypeOK
<1>4. /\ invites'[c].attempts = invites[c].attempts + 1
      /\ Usable(c)
      /\ invites[c].attempts \in Nat
      /\ invites[c].attempts < maxInviteAttempts
  BY <1>3, HouseholdAssumption DEF Invite, StartJoin, Spent
<1>5. ActiveInvites' \subseteq ActiveInvites /\ ActiveInvites \subseteq Codes
  BY <1>3, <1>4 DEF ActiveInvites, Usable
<1>6. Cardinality(ActiveInvites') <= maxActiveInvites
  <2>1. Cardinality(ActiveInvites') <= Cardinality(ActiveInvites)
    BY <1>5, FiniteTables, FS_Subset
  <2>2. Cardinality(ActiveInvites') \in Nat /\ Cardinality(ActiveInvites) \in Nat
    BY <1>5, FiniteTables
  <2> QED BY <2>1, <2>2, HouseholdAssumption DEF LimitsInv
<1>7. Begun(c)' = Begun(c) \cup {e} /\ e \notin Begun(c)
  BY <1>1, <1>2 DEF Begun
<1>8. Cardinality(Begun(c)') = Cardinality(Begun(c)) + 1
  <2>1. IsFiniteSet(Begun(c))
    BY FiniteTables DEF Begun
  <2> QED BY <1>7, <2>1, FS_AddElement
<1>9. AttemptsCount(c)'
  BY <1>3, <1>4, <1>8, HouseholdAssumption DEF AttemptsCount, LimitsInv
<1>10. \A b \in Codes \ {c} : Begun(b)' = Begun(b)
  BY <1>1, <1>2 DEF Begun
<1>11. ASSUME NEW b \in Codes \ {c} PROVE AttemptsCount(b)'
  <2>1. invites'[b] = invites[b] /\ Begun(b)' = Begun(b)
    BY <1>3, <1>10
  <2>2. AttemptsCount(b)
    BY DEF LimitsInv
  <2> QED BY <2>1, <2>2 DEF AttemptsCount
<1> QED BY <1>6, <1>9, <1>11 DEF LimitsInv

LEMMA LimitsNext == HouseholdInv /\ LimitsInv /\ [Next]_vars => LimitsInv'
<1> SUFFICES ASSUME HouseholdInv, LimitsInv, [Next]_vars PROVE LimitsInv'
  OBVIOUS
<1>1. ASSUME UNCHANGED <<invites, exchanges>> PROVE LimitsInv'
  BY <1>1 DEF LimitsInv, AttemptsCount, Begun, ActiveInvites, Usable
<1>2. ASSUME NEW m \in Machines, CompleteKeyExchange(m) PROVE LimitsInv'
  <2> DEFINE e == cli[m].to
             x == [exchanges[e] EXCEPT !.completed = TRUE, !.box = secrets[m].pair]
  <2>1. account[m] # None /\ e \in Exchanges /\ exchanges[e] # None
    BY <1>2 DEF CompleteKeyExchange, At, HouseholdInv, CommandsOK, CommandOK, JoinSteps
  <2>2. exchanges[e] \in Exchange
    BY <2>1 DEF HouseholdInv, TypeOK
  <2>3. x \in Exchange /\ x.code = exchanges[e].code
    BY <2>1, <2>2, MemberType DEF Exchange
  <2>4. exchanges' = [exchanges EXCEPT ![e] = x]
    BY <1>2 DEF CompleteKeyExchange, HouseholdInv, TypeOK
  <2>5. exchanges[e].code \in Codes /\ invites[exchanges[e].code] # None
    BY <2>1, <2>2 DEF HouseholdInv, CodesExist, Exchange
  <2>6. NothingMore
    BY <1>2, <2>1, <2>3, <2>4, <2>5, ExchangeSameBegun, InvitesSpent DEF CompleteKeyExchange
  <2> QED BY <2>6, NothingMoreKeeps
<1>3. ASSUME NEW m \in Machines, GetKeyExchangeResult(m) \/ AnswerLost(m) PROVE LimitsInv'
  <2> DEFINE e == cli[m].to
             x == [exchanges[e] EXCEPT !.box = None]
  <2>1. e \in Exchanges /\ exchanges[e] # None
    BY <1>3 DEF GetKeyExchangeResult, AnswerLost, At, HouseholdInv, CommandsOK, CommandOK,
                JoinSteps
  <2>2. exchanges[e] \in Exchange
    BY <2>1 DEF HouseholdInv, TypeOK
  <2>3. x \in Exchange /\ x.code = exchanges[e].code
    BY <2>2 DEF Exchange
  <2>4. exchanges' = [exchanges EXCEPT ![e] = x] /\ UNCHANGED invites
    BY <1>3 DEF GetKeyExchangeResult, AnswerLost, Cleared
  <2>5. exchanges[e].code \in Codes /\ invites[exchanges[e].code] # None
    BY <2>1, <2>2 DEF HouseholdInv, CodesExist, Exchange
  <2>6. NothingMore
    BY <2>1, <2>3, <2>4, <2>5, ExchangeSameBegun, InvitesSpent
  <2> QED BY <2>6, NothingMoreKeeps
<1>4. ASSUME NEW e \in Exchanges, ExpireExchange(e) PROVE LimitsInv'
  <2> DEFINE x == [exchanges[e] EXCEPT !.expired = TRUE]
  <2>1. exchanges[e] # None
    BY <1>4 DEF ExpireExchange, Pending, Completed
  <2>2. exchanges[e] \in Exchange
    BY <2>1 DEF HouseholdInv, TypeOK
  <2>3. x \in Exchange /\ x.code = exchanges[e].code
    BY <2>2 DEF Exchange
  <2>4. exchanges' = [exchanges EXCEPT ![e] = x] /\ UNCHANGED invites
    BY <1>4 DEF ExpireExchange, HouseholdInv, TypeOK
  <2>5. exchanges[e].code \in Codes /\ invites[exchanges[e].code] # None
    BY <2>1, <2>2 DEF HouseholdInv, CodesExist, Exchange
  <2>6. NothingMore
    BY <2>1, <2>3, <2>4, <2>5, ExchangeSameBegun, InvitesSpent
  <2> QED BY <2>6, NothingMoreKeeps
<1>5. ASSUME NEW c \in Codes, ExpireInvite(c) \/ \E m \in Machines : RefuseSpent(m, c)
      PROVE  LimitsInv'
  <2>1. /\ invites[c] # None
        /\ \/ invites' = [invites EXCEPT ![c].consumed = TRUE]
           \/ invites' = [invites EXCEPT ![c].expired = TRUE]
           \/ UNCHANGED invites
        /\ UNCHANGED exchanges
    BY <1>5 DEF ExpireInvite, RefuseSpent, Usable
  <2>2. \A b \in Codes : Begun(b)' = Begun(b)
    BY <2>1, SameBegun
  <2>3. NothingMore
    BY <2>1, <2>2, InvitesSpent
  <2> QED BY <2>3, NothingMoreKeeps
<1>6. ASSUME NEW m \in Machines, InviteStep(m) PROVE LimitsInv'
  <2>1. CASE \E c \in Codes : CreateInvite(m, c)
    BY <2>1, CreateInviteLimits
  <2>2. CASE \/ CreateInviteFails(m) \/ FindJoiner(m) \/ SealKey(m) \/ Unauthorized(m)
             \/ CompleteKeyExchangeFails(m)
    BY <1>1, <2>2 DEF CreateInviteFails, FindJoiner, SealKey, Unauthorized,
                      CompleteKeyExchangeFails, relay
  <2> QED
    BY <1>2, <1>6, <2>1, <2>2 DEF InviteStep
<1>7. ASSUME NEW m \in Machines, JoinStep(m) PROVE LimitsInv'
  <2>1. CASE ~GetKeyExchangeResult(m)
    BY <1>1, <1>7, <2>1 DEF JoinStep, ResultGone, OpenBox, SaveDeviceKeyPair,
        SaveHouseholdKey, SaveDeviceToken, Saves, UpdateSyncDevice, relay
  <2> QED BY <1>3, <2>1
<1>8. ASSUME NEW m \in Machines,
             \/ StartInvite(m)
             \/ \E d \in Ids : StartRevoke(m, d)
             \/ RevokeDevice(m)
             \/ Stops(m)
      PROVE  LimitsInv'
  BY <1>1, <1>8 DEF StartInvite, StartRevoke, StartsAuthenticated, RevokeDevice, Stops, relay
<1>9. CASE UNCHANGED vars
  BY <1>1, <1>9 DEF vars, relay
<1> QED
  BY <1>3, <1>4, <1>5, <1>6, <1>7, <1>8, <1>9, StartJoinLimits DEF Next

\* Whatever expires, is refused or is completed, no household has more active
\* codes than the limit, and no code begins more exchanges than its attempts.
THEOREM LimitsHold == Spec => []CodeLimits
<1>1. Init => LimitsInv
  <2> SUFFICES ASSUME Init PROVE LimitsInv
    OBVIOUS
  <2>1. ActiveInvites = {}
    BY DEF Init, ActiveInvites, Usable
  <2>2. \A c \in Codes : AttemptsCount(c)
    BY DEF Init, AttemptsCount
  <2> QED BY <2>1, <2>2, FS_EmptySet, HouseholdAssumption DEF LimitsInv
<1>2. HouseholdInv /\ LimitsInv => CodeLimits
  <2> SUFFICES ASSUME HouseholdInv, LimitsInv, NEW c \in Codes
               PROVE  Cardinality(Begun(c)) <= maxInviteAttempts
    BY DEF CodeLimits, LimitsInv, Begun
  <2>1. CASE invites[c] = None
    <3>1. Begun(c) = {}
      BY <2>1 DEF Begun, HouseholdInv, CodesExist
    <3> QED BY <3>1, FS_EmptySet, HouseholdAssumption
  <2>2. CASE invites[c] # None
    BY <2>2 DEF LimitsInv, AttemptsCount
  <2> QED BY <2>1, <2>2
<1> QED
  BY <1>1, <1>2, HouseholdInit, HouseholdNext, LimitsNext, PTL DEF Spec

-----------------------------------------------------------------------------
(***************************************************************************)
(* Household implements Admission.  The state between two requests that it *)
(* needs: whoever opens a box has claimed it, so its exchange has none     *)
(* left, and whoever revokes names a device the relay registered.          *)
(***************************************************************************)
ClaimOK(m) == cli[m] # None =>
    /\ cli[m].at \in JoinSteps \ {"wait"} =>
        Completed(cli[m].to) /\ exchanges[cli[m].to].box = None
    /\ cli[m].at = "revoke" => cli[m].to \in Registered

ClaimInv == \A m \in Machines : ClaimOK(m)

\* Claimed credentials stay claimed and registered devices stay registered.
ClaimsStay ==
    /\ \A e \in Exchanges :
        Completed(e) => Completed(e)' /\ (exchanges[e].box = None => exchanges'[e].box = None)
    /\ Registered \subseteq Registered'

LEMMA ClaimsOfExchanges ==
    ASSUME \A e \in Exchanges : Completed(e) =>
              Completed(e)' /\ (exchanges[e].box = None => exchanges'[e].box = None)
    PROVE  ClaimsStay
BY DEF ClaimsStay, Registered

LEMMA ClaimsNext ==
    ASSUME HouseholdInv, [Next]_vars
    PROVE  ClaimsStay
<1>1. ASSUME NEW e \in Exchanges, NEW x, exchanges' = [exchanges EXCEPT ![e] = x],
             Completed(e) => /\ x # None /\ x.completed
                             /\ exchanges[e].box = None => x.box = None
      PROVE  ClaimsStay
  BY <1>1, ClaimsOfExchanges DEF Completed, HouseholdInv, TypeOK
<1>2. CASE UNCHANGED exchanges
  BY <1>2 DEF ClaimsStay, Completed, Registered
<1>3. ASSUME NEW e \in Exchanges, exchanges[e] # None PROVE exchanges[e] \in Exchange
  BY <1>3 DEF HouseholdInv, TypeOK
<1>4. ASSUME NEW m \in Machines, CompleteKeyExchange(m) PROVE ClaimsStay
  <2> DEFINE e == cli[m].to
  <2>1. e \in Exchanges /\ exchanges[e] # None /\ ~exchanges[e].completed
    BY <1>4 DEF CompleteKeyExchange, At, Open, HouseholdInv, CommandsOK, CommandOK
  <2>2. exchanges' = [exchanges EXCEPT ![e] =
            [exchanges[e] EXCEPT !.completed = TRUE, !.box = secrets[m].pair]]
    BY <1>4 DEF CompleteKeyExchange, HouseholdInv, TypeOK
  <2> QED
    BY <1>1, <2>1, <2>2 DEF Completed
<1>5. ASSUME NEW m \in Machines, NEW c \in Codes, NEW e \in Exchanges, StartJoin(m, c, e)
      PROVE  ClaimsStay
  BY <1>1, <1>5 DEF StartJoin, Fresh, Completed
<1>6. ASSUME NEW m \in Machines, GetKeyExchangeResult(m) \/ AnswerLost(m)
      PROVE  ClaimsStay
  <2> DEFINE e == cli[m].to
  <2>1. e \in Exchanges /\ exchanges[e] # None /\ exchanges[e].completed
    BY <1>6 DEF GetKeyExchangeResult, AnswerLost, At, Answer, HouseholdInv, CommandsOK,
                CommandOK, JoinSteps
  <2>2. exchanges' = [exchanges EXCEPT ![e] = [exchanges[e] EXCEPT !.box = None]]
    BY <1>6 DEF GetKeyExchangeResult, AnswerLost, Cleared, HouseholdInv, TypeOK
  <2>3. [exchanges[e] EXCEPT !.box = None] \in Exchange
    BY <1>3, <2>1 DEF Exchange
  <2>4. [exchanges[e] EXCEPT !.box = None] # None
    BY <2>3, HouseholdAssumption
  <2> QED
    BY <1>1, <1>3, <2>1, <2>2, <2>4 DEF Exchange
<1>7. ASSUME NEW e \in Exchanges, ExpireExchange(e) PROVE ClaimsStay
  <2>1. exchanges[e] # None
    BY <1>7 DEF ExpireExchange, Pending, Completed
  <2>2. exchanges' = [exchanges EXCEPT ![e] = [exchanges[e] EXCEPT !.expired = TRUE]]
    BY <1>7 DEF ExpireExchange, HouseholdInv, TypeOK
  <2>3. [exchanges[e] EXCEPT !.expired = TRUE] \in Exchange
    BY <1>3, <2>1 DEF Exchange
  <2>4. [exchanges[e] EXCEPT !.expired = TRUE] # None
    BY <2>3, HouseholdAssumption
  <2> QED
    BY <1>1, <1>3, <2>1, <2>2, <2>4 DEF Exchange, Completed
<1>8. ASSUME NEW m \in Machines,
             \/ StartInvite(m) \/ RevokeDevice(m) \/ Stops(m)
             \/ InviteStep(m) /\ ~CompleteKeyExchange(m)
             \/ JoinStep(m) /\ ~GetKeyExchangeResult(m)
             \/ \E d \in Ids : StartRevoke(m, d)
             \/ \E c \in Codes : RefuseSpent(m, c)
      PROVE  UNCHANGED exchanges
  BY <1>8 DEF StartInvite, StartRevoke, StartsAuthenticated, RevokeDevice, Stops, RefuseSpent,
     InviteStep, CreateInvite, CreateInviteFails, FindJoiner, SealKey, Unauthorized,
     CompleteKeyExchangeFails, JoinStep, ResultGone, OpenBox, Saves, SaveDeviceKeyPair,
     SaveHouseholdKey, SaveDeviceToken, UpdateSyncDevice, relay
<1>9. ASSUME NEW c \in Codes, ExpireInvite(c) PROVE UNCHANGED exchanges
  BY <1>9 DEF ExpireInvite
<1> QED
  BY <1>2, <1>4, <1>5, <1>6, <1>7, <1>8, <1>9 DEF Next, vars, relay

\* A command that passes on to a later step with the exchange it has claimed.
LEMMA ClaimKept ==
    ASSUME HouseholdInv, ClaimInv, ClaimsStay, NEW m \in Machines, cli[m] # None,
           cli[m].at \in JoinSteps \ {"wait"}, NEW step \in JoinSteps, Goes(m, step)
    PROVE  ClaimOK(m)'
<1>1. cli'[m] = [cli[m] EXCEPT !.at = step]
  BY DEF Goes, HouseholdInv, TypeOK
<1>2. cli[m] \in Command
  BY DEF HouseholdInv, TypeOK
<1>3. cli'[m].at = step /\ cli'[m].to = cli[m].to
  BY <1>1, <1>2 DEF Command
<1>4. cli[m].to \in Exchanges
  BY DEF HouseholdInv, CommandsOK, CommandOK
<1>5. Completed(cli[m].to) /\ exchanges[cli[m].to].box = None
  BY DEF ClaimInv, ClaimOK
<1> QED
  BY <1>3, <1>4, <1>5 DEF ClaimOK, ClaimsStay, JoinSteps

\* One that passes on to a step of `pro invite`.
LEMMA InviteUnclaimed ==
    ASSUME HouseholdInv, NEW m \in Machines, cli[m] # None,
           NEW step \in {"poll", "complete"}, Goes(m, step)
    PROVE  ClaimOK(m)'
<1>1. cli'[m] = [cli[m] EXCEPT !.at = step] /\ cli[m] \in Command
  BY DEF Goes, HouseholdInv, TypeOK
<1>2. cli'[m].at = step
  BY <1>1 DEF Command
<1> QED
  BY <1>2 DEF ClaimOK, JoinSteps

LEMMA ClaimNext ==
    ASSUME HouseholdInv, ClaimInv, [Next]_vars, NEW m \in Machines
    PROVE  ClaimOK(m)'
<1>1. ClaimsStay
  BY ClaimsNext
<1>2. ASSUME cli'[m] = cli[m] PROVE ClaimOK(m)'
  <2>1. ASSUME cli[m] # None, cli[m].at \in JoinSteps \ {"wait"} PROVE cli[m].to \in Exchanges
    BY <2>1 DEF HouseholdInv, CommandsOK, CommandOK
  <2> QED
    BY <1>1, <1>2, <2>1 DEF ClaimInv, ClaimOK, ClaimsStay
<1>3. ASSUME cli'[m] = None PROVE ClaimOK(m)'
  BY <1>3 DEF ClaimOK
<1>4. cli \in [Machines -> Command \cup {None}]
  BY DEF HouseholdInv, TypeOK
<1>5. ASSUME NEW d \in Ids, StartRevoke(m, d) PROVE ClaimOK(m)'
  <2>1. Starts(m, "revoke", d, None) /\ d \in Registered
    BY <1>5 DEF StartRevoke, StartsAuthenticated
  <2>2. cli'[m] = [at |-> "revoke", to |-> d, from |-> None, box |-> None]
    BY <1>4, <2>1 DEF Starts
  <2> QED
    BY <1>1, <2>1, <2>2 DEF ClaimOK, ClaimsStay, JoinSteps
<1>6. CASE InviteStep(m)
  <2>1. ASSUME NEW c \in Codes, CreateInvite(m, c) PROVE ClaimOK(m)'
    BY <2>1, InviteUnclaimed DEF CreateInvite, At
  <2>2. CASE FindJoiner(m)
    <3>1. PICK e \in Pending : cli' = [cli EXCEPT ![m].at = "seal", ![m].to = e]
      BY <2>2 DEF FindJoiner
    <3>2. cli[m] \in Command
      BY <1>4, <2>2 DEF FindJoiner, At
    <3>3. cli'[m].at = "seal"
      BY <1>4, <3>1, <3>2 DEF Command
    <3> QED
      BY <3>3 DEF ClaimOK, JoinSteps
  <2>3. CASE SealKey(m)
    BY <2>3, InviteUnclaimed DEF SealKey, At
  <2>4. ASSUME Ends(m) PROVE ClaimOK(m)'
    BY <1>3, <1>4, <2>4 DEF Ends
  <2> QED
    BY <1>6, <2>1, <2>2, <2>3, <2>4 DEF InviteStep, CreateInviteFails, Unauthorized,
       CompleteKeyExchange, CompleteKeyExchangeFails
<1>7. CASE JoinStep(m)
  <2>1. CASE GetKeyExchangeResult(m)
    <3> DEFINE e == cli[m].to
    <3>1. /\ cli[m] \in Command /\ e \in Exchanges
          /\ exchanges[e] \in Exchange /\ exchanges[e].completed
      BY <1>4, <2>1 DEF GetKeyExchangeResult, At, Answer, HouseholdInv, CommandsOK,
                        CommandOK, JoinSteps, TypeOK
    <3>2. /\ exchanges'[e] = [exchanges[e] EXCEPT !.box = None]
          /\ cli'[m].at = "open" /\ cli'[m].to = e
      BY <1>4, <2>1, <3>1 DEF GetKeyExchangeResult, Cleared, HouseholdInv, TypeOK, Command
    <3>3. exchanges'[e] \in Exchange /\ exchanges'[e].completed /\ exchanges'[e].box = None
      BY <3>1, <3>2 DEF Exchange
    <3>4. exchanges'[e] # None
      BY <3>3, HouseholdAssumption
    <3> QED
      BY <3>2, <3>3, <3>4 DEF ClaimOK, Completed
  <2>2. CASE ResultGone(m) \/ UpdateSyncDevice(m)
    BY <1>3, <1>4, <2>2 DEF ResultGone, UpdateSyncDevice, Ends
  <2>3. CASE OpenBox(m)
    <3>1. cli[m] # None /\ cli[m].at = "open" /\ (Goes(m, "pair") \/ Ends(m))
      BY <2>3 DEF OpenBox, At
    <3> QED
      BY <1>1, <1>3, <1>4, <3>1, ClaimKept DEF JoinSteps, Ends
  <2>4. CASE SaveDeviceKeyPair(m) \/ SaveHouseholdKey(m) \/ SaveDeviceToken(m)
    BY <1>1, <2>4, ClaimKept DEF SaveDeviceKeyPair, SaveHouseholdKey, SaveDeviceToken, Saves,
       At, JoinSteps
  <2> QED
    BY <1>7, <2>1, <2>2, <2>3, <2>4 DEF JoinStep
<1>8. CASE StartInvite(m) \/ \E c \in Codes, e \in Exchanges : StartJoin(m, c, e)
  <2>1. CASE StartInvite(m)
    <3>1. Starts(m, "invite", None, None)
      BY <2>1 DEF StartInvite, StartsAuthenticated
    <3>2. cli'[m] = [at |-> "invite", to |-> None, from |-> None, box |-> None]
      BY <1>4, <3>1 DEF Starts
    <3> QED
      BY <3>2 DEF ClaimOK, JoinSteps
  <2>2. ASSUME NEW c \in Codes, NEW e \in Exchanges, StartJoin(m, c, e)
        PROVE  ClaimOK(m)'
    <3>1. Starts(m, "wait", e, invites[c].by)
      BY <2>2 DEF StartJoin
    <3>2. cli'[m] = [at |-> "wait", to |-> e, from |-> invites[c].by, box |-> None]
      BY <1>4, <3>1 DEF Starts
    <3> QED
      BY <3>2 DEF ClaimOK, JoinSteps
  <2> QED
    BY <1>8, <2>1, <2>2
<1>9. CASE RevokeDevice(m) \/ Stops(m)
  BY <1>3, <1>4, <1>9 DEF RevokeDevice, Stops, Ends
<1>10. ASSUME NEW n \in Machines,
              \/ AnswerLost(n) \/ \E c \in Codes : RefuseSpent(n, c)
              \/ \E c \in Codes : ExpireInvite(c)
              \/ \E e \in Exchanges : ExpireExchange(e)
       PROVE  cli'[m] = cli[m]
  BY <1>10 DEF AnswerLost, RefuseSpent, ExpireInvite, ExpireExchange
<1>11. ASSUME NEW n \in Machines, n # m,
              \/ StartInvite(n) \/ InviteStep(n) \/ RevokeDevice(n) \/ JoinStep(n) \/ Stops(n)
              \/ \E d \in Ids : StartRevoke(n, d)
              \/ \E c \in Codes, e \in Exchanges : StartJoin(n, c, e)
       PROVE  cli'[m] = cli[m]
  BY <1>4, <1>11 DEF StartInvite, StartRevoke, StartsAuthenticated, Starts, RevokeDevice,
     Stops, Ends, Goes, StartJoin, InviteStep, CreateInvite, CreateInviteFails, FindJoiner,
     SealKey, Unauthorized, CompleteKeyExchange, CompleteKeyExchangeFails, JoinStep,
     GetKeyExchangeResult, ResultGone, OpenBox, Saves, SaveDeviceKeyPair,
     SaveHouseholdKey, SaveDeviceToken, UpdateSyncDevice
<1> QED
  BY <1>2, <1>5, <1>6, <1>7, <1>8, <1>9, <1>10, <1>11 DEF Next, vars

-----------------------------------------------------------------------------
(***************************************************************************)
(* Stages.  An attempt's stage depends on its exchange alone.              *)
(***************************************************************************)
Stages == [d \in Ids |-> Stage(d)]
Inside == {account[m] : m \in Machines} \ {None}

StageIs(e) ==
    /\ exchanges[e] = None => Stage(e) = "new"
    /\ exchanges[e] # None /\ ~exchanges[e].completed => Stage(e) = "asked"
    /\ Completed(e) /\ exchanges[e].box # None => Stage(e) = "accepted"
    /\ Completed(e) /\ exchanges[e].box = None => Stage(e) = "claimed"

LEMMA StageCases ==
    ASSUME NEW e \in Exchanges
    PROVE  StageIs(e) /\ StageIs(e)' /\ e \in Ids /\ Stage(First) = "claimed"
<1>1. e # First /\ e \in Ids
  BY DEF Exchanges, First, Ids
<1>2. StageIs(e)
  BY <1>1 DEF StageIs, Stage, Completed
<1>3. StageIs(e)'
  BY <1>1 DEF StageIs, Stage, Completed
<1> QED
  BY <1>1, <1>2, <1>3 DEF Stage

\* One exchange changes: only the stage of its attempt may.
LEMMA OneStage ==
    ASSUME NEW e \in Exchanges, NEW x, exchanges \in [Exchanges -> Exchange \cup {None}],
           exchanges' = [exchanges EXCEPT ![e] = x]
    PROVE  Stages' = [Stages EXCEPT ![e] = Stage(e)'] /\ e \in Ids /\ Stages[e] = Stage(e)
<1>1. e \in Ids
  BY DEF Ids
<1>2. ASSUME NEW d \in Ids, d # e PROVE Stage(d)' = Stage(d)
  <2>1. CASE d = First
    BY <2>1 DEF Stage
  <2>2. CASE d # First
    <3>1. d \in Exchanges /\ exchanges'[d] = exchanges[d]
      BY <1>2, <2>2 DEF Ids
    <3> QED
      BY <3>1 DEF Stage, Completed
  <2> QED
    BY <2>1, <2>2
<1> QED
  BY <1>1, <1>2 DEF Stages

-----------------------------------------------------------------------------
(***************************************************************************)
(* Step by step.                                                           *)
(***************************************************************************)
LEMMA JoinAsks ==
    ASSUME HouseholdInv, NEW m \in Machines, NEW c \in Codes, NEW e \in Exchanges,
           StartJoin(m, c, e)
    PROVE  Promise!Ask(e)
<1> DEFINE x == [code |-> c, completed |-> FALSE, expired |-> FALSE, box |-> None]
<1>1. exchanges[e] = None /\ exchanges' = [exchanges EXCEPT ![e] = x]
  BY DEF StartJoin, Fresh
<1>2. x \in Exchange
  BY DEF Exchange
<1>3. exchanges'[e] = x /\ x # None /\ ~x.completed
  BY <1>1, <1>2, HouseholdAssumption DEF HouseholdInv, TypeOK
<1>4. Stage(e) = "new" /\ Stage(e)' = "asked"
  BY <1>1, <1>3, StageCases DEF StageIs
<1>5. Stages' = [Stages EXCEPT ![e] = "asked"] /\ Stages[e] = "new"
  BY <1>1, <1>4, OneStage DEF HouseholdInv, TypeOK
<1>6. UNCHANGED <<Inside, revoked>>
  BY DEF StartJoin, Inside
<1> QED
  BY <1>5, <1>6 DEF Promise!Ask, Promise!Advance, Stages, Inside

LEMMA CompletionAccepts ==
    ASSUME HouseholdInv, NEW m \in Machines, CompleteKeyExchange(m)
    PROVE  \E e \in Ids : Promise!Accept(e)
<1>1. PICK e \in Exchanges : e = cli[m].to
  BY DEF CompleteKeyExchange, At, HouseholdInv, CommandsOK, CommandOK
<1> DEFINE x == [exchanges[e] EXCEPT !.completed = TRUE, !.box = secrets[m].pair]
<1>2. /\ account[m] # None /\ exchanges[e] # None /\ exchanges[e] \in Exchange
      /\ ~exchanges[e].completed
  BY <1>1 DEF CompleteKeyExchange, At, Open, HouseholdInv, CommandsOK, CommandOK,
              JoinSteps, TypeOK
<1>3. secrets[m].pair \in Ids /\ secrets[m].pair # None
  BY <1>2, MemberType, HouseholdAssumption
<1>4. x \in Exchange /\ x.completed /\ x.box # None
  BY <1>2, <1>3 DEF Exchange
<1>5. exchanges' = [exchanges EXCEPT ![e] = x]
  BY <1>1 DEF CompleteKeyExchange, HouseholdInv, TypeOK
<1>6. exchanges'[e] = x /\ x # None
  BY <1>4, <1>5, HouseholdAssumption DEF HouseholdInv, TypeOK
<1>7. Stage(e) = "asked" /\ Stage(e)' = "accepted"
  BY <1>2, <1>4, <1>6, StageCases DEF StageIs, Completed
<1>8. Stages' = [Stages EXCEPT ![e] = "accepted"] /\ Stages[e] = "asked" /\ e \in Ids
  BY <1>5, <1>7, OneStage DEF HouseholdInv, TypeOK
<1>9. UNCHANGED <<Inside, revoked>>
  BY DEF CompleteKeyExchange, Inside
<1> QED
  BY <1>8, <1>9 DEF Promise!Accept, Promise!Advance, Stages, Inside

LEMMA ResultClaims ==
    ASSUME HouseholdInv, NEW m \in Machines, GetKeyExchangeResult(m) \/ AnswerLost(m)
    PROVE  \E e \in Ids : Promise!Claim(e)
<1>1. PICK e \in Exchanges : e = cli[m].to /\ exchanges[e] # None
  BY DEF GetKeyExchangeResult, AnswerLost, At, HouseholdInv, CommandsOK, CommandOK, JoinSteps
<1> DEFINE x == [exchanges[e] EXCEPT !.box = None]
<1>2. exchanges[e] \in Exchange /\ exchanges[e].completed /\ exchanges[e].box # None
  BY <1>1 DEF GetKeyExchangeResult, AnswerLost, Answer, HouseholdInv, TypeOK
<1>3. x \in Exchange /\ x.completed /\ x.box = None
  BY <1>2 DEF Exchange
<1>4. exchanges' = [exchanges EXCEPT ![e] = x]
  BY <1>1 DEF GetKeyExchangeResult, AnswerLost, Cleared, HouseholdInv, TypeOK
<1>5. exchanges'[e] = x /\ x # None
  BY <1>3, <1>4, HouseholdAssumption DEF HouseholdInv, TypeOK
<1>6. Stage(e) = "accepted" /\ Stage(e)' = "claimed"
  BY <1>1, <1>2, <1>3, <1>5, StageCases DEF StageIs, Completed
<1>7. Stages' = [Stages EXCEPT ![e] = "claimed"] /\ Stages[e] = "accepted" /\ e \in Ids
  BY <1>4, <1>6, OneStage DEF HouseholdInv, TypeOK
<1>8. UNCHANGED <<Inside, revoked>>
  BY DEF GetKeyExchangeResult, AnswerLost, Inside
<1> QED
  BY <1>7, <1>8 DEF Promise!Claim, Promise!Advance, Stages, Inside

LEMMA AccountEnters ==
    ASSUME HouseholdInv, ClaimInv, NEW m \in Machines, UpdateSyncDevice(m)
    PROVE  \E e \in Ids : Promise!Enter(e)
<1>1. PICK e \in Exchanges : e = cli[m].to /\ account[m] = None
  BY DEF UpdateSyncDevice, At, HouseholdInv, CommandsOK, CommandOK, JoinSteps
<1>2. Completed(e) /\ exchanges[e].box = None
  BY <1>1 DEF UpdateSyncDevice, At, ClaimInv, ClaimOK, JoinSteps
<1>3. e \in Ids /\ Stages[e] = "claimed"
  BY <1>2, StageCases DEF StageIs, Stages
<1>4. e # None
  BY <1>3, HouseholdAssumption
<1>5. account' = [account EXCEPT ![m] = e] /\ UNCHANGED <<exchanges, revoked>>
  BY <1>1 DEF UpdateSyncDevice, relay
<1>6. Inside' = Inside \cup {e}
  BY <1>1, <1>4, <1>5 DEF Inside, HouseholdInv, TypeOK
<1>7. Stages' = Stages
  BY <1>5 DEF Stages, Stage, Completed
<1> QED
  BY <1>3, <1>5, <1>6, <1>7 DEF Promise!Enter, Stages, Inside

LEMMA RevocationBars ==
    ASSUME HouseholdInv, ClaimInv, NEW m \in Machines, RevokeDevice(m)
    PROVE  \E d \in Ids : Promise!Bar(d)
<1>1. PICK d \in Ids : d = cli[m].to /\ d \in Registered
  BY DEF RevokeDevice, At, HouseholdInv, CommandsOK, CommandOK, ClaimInv, ClaimOK
<1>2. Stages[d] \in {"accepted", "claimed"}
  <2>1. CASE d = First
    BY <2>1 DEF Stages, Stage, Ids
  <2>2. CASE d # First
    <3>1. d \in Exchanges /\ Completed(d)
      BY <1>1, <2>2 DEF Registered
    <3> QED
      BY <3>1, StageCases DEF StageIs, Stages
  <2> QED
    BY <2>1, <2>2
<1>3. revoked' = revoked \cup {d} /\ UNCHANGED <<exchanges, account>>
  BY <1>1 DEF RevokeDevice
<1>4. UNCHANGED <<Stages, Inside>>
  BY <1>3 DEF Stages, Stage, Completed, Inside
<1> QED
  BY <1>2, <1>3, <1>4 DEF Promise!Bar, Stages, Inside

\* An expiry leaves every attempt at its stage.
LEMMA ExpiryStutters ==
    ASSUME HouseholdInv, NEW e \in Exchanges, ExpireExchange(e)
    PROVE  UNCHANGED <<Stages, Inside, revoked>>
<1> DEFINE x == [exchanges[e] EXCEPT !.expired = TRUE]
<1>1. exchanges[e] # None /\ exchanges[e] \in Exchange
  BY DEF ExpireExchange, Pending, Completed, HouseholdInv, TypeOK
<1>2. exchanges' = [exchanges EXCEPT ![e] = x]
  BY DEF ExpireExchange, HouseholdInv, TypeOK
<1>3. /\ x \in Exchange /\ x.completed = exchanges[e].completed /\ x.box = exchanges[e].box
      /\ x # None
  <2>1. /\ x \in Exchange
        /\ x.completed = exchanges[e].completed /\ x.box = exchanges[e].box
    BY <1>1 DEF Exchange
  <2> QED
    BY <2>1, HouseholdAssumption
<1>4. exchanges'[e] = x
  BY <1>2 DEF HouseholdInv, TypeOK
<1>5. Stage(e)' = Stage(e)
  BY <1>1, <1>3, <1>4, StageCases DEF StageIs, Completed
<1>6. Stages' = [Stages EXCEPT ![e] = Stages[e]] /\ e \in Ids
  BY <1>2, <1>5, OneStage DEF HouseholdInv, TypeOK
<1>7. Stages' = Stages
  BY <1>6 DEF Stages
<1> QED
  BY <1>7 DEF ExpireExchange, Inside

\* Everything else is a stutter of Admission.
LEMMA OthersStutter ==
    ASSUME NEW m \in Machines,
           \/ StartInvite(m) \/ Stops(m)
           \/ InviteStep(m) /\ ~CompleteKeyExchange(m)
           \/ JoinStep(m) /\ ~GetKeyExchangeResult(m) /\ ~UpdateSyncDevice(m)
           \/ \E d \in Ids : StartRevoke(m, d)
           \/ \E c \in Codes : RefuseSpent(m, c)
           \/ \E c \in Codes : ExpireInvite(c)
    PROVE  UNCHANGED <<exchanges, account, revoked>>
BY DEF StartInvite, StartRevoke, StartsAuthenticated, Stops, RefuseSpent,
   InviteStep, CreateInvite, CreateInviteFails, FindJoiner, SealKey, Unauthorized,
   CompleteKeyExchangeFails, JoinStep, ResultGone, OpenBox, Saves, SaveDeviceKeyPair,
   SaveHouseholdKey, SaveDeviceToken, ExpireInvite, relay

LEMMA StepAdmits ==
    ASSUME HouseholdInv, ClaimInv, [Next]_vars
    PROVE  [Promise!Next]_<<Stages, Inside, revoked>>
<1>1. ASSUME UNCHANGED <<exchanges, account, revoked>>
      PROVE  UNCHANGED <<Stages, Inside, revoked>>
  BY <1>1 DEF Stages, Stage, Completed, Inside
<1>2. ASSUME NEW e \in Exchanges, Promise!Ask(e) PROVE Promise!Next
  BY <1>2 DEF Promise!Next, Ids
<1>3. ASSUME NEW m \in Machines, JoinStep(m)
      PROVE  Promise!Next \/ UNCHANGED <<Stages, Inside, revoked>>
  BY <1>1, <1>3, ResultClaims, AccountEnters, OthersStutter DEF Promise!Next
<1>4. ASSUME NEW m \in Machines, InviteStep(m)
      PROVE  Promise!Next \/ UNCHANGED <<Stages, Inside, revoked>>
  BY <1>1, <1>4, CompletionAccepts, OthersStutter DEF Promise!Next
<1>5. ASSUME NEW m \in Machines, AnswerLost(m) PROVE Promise!Next
  BY <1>5, ResultClaims DEF Promise!Next
<1>6. ASSUME NEW m \in Machines, RevokeDevice(m) PROVE Promise!Next
  BY <1>6, RevocationBars DEF Promise!Next
<1>7. ASSUME NEW m \in Machines,
             \/ StartInvite(m) \/ Stops(m)
             \/ \E d \in Ids : StartRevoke(m, d)
             \/ \E c \in Codes : RefuseSpent(m, c)
      PROVE  UNCHANGED <<Stages, Inside, revoked>>
  BY <1>1, <1>7, OthersStutter
<1>8. ASSUME NEW c \in Codes, ExpireInvite(c) PROVE UNCHANGED <<Stages, Inside, revoked>>
  BY <1>1, <1>8 DEF ExpireInvite
<1>9. CASE UNCHANGED vars
  BY <1>1, <1>9 DEF vars, relay
<1> QED
  BY <1>2, <1>3, <1>4, <1>5, <1>6, <1>7, <1>8, <1>9, JoinAsks, ExpiryStutters DEF Next

\* Nobody is inside a household who was not accepted by a member and did not
\* claim the credentials, and nobody is accepted, or claims, twice: whatever
\* commands are interrupted, answers lost, exchanges expired, devices revoked.
THEOREM AdmissionImplemented == Spec => ImplementsAdmission
<1> DEFINE Inv == HouseholdInv /\ ClaimInv
<1>1. Init => Inv
  <2>1. Init => ClaimInv
    BY DEF Init, ClaimInv, ClaimOK
  <2> QED
    BY <2>1, HouseholdInit
<1>2. Inv /\ [Next]_vars => Inv'
  BY HouseholdNext, ClaimNext DEF ClaimInv
<1>3. Init => Promise!Init
  <2> SUFFICES ASSUME Init PROVE Promise!Init
    OBVIOUS
  <2>1. \A d \in Ids : Stage(d) = IF d = First THEN "claimed" ELSE "new"
    <3>1. Stage(First) = "claimed"
      BY DEF Stage
    <3>2. ASSUME NEW e \in Exchanges PROVE e # First /\ Stage(e) = "new"
      <4>1. e # First /\ exchanges[e] = None
        BY DEF Init, Exchanges, First
      <4> QED
        BY <4>1, StageCases DEF StageIs
    <3> QED
      BY <3>1, <3>2 DEF Ids
  <2>2. Inside = {First}
    BY HouseholdAssumption DEF Init, Inside, Ids
  <2> QED
    BY <2>1, <2>2 DEF Init, Promise!Init, Inside
<1>4. Inv /\ [Next]_vars => [Promise!Next]_<<Stages, Inside, revoked>>
  BY StepAdmits
<1> QED
  BY <1>1, <1>2, <1>3, <1>4, PTL
  DEF Spec, ImplementsAdmission, Promise!Spec, Stages, Inside

=============================================================================
