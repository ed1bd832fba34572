------------------------------ MODULE AccountCache ------------------------------
(***************************************************************************)
(* The token accounts that every page of the shop works with               *)
(* (common/contexts/accounts.tsx): one cache for all wallets, filled by a  *)
(* snapshot of the connected wallet's accounts, kept up by a subscription  *)
(* of each cached account and one of the whole token program, and the list *)
(* of the connected wallet's accounts that the pages see.                  *)
(*                                                                         *)
(* A state of an account is its place in the account's history on chain:   *)
(* TRUE for a state that can be parsed, FALSE for one with no data left (a *)
(* wrapped SOL account that was closed).  What else it holds is left out,  *)
(* and so are mints (useMint) and the wallet's own SOL (UseNativeAccount). *)
(***************************************************************************)
EXTENDS Integers, Sequences, SequencesExt, FiniteSets

CONSTANTS
  Wallets, Nobody,
  Accounts,
  Owner,         \* of each account
  MaxChanges,    \* bound on the states of each account
  MaxSwitches    \* bound on the changes of the wallet

ASSUME AccountCacheAssumption ==
  /\ Nobody \notin Wallets /\ Owner \in [Accounts -> Wallets]
  /\ MaxChanges \in [Accounts -> Nat] /\ MaxSwitches \in Nat

VARIABLES
  chain,      \* of each account: its states so far
  wallet,     \* the connected wallet
  switches,
  cached,     \* genericCache: the place of the state it holds, or 0
  owners,     \* PRECACHED_OWNERS
  snapshots,  \* the calls of getTokenAccountsByOwner that are under way
  sub,        \* of each account: onAccountChange
  subSeen,    \* of each account: the last state it was told of
  feed,       \* onProgramAccountChange of the connected wallet
  feedSeen,   \* of each account: the last state it was told of
  listed      \* userAccounts: of each account the state that is shown, or 0

cacheVars == <<chain, wallet, switches, cached, owners, snapshots, sub, subSeen, feed, feedSeen, listed>>
page == <<wallet, switches, owners, feed>>

Count(k) == Len(chain[k])

CacheInit ==
  /\ chain = [k \in Accounts |-> <<>>]
  /\ wallet = Nobody /\ switches = 0 /\ owners = {} /\ snapshots = <<>>
  /\ cached = [k \in Accounts |-> 0] /\ listed = [k \in Accounts |-> 0]
  /\ sub = [k \in Accounts |-> "none"] /\ subSeen = [k \in Accounts |-> 0]
  /\ feed = "none" /\ feedSeen = [k \in Accounts |-> 0]

(***************************************************************************)
(*                                The cache                                *)
(***************************************************************************)
(* A mutation of the next one: what is in the cache already is kept.       *)
AddNew(cache, k, v) == IF chain[k][v] /\ cache[k] = 0 THEN [cache EXCEPT ![k] = v] ELSE cache

(* cache.add with TokenAccountParser: whatever comes last is kept, except  *)
(* a state that cannot be parsed.                                          *)
Add(cache, k, v) == IF chain[k][v] THEN [cache EXCEPT ![k] = v] ELSE cache

(* The first state of an account in the cache asks for a subscription.     *)
Subscribed(cache) ==
  [k \in Accounts |-> IF cached[k] = 0 /\ cache[k] # 0 THEN "asked" ELSE sub[k]]

selectUserAccounts(cache, w) == [k \in Accounts |-> IF Owner[k] = w THEN cache[k] ELSE 0]

(* A mutation of the next one: the list is what the callback selected.     *)
ListOfCallback(cache, then, now) == selectUserAccounts(cache, then)

(* setTokenAccounts: whatever list a callback of the wallet "then" hands   *)
(* over, the effect selects the accounts of the wallet of now.             *)
setTokenAccounts(cache, then, now) == selectUserAccounts(cache, now)

(***************************************************************************)
(*                               The wallet                                *)
(***************************************************************************)
(* The effects of a new wallet: a snapshot, and a subscription in place of *)
(* the earlier one.  The calls under way go on.                            *)
Connect(w) ==
  /\ w # wallet /\ switches < MaxSwitches
  /\ wallet' = w /\ switches' = switches + 1
  /\ listed' = selectUserAccounts(cached, w)
  /\ feed' = IF w = Nobody THEN "none" ELSE "asked"
  /\ feedSeen' = [k \in Accounts |-> 0]
  /\ IF w = Nobody THEN UNCHANGED <<owners, snapshots>>
     ELSE /\ owners' = owners \cup {w}
          /\ snapshots' = Append(snapshots, [owner |-> w, answered |-> FALSE,
                                             states |-> [k \in Accounts |-> 0]])
  /\ UNCHANGED <<chain, cached, sub, subSeen>>

(* precacheUserTokenAccounts: the node takes the snapshot ...              *)
AnswerSnapshot(i) ==
  /\ i \in DOMAIN snapshots /\ ~snapshots[i].answered
  /\ snapshots' = [snapshots EXCEPT ![i].answered = TRUE,
       ![i].states = [k \in Accounts |->
          IF Owner[k] = snapshots[i].owner /\ chain[k] # <<>> /\ Last(chain[k]) THEN Count(k) ELSE 0]]
  /\ UNCHANGED <<chain, page, cached, sub, subSeen, feedSeen, listed>>

(* ... and it arrives, by now of another wallet perhaps.                   *)
precacheUserTokenAccounts(i) ==
  /\ i \in DOMAIN snapshots /\ snapshots[i].answered
  /\ cached' = [k \in Accounts |-> IF snapshots[i].states[k] = 0 THEN cached[k]
                                   ELSE Add(cached, k, snapshots[i].states[k])[k]]
  /\ sub' = Subscribed(cached')
  /\ listed' = setTokenAccounts(cached', snapshots[i].owner, wallet)
  /\ snapshots' = RemoveAt(snapshots, i)
  /\ UNCHANGED <<chain, page, subSeen, feedSeen>>

SnapshotFails(i) ==
  /\ i \in DOMAIN snapshots
  /\ snapshots' = RemoveAt(snapshots, i)
  /\ UNCHANGED <<chain, page, cached, sub, subSeen, feedSeen, listed>>

(***************************************************************************)
(*                            The subscriptions                            *)
(***************************************************************************)
(* The node tells of the changes from the moment it has the subscription.  *)
AccountGoesLive(k) ==
  /\ sub[k] = "asked"
  /\ sub' = [sub EXCEPT ![k] = "live"] /\ subSeen' = [subSeen EXCEPT ![k] = Count(k)]
  /\ UNCHANGED <<chain, page, cached, snapshots, feedSeen, listed>>

FeedGoesLive ==
  /\ feed = "asked"
  /\ feed' = "live" /\ feedSeen' = [k \in Accounts |-> Count(k)]
  /\ UNCHANGED <<chain, wallet, switches, owners, cached, snapshots, sub, subSeen, listed>>

onAccountChange(k) ==
  /\ sub[k] = "live" /\ subSeen[k] < Count(k)
  /\ subSeen' = [subSeen EXCEPT ![k] = @ + 1]
  /\ cached' = Add(cached, k, subSeen[k] + 1)
  /\ UNCHANGED <<chain, page, snapshots, sub, feedSeen, listed>>

(* It waits for more confirmations than the subscription of the account,   *)
(* and never hears of an account that was closed.                          *)
onProgramAccountChange(k) ==
  LET v == feedSeen[k] + 1
      taken == chain[k][v] /\ Owner[k] \in owners
  IN /\ feed = "live" /\ v <= Count(k)
     /\ sub[k] = "live" => v <= subSeen[k]
     /\ feedSeen' = [feedSeen EXCEPT ![k] = v]
     /\ cached' = IF taken THEN Add(cached, k, v) ELSE cached
     /\ sub' = Subscribed(cached')
     /\ listed' = IF taken THEN setTokenAccounts(cached', wallet, wallet) ELSE listed
     /\ UNCHANGED <<chain, page, snapshots, subSeen>>

(* A transaction changes, makes or closes an account.                      *)
Change(k) ==
  /\ Count(k) < MaxChanges[k]
  /\ \E open \in BOOLEAN :
       /\ open \/ (chain[k] # <<>> /\ Last(chain[k]))
       /\ chain' = [chain EXCEPT ![k] = Append(@, open)]
  /\ UNCHANGED <<page, cached, snapshots, sub, subSeen, feedSeen, listed>>

CacheNext ==
  \/ \E w \in Wallets \cup {Nobody} : Connect(w)
  \/ \E i \in 1..MaxSwitches :
       AnswerSnapshot(i) \/ precacheUserTokenAccounts(i) \/ SnapshotFails(i)
  \/ \E k \in Accounts :
       AccountGoesLive(k) \/ onAccountChange(k) \/ onProgramAccountChange(k) \/ Change(k)
  \/ FeedGoesLive

CacheSpec == CacheInit /\ [][CacheNext]_cacheVars

(* The node answers, and the websocket of the connection goes on.          *)
CacheFairSpec ==
  /\ CacheSpec /\ WF_cacheVars(FeedGoesLive)
  /\ \A i \in 1..MaxSwitches : WF_cacheVars(AnswerSnapshot(i)) /\ WF_cacheVars(precacheUserTokenAccounts(i))
  /\ \A k \in Accounts :
       WF_cacheVars(AccountGoesLive(k)) /\ WF_cacheVars(onAccountChange(k)) /\ WF_cacheVars(onProgramAccountChange(k))

(***************************************************************************)
(*                               Properties                                *)
(***************************************************************************)
(* However late the snapshot of an earlier wallet comes, the pages never   *)
(* list another wallet's account as the user's own (AccountsProvider).     *)
OnlyOwnAccounts == \A k \in Accounts : listed[k] # 0 => Owner[k] = wallet

(* A change made while the program is listened to and no snapshot is under *)
(* way is shown, and the pages never fall behind it again unless its owner *)
(* disconnects.                                                            *)
Announced(k, v) ==
  /\ wallet = Owner[k] /\ feed = "live" /\ snapshots = <<>>
  /\ feedSeen[k] < v /\ v <= Count(k) /\ chain[k][v]

ChangesShown ==
  \A k \in Accounts : \A v \in 1..MaxChanges[k] :
    [](Announced(k, v) => <>[](listed[k] >= v) \/ <>(wallet # Owner[k]))
=================================================================================
