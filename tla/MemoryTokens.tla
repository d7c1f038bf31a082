---------------------------- MODULE MemoryTokens ----------------------------
(***************************************************************************)
(* The token store in memory: memoryTokenStore of pkg/auth/token_store.go, *)
(* which stands in for redis where there is none.  The tokens of one user: *)
(* its id is the key, and the keys do not touch each other.                *)
(*                                                                         *)
(* Every Set starts a timer, whose goroutine then hands the id to the one  *)
(* goroutine that deletes.  The id and not the token is handed over, and   *)
(* neither the timer nor the channel says when it will be received, so an  *)
(* older token's timer may take a newer token away.                        *)
(***************************************************************************)
EXTENDS Naturals

CONSTANTS
  Getters,   \* calls of Get
  Timeout,   \* how long a token is kept
  MaxTick,   \* bound: time
  MaxSets    \* bound: calls of Set

ASSUME MemoryAssumption == Timeout \in Nat \ {0} /\ MaxTick \in Nat /\ MaxSets \in Nat

VARIABLES
  tick,      \* the clock
  entry,     \* tokens[id]: a token, named by the Set that stored it, and its end
  timer,     \* per Set: when its timer fires, and how far its goroutine is
  tidy,      \* the Set whose id the goroutine tidy received, 0: it receives
  getter,    \* the calls of Get
  doomed,    \* (history) tokens that were stored before the deletion of an older one
  lost       \* (history) tokens that were deleted before their end, not by Del

memoryVars == <<tick, entry, timer, tidy, getter, doomed, lost>>

Sets == 1 .. MaxSets

NoEntry == [set |-> 0, expires |-> 0]

Entry == [set : Sets, expires : 0 .. MaxTick + Timeout]

MemoryTypeOK ==
  /\ tick \in 0 .. MaxTick
  /\ entry \in Entry \cup {NoEntry}
  /\ timer \in [Sets -> [at : {"unset", "wait", "send", "over"}, fires : 0 .. MaxTick + Timeout]]
  /\ tidy \in 0 .. MaxSets
  /\ getter \in [Getters ->
       [at : {"idle", "look", "del", "found", "none"}, read : Entry \cup {NoEntry}]]
  /\ doomed \subseteq Sets /\ lost \subseteq Sets

MemoryInit ==
  /\ tick = 0 /\ entry = NoEntry /\ tidy = 0
  /\ timer = [s \in Sets |-> [at |-> "unset", fires |-> 0]]
  /\ getter = [g \in Getters |-> [at |-> "idle", read |-> NoEntry]]
  /\ doomed = {} /\ lost = {}

MemoryTick ==
  /\ tick < MaxTick /\ tick' = tick + 1
  /\ UNCHANGED <<entry, timer, tidy, getter, doomed, lost>>

\* Deletions that are on their way: a timer's, tidy's, a Get's.
Underway ==
  \/ \E s \in Sets : timer[s].at \in {"wait", "send"}
  \/ tidy # 0
  \/ \E g \in Getters : getter[g].at = "del" \/ (getter[g].at = "look" /\ getter[g].read # NoEntry)

\* (mutant: the timer is set for a moment too early)
FiresEarly == tick + Timeout - 1

Fires == tick + Timeout

\* Set, up to the start of its goroutine.
MemorySet(s) ==
  /\ timer[s].at = "unset" /\ \A r \in 1 .. s - 1 : timer[r].at # "unset"
  /\ entry' = [set |-> s, expires |-> tick + Timeout]
  /\ timer' = [timer EXCEPT ![s] = [at |-> "wait", fires |-> Fires]]
  /\ doomed' = IF Underway THEN doomed \cup {s} ELSE doomed
  /\ UNCHANGED <<tick, tidy, getter, lost>>

Fire(s) ==
  /\ timer[s].at = "wait" /\ timer[s].fires <= tick
  /\ timer' = [timer EXCEPT ![s].at = "send"]
  /\ UNCHANGED <<tick, entry, tidy, getter, doomed, lost>>

\* The channel has no buffer: tidy receives while the goroutine sends.
TidyReceive(s) ==
  /\ timer[s].at = "send" /\ tidy = 0
  /\ timer' = [timer EXCEPT ![s].at = "over"] /\ tidy' = s
  /\ UNCHANGED <<tick, entry, getter, doomed, lost>>

\* delete(ms.tokens, id), whichever token is there.
Remove ==
  /\ entry' = NoEntry
  /\ lost' = IF entry # NoEntry /\ tick < entry.expires THEN lost \cup {entry.set} ELSE lost

TidyDelete ==
  /\ tidy # 0 /\ tidy' = 0 /\ Remove
  /\ UNCHANGED <<tick, timer, getter, doomed>>

\* Del, by Revoke.
MemoryDel ==
  /\ entry # NoEntry /\ entry' = NoEntry
  /\ UNCHANGED <<tick, timer, tidy, getter, doomed, lost>>

\* Get reads under the lock and compares with the clock after it.
GetRead(g) ==
  /\ getter[g].at = "idle"
  /\ getter' = [getter EXCEPT ![g] =
       [at |-> IF entry = NoEntry THEN "none" ELSE "look", read |-> entry]]
  /\ UNCHANGED <<tick, entry, timer, tidy, doomed, lost>>

GetFound(g) ==
  /\ getter[g].at = "look" /\ tick <= getter[g].read.expires
  /\ getter' = [getter EXCEPT ![g].at = "found"]
  /\ UNCHANGED <<tick, entry, timer, tidy, doomed, lost>>

GetExpired(g) ==
  /\ getter[g].at = "look" /\ tick > getter[g].read.expires
  /\ getter' = [getter EXCEPT ![g].at = "del"]
  /\ UNCHANGED <<tick, entry, timer, tidy, doomed, lost>>

\* The Del of an expired token, by its id.
GetDelete(g) ==
  /\ getter[g].at = "del" /\ Remove
  /\ getter' = [getter EXCEPT ![g].at = "none"]
  /\ UNCHANGED <<tick, timer, tidy, doomed>>

MemoryNext ==
  \/ MemoryTick \/ TidyDelete \/ MemoryDel
  \/ \E s \in Sets : MemorySet(s) \/ Fire(s) \/ TidyReceive(s)
  \/ \E g \in Getters : GetRead(g) \/ GetFound(g) \/ GetExpired(g) \/ GetDelete(g)

MemorySpec == MemoryInit /\ [][MemoryNext]_memoryVars
-----------------------------------------------------------------------------
\* A token is lost before its end only if it was stored while the deletion of an
\* older one was on its way; and none is forgotten: as long as a token is kept a
\* deletion is on its way that will find it.
TokensTimeOut ==
  /\ lost \subseteq doomed
  /\ entry # NoEntry =>
       timer[entry.set].at \in {"wait", "send"} \/ tidy = entry.set
=============================================================================
