----------------------------- MODULE MergeToken ------------------------------
(***************************************************************************)
(* The token for a merge to main (agent/safety/main_merge_token.py): one   *)
(* file, generated, validated, consumed and revoked by several processes;  *)
(* git_merge (agent/tools/merge.py) consumes it before it merges.  The     *)
(* file is written in place, and consume_token reads it twice.             *)
(***************************************************************************)
EXTENDS Naturals

CONSTANTS Merger,    \* processes that call git_merge for main
          MaxTokens  \* bound: tokens generated

ASSUME MergeTokenAssumption == MaxTokens \in Nat

VARIABLES file,     \* the token file
          tokens,   \* how many were generated: their names
          shown,    \* merger -> the token it presents
          mergerAt, \* merger -> where it is
          hand,     \* merger -> what consume_token has read the second time
          burnt,    \* history: tokens some consume_token has marked as used
          late      \* history: mergers that presented a token already spent

tokenVars == <<file, tokens, shown, mergerAt, hand, burnt, late>>

\* What is in the file; Unread is no file, no JSON, or JSON without a token.
Unread == [token |-> 0, used |-> FALSE, expired |-> FALSE]

TokenInit ==
  /\ file = Unread /\ tokens = 0 /\ burnt = {} /\ late = {}
  /\ shown = [m \in Merger |-> 0] /\ mergerAt = [m \in Merger |-> "idle"]
  /\ hand = [m \in Merger |-> Unread]

\* generate_token, over any token that is there.
Generate ==
  /\ tokens < MaxTokens /\ tokens' = tokens + 1
  /\ file' = [token |-> tokens', used |-> FALSE, expired |-> FALSE]
  /\ UNCHANGED <<shown, mergerAt, hand, burnt, late>>

\* revoke_token.  A write that has emptied the file and not filled it looks alike.
Revoke == file.token # 0 /\ file' = Unread /\ UNCHANGED <<tokens, shown, mergerAt, hand, burnt, late>>

Expire == /\ file.token # 0 /\ ~file.expired /\ file' = [file EXCEPT !.expired = TRUE]
          /\ UNCHANGED <<tokens, shown, mergerAt, hand, burnt, late>>

\* git_merge is called with a token.
Present(m) ==
  /\ mergerAt[m] = "idle" /\ mergerAt' = [mergerAt EXCEPT ![m] = "called"]
  /\ \E t \in 1..tokens :
       /\ shown' = [shown EXCEPT ![m] = t]
       /\ late' = IF t \in burnt THEN late \cup {m} ELSE late \ {m}
  /\ UNCHANGED <<file, tokens, hand, burnt>>

\* Mutant: whether the token was used is not looked at.
TokenFresh(m) == file.token = shown[m] /\ ~file.expired

\* validate_token: the token presented, not too old, not used.
TokenValid(m) == file.token = shown[m] /\ ~file.expired /\ ~file.used

Validate(m) ==
  /\ mergerAt[m] = "called" /\ mergerAt' = [mergerAt EXCEPT ![m] = IF TokenValid(m) THEN "valid" ELSE "idle"]
  /\ UNCHANGED <<file, tokens, shown, hand, burnt, late>>

\* consume_token reads the file once more ...
ReadAgain(m) ==
  /\ mergerAt[m] = "valid" /\ mergerAt' = [mergerAt EXCEPT ![m] = "read"] /\ hand' = [hand EXCEPT ![m] = file]
  /\ UNCHANGED <<file, tokens, shown, burnt, late>>

\* ... and writes what it read as used, whatever the file holds by now.  Then
\* git_merge merges.
Burn(m) ==
  /\ mergerAt[m] = "read" /\ mergerAt' = [mergerAt EXCEPT ![m] = "merging"]
  /\ file' = IF hand[m].token = 0 THEN Unread ELSE [hand[m] EXCEPT !.used = TRUE]
  /\ hand' = [hand EXCEPT ![m] = Unread] /\ burnt' = burnt \cup {shown[m]}
  /\ UNCHANGED <<tokens, shown, late>>

\* The merge succeeds, fails or times out: the token is gone in any case.
Merged(m) == /\ mergerAt[m] = "merging" /\ mergerAt' = [mergerAt EXCEPT ![m] = "idle"]
             /\ UNCHANGED <<file, tokens, shown, hand, burnt, late>>

-----------------------------------------------------------------------------
TokenNext ==
  \/ Generate \/ Revoke \/ Expire
  \/ \E m \in Merger : Present(m) \/ Validate(m) \/ ReadAgain(m) \/ Burn(m) \/ Merged(m)

TokenSpec == TokenInit /\ [][TokenNext]_tokenVars

\* A token that has been consumed admits nobody who presents it afterwards,
\* although processes that hold an older state of the file still write it.
\* (Two that present it at once may both be admitted: README, 6.)
BurntStaysBurnt == \A m \in late : mergerAt[m] # "merging"

=============================================================================
