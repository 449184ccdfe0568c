------------------------------ MODULE Verifier ------------------------------
(***************************************************************************)
(* What the core library decides about one typed code (core/Verifier.cpp), *)
(* and the record it decides over (core/DeviceState.h).  Pure operators:   *)
(* the clock, the store and the processes live in LockGate.                *)
(*                                                                         *)
(* A code is abstracted to what Decode reads from it: the key it was       *)
(* signed with and its fields.  A mistyped or garbled string is a code     *)
(* whose key is NoKey.  TokenCodec justifies the abstraction: it models    *)
(* the hundred bits and shows that decoding gives the fields back under    *)
(* the signing key and nothing under any other.                            *)
(***************************************************************************)
EXTENDS Integers

CONSTANTS
    Secret,   \* the HMAC secrets a device may be provisioned with
    NoKey,    \* stands for "signed with no secret": a string that never verifies
    Code,     \* the strings that may be typed, as [key, counter, durationDays, type]
    NoToken   \* std::nullopt, what decoding a bad string returns

TokenType == {"Full", "Grace"}

Token == [counter: Nat, durationDays: Nat, type: TokenType]

ASSUME CodeAssumption ==
    /\ NoKey \notin Secret
    /\ NoToken \notin Token
    /\ \A c \in Code : /\ c.key \in Secret \union {NoKey}
                       /\ c.counter \in Nat
                       /\ c.durationDays \in Nat
                       /\ c.type \in TokenType

Status == {"Active", "Grace", "Overdue", "Locked"}

DeviceState == [lastCounter: Nat, lockDeadlineDay: Nat,
                status: Status, lastTokenWasGrace: BOOLEAN]

\* The member initialisers of DeviceState: locked since the first day there was.
FreshState == [lastCounter |-> 0, lockDeadlineDay |-> 0,
               status |-> "Locked", lastTokenWasGrace |-> FALSE]

Result == {"Accepted", "RejectedReplay", "RejectedInvalid"}

\* Not the code: the fields are read, the signature is not compared.
DecodeUnsigned(code, secret) ==
    [counter |-> code.counter, durationDays |-> code.durationDays,
     type |-> code.type]

\* TokenCodec::decode, for a device that holds this secret.
Decode(code, secret) ==
    IF code.key = secret
    THEN [counter |-> code.counter, durationDays |-> code.durationDays,
          type |-> code.type]
    ELSE NoToken

Later(a, b) == IF a >= b THEN a ELSE b

\* Not the code: the kind of the token taken for the status.
RedeemedTypeAsStatus(state, token, today) ==
    [state EXCEPT !.lastCounter = token.counter,
                  !.lockDeadlineDay =
                      Later(today, state.lockDeadlineDay) + token.durationDays,
                  !.status = token.type,
                  !.lastTokenWasGrace = (token.type = "Grace")]

\* The state an accepted token leaves: days are added to what is left of the
\* period already paid for, or to today once that period is over.
Redeemed(state, token, today) ==
    [state EXCEPT !.lastCounter = token.counter,
                  !.lockDeadlineDay =
                      Later(today, state.lockDeadlineDay) + token.durationDays,
                  !.status = "Active",
                  !.lastTokenWasGrace = (token.type = "Grace")]

\* Not the code: the last counter itself is let through once more.
ApplyEqualCounter(state, code, secret, today) ==
    LET token == Decode(code, secret) IN
    IF token = NoToken
    THEN [result |-> "RejectedInvalid", state |-> state]
    ELSE IF token.counter < state.lastCounter
         THEN [result |-> "RejectedReplay", state |-> state]
         ELSE [result |-> "Accepted", state |-> Redeemed(state, token, today)]

\* Verifier::apply: the answer, and the state it leaves behind.
Apply(state, code, secret, today) ==
    LET token == Decode(code, secret) IN
    IF token = NoToken
    THEN [result |-> "RejectedInvalid", state |-> state]
    ELSE IF token.counter <= state.lastCounter
         THEN [result |-> "RejectedReplay", state |-> state]
         ELSE [result |-> "Accepted", state |-> Redeemed(state, token, today)]

=============================================================================
