--------------------------- MODULE WalletSessions ---------------------------
(***************************************************************************)
(* PrimeAuthManager (rpc/src/auth.mjs): a wallet asks for a challenge,     *)
(* signs its message and exchanges the signature for a token.  createSession *)
(* awaits the verification of the signature between reading the challenge  *)
(* and deleting it.                                                        *)
(*                                                                         *)
(* Challenges live in memory and end with the process (ForgetSessions,     *)
(* driven by NodeProcess); a token is self-contained, signed with a secret *)
(* from the configuration, and survives.  Signatures are modelled by who   *)
(* made them: only a wallet signs for itself.                              *)
(***************************************************************************)
EXTENDS Integers, FiniteSets

CONSTANTS
  Wallets,
  Nonces,        \* random nonces challenges get, in this instance
  Calls,         \* calls of createSession at a time
  ChallengeTtl,  \* challengeTtlMs
  SessionTtl,    \* sessionTtlMs
  MaxClock       \* bound on the clock

ASSUME SessionBounds ==
  /\ ChallengeTtl \in Nat \ {0} /\ SessionTtl \in Nat \ {0} /\ MaxClock \in Nat

NoWallet == "NoWallet"
ASSUME NoWalletIsNone == NoWallet \notin Wallets

VARIABLES
  clock,       \* Date.now()
  issued,      \* history: per nonce, the wallet and the time of its challenge
  challenges,  \* the nonces with a challenge in the map
  signatures,  \* the nonces whose message the wallet has signed
  verifying,   \* per call, what it verifies: wallet, nonce, its `now', or none
  tokens,      \* tokens given out
  given,       \* history: how many sessions each nonce gave
  doubled      \* history: nonces two calls were verifying at once

historyVars == <<given, doubled>>
sessionVars == <<clock, issued, challenges, signatures, verifying, tokens, historyVars>>

NotIssued == [wallet |-> NoWallet, at |-> 0]
NoCall == [wallet |-> NoWallet, nonce |-> CHOOSE n \in Nonces : TRUE, at |-> 0]

SessionsInit ==
  /\ clock = 0
  /\ issued = [n \in Nonces |-> NotIssued]
  /\ challenges = {} /\ signatures = {}
  /\ verifying = [c \in Calls |-> NoCall]
  /\ tokens = {} /\ given = [n \in Nonces |-> 0] /\ doubled = {}

ForgetSessions ==
  /\ challenges' = {}
  /\ verifying' = [c \in Calls |-> NoCall]
  /\ UNCHANGED <<clock, issued, signatures, tokens, historyVars>>

ExpiresAt(n) == issued[n].at + ChallengeTtl

CreateChallenge(w, n) ==
  /\ issued[n] = NotIssued
  /\ issued' = [issued EXCEPT ![n] = [wallet |-> w, at |-> clock]]
  /\ challenges' = challenges \cup {n}
  /\ UNCHANGED <<clock, signatures, verifying, tokens, historyVars>>

SignChallenge(n) ==
  /\ issued[n] # NotIssued
  /\ signatures' = signatures \cup {n}
  /\ UNCHANGED <<clock, issued, challenges, verifying, tokens, historyVars>>

(* The challenges are kept under the wallet and the nonce, so a call of    *)
(* another wallet finds nothing.                                           *)
Finds(w, n) == n \in challenges /\ issued[n].wallet = w

(* Variant: the age of a challenge is not looked at.                       *)
AnyAge(n) == TRUE

Fresh(n) == ExpiresAt(n) > clock

BeginSession(c, w, n) ==
  /\ verifying[c] = NoCall
  /\ \/ /\ Finds(w, n) /\ Fresh(n)
        /\ verifying' = [verifying EXCEPT ![c] = [wallet |-> w, nonce |-> n, at |-> clock]]
        /\ UNCHANGED challenges
     \/ /\ Finds(w, n) /\ ~Fresh(n)
        /\ challenges' = challenges \ {n}
        /\ UNCHANGED verifying
  /\ UNCHANGED <<clock, issued, signatures, tokens, historyVars>>

(* The expiry of a token counts from the start of its call.                *)
TokenOf(call) ==
  [wallet |-> call.wallet, nonce |-> call.nonce, expiresAt |-> call.at + SessionTtl]

(* Variant: a used challenge stays until it expires.                       *)
NotConsumed(n) == challenges

Consumed(n) == challenges \ {n}

EndSession(c, valid) ==
  LET call == verifying[c] IN
  /\ call # NoCall
  /\ valid => call.nonce \in signatures
  /\ verifying' = [verifying EXCEPT ![c] = NoCall]
  /\ IF valid
     THEN /\ challenges' = Consumed(call.nonce)
          /\ tokens' = tokens \cup {TokenOf(call)}
          /\ given' = [given EXCEPT ![call.nonce] = @ + 1]
          /\ doubled' = IF \E d \in Calls \ {c} : /\ verifying[d].wallet # NoWallet
                                                  /\ verifying[d].nonce = call.nonce
                        THEN doubled \cup {call.nonce} ELSE doubled
     ELSE UNCHANGED <<challenges, tokens, historyVars>>
  /\ UNCHANGED <<clock, issued, signatures>>

(* verifyToken: the wallet a request is served as has an unexpired token.  *)
Authenticated(w) == \E t \in tokens : t.wallet = w /\ t.expiresAt > clock

Later ==
  /\ clock < MaxClock
  /\ clock' = clock + 1
  /\ UNCHANGED <<issued, challenges, signatures, verifying, tokens, historyVars>>

SessionCalls ==
  \/ \E n \in Nonces : \E w \in Wallets : CreateChallenge(w, n)
  \/ \E c \in Calls, w \in Wallets, n \in Nonces : BeginSession(c, w, n)

SessionSteps ==
  \E c \in Calls, valid \in BOOLEAN : EndSession(c, valid)

SessionWorld == Later \/ \E n \in Nonces : SignChallenge(n)
-----------------------------------------------------------------------------
(* Whoever is served as a wallet has that wallet's signature on a          *)
(* challenge made for it, and made no longer ago than a challenge and a    *)
(* session last: no call that was slow, no restart and no expiry in        *)
(* between gives another wallet, or an old signature, a session            *)
(* (createSession, verifyToken).                                           *)
TokensAreSigned ==
  \A w \in Wallets :
    Authenticated(w) =>
      \E n \in signatures :
        issued[n].wallet = w /\ clock < issued[n].at + ChallengeTtl + SessionTtl

(* One challenge gives one session, unless two calls were verifying it at  *)
(* the same time: the challenge is read before the await and deleted after *)
(* it (createSession, lines 59-67).                                        *)
OneSessionPerChallenge ==
  \A n \in Nonces : n \notin doubled => given[n] <= 1
=============================================================================
