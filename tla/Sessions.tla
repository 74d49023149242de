------------------------------ MODULE Sessions ------------------------------
(***************************************************************************)
(* Staying signed in: the refresh tokens of one account, the calls of       *)
(* TokenService that rotate them, and the phones that hold them.            *)
(*                                                                         *)
(* The server reads a token, writes its successor and retires it in three   *)
(* queries with nothing around them; presenting a retired token revokes the *)
(* whole family. The phone keeps the token twice, in memory (auth-store)    *)
(* and in its keystore, shares one refresh among all its requests           *)
(* (client.ts) and may be killed or lose an answer at any point. Every      *)
(* query and every write to the keystore is a step of its own.              *)
(*                                                                         *)
(* An operator Name_Slip above Name is Name with a slip a programmer could  *)
(* make; nothing uses it.                                                   *)
(***************************************************************************)
EXTENDS Naturals, Sequences, FiniteSets

CONSTANTS
  Phones,      \* installations of the app signed in to the account
  TokenCalls,  \* sign-ins and refreshes the server has in hand at once
  MaxTokens,   \* bound: tokens ever issued
  NoToken, NoCall

ASSUME MaxTokensAssumption == MaxTokens \in Nat

VARIABLES
  accountActive,  \* users.status is ACTIVE
  tokens,         \* refresh_tokens, in the order they were issued
  call,           \* what each call of the server has read and where it stands
  inMemory,       \* useAuthStore's refreshToken, per phone
  inKeystore,     \* the same in the phone's secure storage
  refreshing,     \* refreshInFlight, per phone
  entering,       \* the sign-in a phone waits for
  leaving,        \* how far a phone is with signing out
  missed           \* history: an answer missed the phone, or it signed out during a refresh

phoneVars == <<inMemory, inKeystore, refreshing, entering, leaving>>
sessionVars == <<accountActive, tokens, call, phoneVars, missed>>

-----------------------------------------------------------------------------
\* A row: its family is the number of the family's first token; `gone` says
\* what set revokedAt, and "no" that nothing has.
Token == [family : 1..MaxTokens, gone : {"no", "rotated", "logout", "theft", "all"}]

TokenId == 1..MaxTokens

Call ==
  [kind : {"login", "refresh"}, phone : Phones, token : TokenId \cup {NoToken},
   next : TokenId \cup {NoToken},
   at : {"sent", "found", "reused", "minted", "answered", "refused", "lost", "kept"}]

ASSUME NoAssumption == NoToken \notin TokenId /\ NoCall \notin TokenCalls \cup Call

Leaving ==
  [at : {"no", "erase", "forget"}, token : {NoToken}]
    \cup [at : {"asked"}, token : TokenId]

Staying == [at |-> "no", token |-> NoToken]

Live(t) == tokens[t].gone = "no"

Revoke(T, why) ==
  tokens' = [t \in DOMAIN tokens |->
    IF t \in T /\ Live(t) THEN [tokens[t] EXCEPT !.gone = why] ELSE tokens[t]]

\* persistRefreshToken.
Persist(family) ==
  /\ Len(tokens) < MaxTokens
  /\ tokens' = Append(tokens, [family |-> family, gone |-> "no"])

NewToken == Len(tokens) + 1

\* A call nobody waits for any more ends without being heard.
Awaited(c) == \E p \in Phones : c \in {refreshing[p], entering[p]}
Ended == {"answered", "refused", "lost"}

MoveCall(c, at, next) ==
  call' = [call EXCEPT ![c] =
    IF at \in Ended /\ ~Awaited(c) THEN NoCall ELSE [@ EXCEPT !.at = at, !.next = next]]

CallAt(c, at) == call[c] # NoCall /\ call[c].at = at

Sent(kind, p, t) ==
  [kind |-> kind, phone |-> p, token |-> t, next |-> NoToken, at |-> "sent"]

-----------------------------------------------------------------------------
(* The server.                                                             *)

\* rotate reads the token it was given, with its account. Its expiresAt may
\* have passed by then: JWT_REFRESH_TTL_DAYS are not counted here.
ReadToken(c) ==
  /\ CallAt(c, "sent") /\ call[c].kind = "refresh"
  /\ LET t == call[c].token
     IN  \/ ~Live(t) /\ MoveCall(c, "reused", NoToken)
         \/ Live(t) /\ MoveCall(c, "refused", NoToken)
         \/ Live(t) /\ accountActive /\ MoveCall(c, "found", NoToken)
  /\ UNCHANGED <<accountActive, tokens, phoneVars, missed>>

\* Already rotated: revokeFamily, and the caller is told to sign in again.
RevokeFamily(c) ==
  /\ CallAt(c, "reused")
  /\ Revoke({t \in DOMAIN tokens : tokens[t].family = tokens[call[c].token].family}, "theft")
  /\ MoveCall(c, "refused", NoToken)
  /\ UNCHANGED <<accountActive, phoneVars, missed>>

\* The successor is written first, ...
MintNext(c) ==
  /\ CallAt(c, "found") /\ call[c].kind = "refresh"
  /\ Persist(tokens[call[c].token].family)
  /\ MoveCall(c, "minted", NewToken)
  /\ UNCHANGED <<accountActive, phoneVars, missed>>

\* ... the old token retired after it, whatever has happened to it meanwhile.
RetireOld(c) ==
  /\ CallAt(c, "minted")
  /\ tokens' = [tokens EXCEPT ![call[c].token].gone = "rotated"]
  /\ MoveCall(c, "answered", call[c].next)
  /\ UNCHANGED <<accountActive, phoneVars, missed>>

\* login and verifyOtp: the account is read and the password or code judged, then a
\* family begun.
ReadAccount(c) ==
  /\ CallAt(c, "sent") /\ call[c].kind = "login"
  /\ MoveCall(c, "refused", NoToken) \/ (accountActive /\ MoveCall(c, "found", NoToken))
  /\ UNCHANGED <<accountActive, tokens, phoneVars, missed>>

IssuePair(c) ==
  /\ CallAt(c, "found") /\ call[c].kind = "login"
  /\ Persist(NewToken)
  /\ MoveCall(c, "answered", NewToken)
  /\ UNCHANGED <<accountActive, phoneVars, missed>>

\* The server goes down under a call, or its answer is lost.
LoseAnswer(c) ==
  /\ call[c] # NoCall /\ call[c].at \in {"sent", "found", "reused", "minted", "answered"}
  /\ missed' = [missed EXCEPT ![call[c].phone] = TRUE]
  /\ MoveCall(c, "lost", NoToken)
  /\ UNCHANGED <<accountActive, tokens, phoneVars>>

\* A password reset and "sign out of all devices": revokeAllForUser.
RevokeAll ==
  /\ Revoke(DOMAIN tokens, "all")
  /\ UNCHANGED <<accountActive, call, phoneVars, missed>>

\* The console suspends and restores an account; its tokens stay.
DecideAccount ==
  /\ accountActive' = ~accountActive
  /\ UNCHANGED <<tokens, call, phoneVars, missed>>

-----------------------------------------------------------------------------
(* The phone.                                                              *)

\* A request is told 401, or the chat socket refused: one refresh serves all.
AskRefresh_EachItsOwn(p, c) ==
  /\ inMemory[p] # NoToken /\ call[c] = NoCall
  /\ call' = [call EXCEPT ![c] = Sent("refresh", p, inMemory[p])]
  /\ refreshing' = [refreshing EXCEPT ![p] = c]
  /\ missed' = [missed EXCEPT ![p] = @ \/ leaving[p] # Staying]
  /\ UNCHANGED <<accountActive, tokens, inMemory, inKeystore, entering, leaving>>
AskRefresh(p, c) ==
  /\ inMemory[p] # NoToken /\ refreshing[p] = NoCall /\ call[c] = NoCall
  /\ call' = [call EXCEPT ![c] = Sent("refresh", p, inMemory[p])]
  /\ refreshing' = [refreshing EXCEPT ![p] = c]
  /\ missed' = [missed EXCEPT ![p] = @ \/ leaving[p] # Staying]
  /\ UNCHANGED <<accountActive, tokens, inMemory, inKeystore, entering, leaving>>

\* The sign-in screens, shown only to somebody signed out.
AskLogin(p, c) ==
  /\ inMemory[p] = NoToken /\ entering[p] = NoCall /\ leaving[p] = Staying
  /\ call[c] = NoCall
  /\ call' = [call EXCEPT ![c] = Sent("login", p, NoToken)]
  /\ entering' = [entering EXCEPT ![p] = c]
  /\ UNCHANGED <<accountActive, tokens, inMemory, inKeystore, refreshing, leaving, missed>>

\* setTokens and setSession: the keystore first, ...
Keep_MemoryOnly(p, c) ==
  /\ c \in {refreshing[p], entering[p]} /\ CallAt(c, "answered")
  /\ MoveCall(c, "kept", call[c].next)
  /\ UNCHANGED <<accountActive, tokens, phoneVars, missed>>
Keep(p, c) ==
  /\ c \in {refreshing[p], entering[p]} /\ CallAt(c, "answered")
  /\ inKeystore' = [inKeystore EXCEPT ![p] = call[c].next]
  /\ MoveCall(c, "kept", call[c].next)
  /\ UNCHANGED <<accountActive, tokens, inMemory, refreshing, entering, leaving, missed>>

\* ... then memory, whatever it holds by now.
Adopt(p, c) ==
  /\ c \in {refreshing[p], entering[p]} /\ CallAt(c, "kept")
  /\ inMemory' = [inMemory EXCEPT ![p] = call[c].next]
  /\ call' = [call EXCEPT ![c] = NoCall]
  /\ refreshing' = [refreshing EXCEPT ![p] = IF @ = c THEN NoCall ELSE @]
  /\ entering' = [entering EXCEPT ![p] = IF @ = c THEN NoCall ELSE @]
  /\ UNCHANGED <<accountActive, tokens, inKeystore, leaving, missed>>

\* A refresh failed: a request signs the phone out, the socket only gives up.
RefreshFails(p, c) ==
  /\ c = refreshing[p] /\ (CallAt(c, "refused") \/ CallAt(c, "lost"))
  /\ refreshing' = [refreshing EXCEPT ![p] = NoCall]
  /\ call' = [call EXCEPT ![c] = NoCall]
  /\ \/ UNCHANGED leaving
     \/ /\ leaving[p] = Staying
        /\ leaving' = [leaving EXCEPT ![p] = [at |-> "erase", token |-> NoToken]]
  /\ UNCHANGED <<accountActive, tokens, inMemory, inKeystore, entering, missed>>

LoginFails(p, c) ==
  /\ c = entering[p] /\ (CallAt(c, "refused") \/ CallAt(c, "lost"))
  /\ entering' = [entering EXCEPT ![p] = NoCall]
  /\ call' = [call EXCEPT ![c] = NoCall]
  /\ UNCHANGED <<accountActive, tokens, inMemory, inKeystore, refreshing, leaving, missed>>

\* Sign out: the server is asked to revoke the token of this moment, ...
TapSignOut(p) ==
  /\ inMemory[p] # NoToken /\ leaving[p] = Staying
  /\ leaving' = [leaving EXCEPT ![p] = [at |-> "asked", token |-> inMemory[p]]]
  /\ missed' = [missed EXCEPT ![p] = @ \/ refreshing[p] # NoCall]
  /\ UNCHANGED <<accountActive, tokens, call, inMemory, inKeystore, refreshing, entering>>

\* ... which is best effort ...
LogoutEnds(p) ==
  /\ leaving[p].at = "asked"
  /\ Revoke({leaving[p].token}, "logout") \/ UNCHANGED tokens
  /\ leaving' = [leaving EXCEPT ![p] = [at |-> "erase", token |-> NoToken]]
  /\ UNCHANGED <<accountActive, call, inMemory, inKeystore, refreshing, entering, missed>>

\* ... and the phone forgets it in any case: keystore, then memory.
Erase(p) ==
  /\ leaving[p].at = "erase"
  /\ inKeystore' = [inKeystore EXCEPT ![p] = NoToken]
  /\ leaving' = [leaving EXCEPT ![p] = [at |-> "forget", token |-> NoToken]]
  /\ UNCHANGED <<accountActive, tokens, call, inMemory, refreshing, entering, missed>>

Forget(p) ==
  /\ leaving[p].at = "forget"
  /\ inMemory' = [inMemory EXCEPT ![p] = NoToken]
  /\ leaving' = [leaving EXCEPT ![p] = Staying]
  /\ UNCHANGED <<accountActive, tokens, call, inKeystore, refreshing, entering, missed>>

\* The app is killed and started again: hydrate reads the keystore. Calls it
\* had out go on at the server, unheard.
RestartApp(p) ==
  LET mine == {refreshing[p], entering[p]}
  IN  /\ missed' = [missed EXCEPT ![p] = @ \/ mine # {NoCall} \/ leaving[p] # Staying]
      /\ inMemory' = [inMemory EXCEPT ![p] = inKeystore[p]]
      /\ refreshing' = [refreshing EXCEPT ![p] = NoCall]
      /\ entering' = [entering EXCEPT ![p] = NoCall]
      /\ leaving' = [leaving EXCEPT ![p] = Staying]
      /\ call' = [c \in TokenCalls |->
           IF c \in mine /\ call[c].at \in Ended \cup {"kept"} THEN NoCall ELSE call[c]]
      /\ UNCHANGED <<accountActive, tokens, inKeystore>>

-----------------------------------------------------------------------------
SessionsInit ==
  /\ accountActive = TRUE
  /\ tokens = <<>>
  /\ call = [c \in TokenCalls |-> NoCall]
  /\ inMemory = [p \in Phones |-> NoToken]
  /\ inKeystore = [p \in Phones |-> NoToken]
  /\ refreshing = [p \in Phones |-> NoCall]
  /\ entering = [p \in Phones |-> NoCall]
  /\ leaving = [p \in Phones |-> Staying]
  /\ missed = [p \in Phones |-> FALSE]

SessionsNext ==
  \/ \E c \in TokenCalls :
       \/ ReadToken(c) \/ RevokeFamily(c) \/ MintNext(c) \/ RetireOld(c)
       \/ ReadAccount(c) \/ IssuePair(c) \/ LoseAnswer(c)
  \/ RevokeAll
  \/ DecideAccount
  \/ \E p \in Phones, c \in TokenCalls :
       \/ AskRefresh(p, c) \/ AskLogin(p, c) \/ Keep(p, c) \/ Adopt(p, c)
       \/ RefreshFails(p, c) \/ LoginFails(p, c)
  \/ \E p \in Phones :
       TapSignOut(p) \/ LogoutEnds(p) \/ Erase(p) \/ Forget(p) \/ RestartApp(p)

SessionsSpec == SessionsInit /\ [][SessionsNext]_sessionVars

-----------------------------------------------------------------------------
(* Properties.                                                             *)

\* Every variable has its shape.
SessionsTypeOK ==
  /\ accountActive \in BOOLEAN
  /\ tokens \in Seq(Token) /\ Len(tokens) <= MaxTokens
  /\ call \in [TokenCalls -> Call \cup {NoCall}]
  /\ inMemory \in [Phones -> TokenId \cup {NoToken}]
  /\ inKeystore \in [Phones -> TokenId \cup {NoToken}]
  /\ refreshing \in [Phones -> TokenCalls \cup {NoCall}]
  /\ entering \in [Phones -> TokenCalls \cup {NoCall}]
  /\ leaving \in [Phones -> Leaving]
  /\ missed \in [Phones -> BOOLEAN]

\* A phone with no call under way, in either direction.
Quiet(p) ==
  /\ refreshing[p] = NoCall /\ entering[p] = NoCall /\ leaving[p] = Staying
  /\ \A c \in TokenCalls : call[c] = NoCall \/ call[c].phone # p

\* client.ts: the single-flight refresh "can never race a request". As long as
\* every answer reached it, a quiet phone holds, in memory and after a restart,
\* the one token of its family that was not rotated away, and only a reset or
\* a sign-out of all devices can have revoked that one.
SessionHolds ==
  \A p \in Phones :
    Quiet(p) /\ inMemory[p] # NoToken /\ ~missed[p] =>
      /\ inKeystore[p] = inMemory[p]
      /\ tokens[inMemory[p]].gone \in {"no", "all"}
      /\ \A t \in DOMAIN tokens :
           tokens[t].family = tokens[inMemory[p]].family /\ Live(t) => t = inMemory[p]

\* "The losers would present an already-rotated token. The server reads that as
\* theft and revokes the whole family - logging the user out for no reason": the
\* theft rule ends the session a phone holds only after an answer missed it.
NoFalseTheft ==
  [][\A t \in DOMAIN tokens, p \in Phones :
       Live(t) /\ tokens'[t].gone = "theft" /\ inMemory[p] # NoToken
         /\ tokens[inMemory[p]].family = tokens[t].family
         => missed[p]]_sessionVars
=============================================================================
