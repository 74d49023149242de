--------------------------- MODULE Access_proofs ----------------------------
(***************************************************************************)
(* Who is let in and what they can show, proved of three components that   *)
(* share nothing but this file: staying signed in, the chain of            *)
(* credentials, and the documents and checks of an identity.               *)
(***************************************************************************)
EXTENDS Sessions, Credentials, Identity, SequenceTheorems, TLAPS

-----------------------------------------------------------------------------
(***************************************************************************)
(* Staying signed in, proved for any number of phones, calls and tokens:   *)
(* only an answer that missed a phone costs it its session.                *)
(*                                                                         *)
(* What the proof turns on: a family of tokens is one phone's alone, and a *)
(* phone every answer has reached stands at one of four places, in each of *)
(* which the family has one live token and it is known where that is.      *)
(***************************************************************************)

\* The one live token of its family, or the last one, revoked from outside.
Sole(t) ==
  /\ t \in DOMAIN tokens /\ tokens[t].gone \in {"no", "all"}
  /\ \A u \in DOMAIN tokens : tokens[u].family = tokens[t].family /\ Live(u) => u = t

Of(c, p) == call[c] # NoCall /\ call[c].phone = p

\* The tokens that are a phone's: what it keeps, and what its calls carry.
Holds(p, t) ==
  \/ t \in {inMemory[p], inKeystore[p], leaving[p].token}
  \/ \E c \in TokenCalls : Of(c, p) /\ t \in {call[c].token, call[c].next}

\* Only a refresh presents a token, finds it reused or replaces it.
Presents(c) ==
  call[c] # NoCall =>
    /\ call[c].kind = "refresh" => call[c].token \in TokenId
    /\ call[c].at \in {"reused", "minted"} => call[c].kind = "refresh"

Issued ==
  /\ \A t \in DOMAIN tokens : tokens[t].family \in DOMAIN tokens
  /\ \A p \in Phones, t \in TokenId : Holds(p, t) => t \in DOMAIN tokens
  /\ \A c \in TokenCalls : Presents(c)

\* No two phones share a family.
Apart ==
  \A p, q \in Phones : \A t, u \in DOMAIN tokens :
    Holds(p, t) /\ Holds(q, u) /\ tokens[t].family = tokens[u].family => p = q

Waits(p) ==
  /\ refreshing[p] # NoCall => Of(refreshing[p], p) /\ call[refreshing[p]].kind = "refresh"
  /\ entering[p] # NoCall => Of(entering[p], p) /\ call[entering[p]].kind = "login"

\* The four places: at rest, ...
Rests(p) ==
  /\ refreshing[p] = NoCall /\ entering[p] = NoCall /\ leaving[p] = Staying
  /\ inKeystore[p] = inMemory[p]
  /\ inMemory[p] # NoToken => Sole(inMemory[p])
\* ... signing in, ...
Enters(p) ==
  LET e == call[entering[p]] IN
  /\ entering[p] # NoCall /\ refreshing[p] = NoCall /\ leaving[p] = Staying /\ inMemory[p] = NoToken
  /\ \/ e.at \in {"sent", "found", "refused"} /\ inKeystore[p] = NoToken
     \/ e.at = "answered" /\ inKeystore[p] = NoToken /\ Sole(e.next)
     \/ e.at = "kept" /\ inKeystore[p] = e.next /\ Sole(e.next)
\* ... refreshing, ...
Succeeds(t, next) ==
  /\ next \in DOMAIN tokens /\ next # t /\ tokens[next].gone \in {"no", "all"}
  /\ tokens[next].family = tokens[t].family
  /\ \A u \in DOMAIN tokens : tokens[u].family = tokens[next].family /\ Live(u) => u \in {t, next}
Refreshes(p) ==
  LET r == call[refreshing[p]] IN
  /\ refreshing[p] # NoCall /\ entering[p] = NoCall /\ leaving[p] = Staying
  /\ inMemory[p] # NoToken /\ r.token = inMemory[p]
  /\ \/ r.at \in {"sent", "found", "refused"} /\ inKeystore[p] = inMemory[p] /\ Sole(inMemory[p])
     \/ r.at = "reused" /\ inKeystore[p] = inMemory[p] /\ Sole(inMemory[p]) /\ ~Live(inMemory[p])
     \/ r.at = "minted" /\ inKeystore[p] = inMemory[p] /\ Succeeds(inMemory[p], r.next)
     \/ r.at = "answered" /\ inKeystore[p] = inMemory[p] /\ Sole(r.next)
     \/ r.at = "kept" /\ inKeystore[p] = r.next /\ Sole(r.next)
\* ... or signing out.
Leaves(p) ==
  /\ refreshing[p] = NoCall /\ entering[p] = NoCall
  /\ leaving[p] # Staying /\ (leaving[p].at = "forget" => inKeystore[p] = NoToken)

Steady(p) ==
  ~missed[p] =>
    /\ \A c \in TokenCalls : Of(c, p) => c \in {refreshing[p], entering[p]}
    /\ Rests(p) \/ Enters(p) \/ Refreshes(p) \/ Leaves(p)

SessionInv == SessionsTypeOK /\ Issued /\ Apart /\ \A p \in Phones : Waits(p) /\ Steady(p)

-----------------------------------------------------------------------------
(* Calls and tokens.                                                        *)

LEMMA TokensNumbered ==
  ASSUME SessionsTypeOK
  PROVE  /\ Len(tokens) \in Nat /\ Len(tokens) <= MaxTokens /\ DOMAIN tokens = 1..Len(tokens)
         /\ DOMAIN tokens \subseteq TokenId
         /\ \A t \in DOMAIN tokens : tokens[t] \in Token
<1>1. Len(tokens) \in Nat /\ Len(tokens) <= MaxTokens /\ DOMAIN tokens = 1..Len(tokens)
  BY LenProperties DEF SessionsTypeOK
<1> QED
  BY <1>1, ElementOfSeq, MaxTokensAssumption DEF SessionsTypeOK, TokenId

LEMMA CallFields ==
  ASSUME SessionsTypeOK, NEW c \in TokenCalls, call[c] # NoCall
  PROVE  /\ call[c] \in Call /\ call[c].kind \in {"login", "refresh"} /\ call[c].phone \in Phones
         /\ call[c].token \in TokenId \cup {NoToken} /\ call[c].next \in TokenId \cup {NoToken}
         /\ call[c].at \in {"sent", "found", "reused", "minted", "answered", "refused", "lost", "kept"}
<1>1. call[c] \in Call
  BY DEF SessionsTypeOK
<1> QED
  BY <1>1 DEF Call

\* What moving a call on does.
LEMMA CallMoves ==
  ASSUME SessionsTypeOK, NEW c \in TokenCalls, call[c] # NoCall,
         NEW at \in {"found", "reused", "minted", "answered", "refused", "lost", "kept"},
         NEW next \in TokenId \cup {NoToken}, MoveCall(c, at, next)
  PROVE  /\ call' \in [TokenCalls -> Call \cup {NoCall}]
         /\ \A d \in TokenCalls : d # c => call'[d] = call[d]
         /\ call'[c] = NoCall \/ (/\ call'[c] # NoCall /\ call'[c].at = at /\ call'[c].next = next
                                 /\ call'[c].kind = call[c].kind /\ call'[c].phone = call[c].phone
                                 /\ call'[c].token = call[c].token)
         /\ Awaited(c) => call'[c] # NoCall
<1> DEFINE moved == [call[c] EXCEPT !.at = at, !.next = next]
<1>1. call[c] \in Call
  BY CallFields
<1>2. /\ moved \in Call /\ moved.at = at /\ moved.next = next
      /\ moved.kind = call[c].kind /\ moved.phone = call[c].phone /\ moved.token = call[c].token
  BY <1>1 DEF Call
<1>3. moved # NoCall
  BY <1>2, NoAssumption
<1>4. call' = [call EXCEPT ![c] = IF at \in Ended /\ ~Awaited(c) THEN NoCall ELSE moved]
  BY DEF MoveCall
<1> HIDE DEF moved
<1>5. /\ call'[c] = IF at \in Ended /\ ~Awaited(c) THEN NoCall ELSE moved
      /\ \A d \in TokenCalls : d # c => call'[d] = call[d]
      /\ call' \in [TokenCalls -> Call \cup {NoCall}]
  BY <1>2, <1>4 DEF SessionsTypeOK
<1> QED
  BY <1>2, <1>3, <1>5

\* A token written.
LEMMA Persisted ==
  ASSUME SessionsTypeOK, NEW family \in TokenId, Persist(family)
  PROVE  /\ tokens' \in Seq(Token) /\ Len(tokens') <= MaxTokens
         /\ DOMAIN tokens' = DOMAIN tokens \cup {NewToken} /\ NewToken \notin DOMAIN tokens
         /\ NewToken \in TokenId
         /\ \A t \in DOMAIN tokens : tokens'[t] = tokens[t]
         /\ tokens'[NewToken].family = family /\ tokens'[NewToken].gone = "no"
<1> DEFINE new == [family |-> family, gone |-> "no"]
<1>1. /\ Len(tokens) \in Nat /\ DOMAIN tokens = 1..Len(tokens) /\ Len(tokens) < MaxTokens
      /\ tokens' = Append(tokens, new) /\ tokens \in Seq(Token)
  BY TokensNumbered DEF Persist, SessionsTypeOK
<1>2. new \in Token /\ new.family = family /\ new.gone = "no"
  BY DEF Token, TokenId
<1> HIDE DEF new
<1>3. /\ tokens' \in Seq(Token) /\ Len(tokens') = Len(tokens) + 1
      /\ \A t \in 1..Len(tokens) : tokens'[t] = tokens[t]
      /\ tokens'[Len(tokens) + 1] = new
  BY <1>1, <1>2, AppendProperties
<1>4. DOMAIN tokens' = 1..(Len(tokens) + 1)
  BY <1>3, LenProperties
<1> QED
  BY <1>1, <1>2, <1>3, <1>4, MaxTokensAssumption DEF NewToken, TokenId

\* Tokens of one set revoked.
LEMMA Revoked ==
  ASSUME SessionsTypeOK, NEW T, NEW why \in {"logout", "theft", "all"}, Revoke(T, why)
  PROVE  /\ tokens' \in Seq(Token) /\ Len(tokens') = Len(tokens) /\ DOMAIN tokens' = DOMAIN tokens
         /\ \A t \in DOMAIN tokens :
              /\ tokens'[t].family = tokens[t].family
              /\ tokens'[t].gone = IF t \in T /\ Live(t) THEN why ELSE tokens[t].gone
<1>1. /\ Len(tokens) \in Nat /\ DOMAIN tokens = 1..Len(tokens)
      /\ \A t \in DOMAIN tokens : tokens[t] \in Token
  BY TokensNumbered
<1> DEFINE New(t) == IF t \in T /\ Live(t) THEN [tokens[t] EXCEPT !.gone = why] ELSE tokens[t]
<1>2. tokens' = [t \in DOMAIN tokens |-> New(t)]
  BY DEF Revoke
<1>3. ASSUME NEW t \in DOMAIN tokens
      PROVE  /\ New(t) \in Token /\ New(t).family = tokens[t].family
             /\ New(t).gone = IF t \in T /\ Live(t) THEN why ELSE tokens[t].gone
  <2>1. tokens[t] \in Token
    BY <1>1
  <2> QED
    BY <2>1 DEF Token
<1> HIDE DEF New
<1>4. tokens' \in [1..Len(tokens) -> Token]
  BY <1>1, <1>2, <1>3
<1>5. tokens' \in Seq(Token) /\ Len(tokens') = Len(tokens)
  BY <1>1, <1>4, SeqDef, LenProperties
<1> QED
  BY <1>1, <1>2, <1>3, <1>5

LEMMA Retired ==
  ASSUME SessionsTypeOK, NEW old \in DOMAIN tokens, tokens' = [tokens EXCEPT ![old].gone = "rotated"]
  PROVE  /\ tokens' \in Seq(Token) /\ Len(tokens') = Len(tokens) /\ DOMAIN tokens' = DOMAIN tokens
         /\ \A t \in DOMAIN tokens :
              /\ tokens'[t].family = tokens[t].family
              /\ tokens'[t].gone = IF t = old THEN "rotated" ELSE tokens[t].gone
<1>1. /\ Len(tokens) \in Nat /\ DOMAIN tokens = 1..Len(tokens) /\ tokens \in Seq(Token)
      /\ \A t \in DOMAIN tokens : tokens[t] \in Token
  BY TokensNumbered DEF SessionsTypeOK
<1>2. [tokens[old] EXCEPT !.gone = "rotated"] \in Token
  <2>1. tokens[old] \in Token
    BY <1>1
  <2> QED
    BY <2>1 DEF Token
<1>3. /\ tokens' \in Seq(Token) /\ Len(tokens') = Len(tokens)
      /\ \A t \in 1..Len(tokens) :
           tokens'[t] = IF t = old THEN [tokens[old] EXCEPT !.gone = "rotated"] ELSE tokens[t]
  BY <1>1, <1>2, ExceptSeq
<1>4. DOMAIN tokens' = DOMAIN tokens
  BY <1>1, <1>3, LenProperties
<1> QED
  BY <1>1, <1>3, <1>4 DEF Token

-----------------------------------------------------------------------------
(* What a step of one phone, or for it, is to the others.                   *)

\* Tokens keep their numbers and families.
Grows ==
  /\ DOMAIN tokens \subseteq DOMAIN tokens'
  /\ \A t \in DOMAIN tokens : tokens'[t].family = tokens[t].family

\* A family is left alone, or revoked whole from outside.
Spares(f) ==
  \A u \in DOMAIN tokens' :
    tokens'[u].family = f =>
      /\ u \in DOMAIN tokens
      /\ tokens'[u].gone = tokens[u].gone \/ (Live(u) /\ tokens'[u].gone = "all")

StandsBy(q) ==
  /\ inMemory'[q] = inMemory[q] /\ inKeystore'[q] = inKeystore[q]
  /\ refreshing'[q] = refreshing[q] /\ entering'[q] = entering[q]
  /\ leaving'[q] = leaving[q] /\ missed'[q] = missed[q]
  /\ \A c \in TokenCalls : (Of(c, q)' <=> Of(c, q)) /\ (Of(c, q) => call'[c] = call[c])
  /\ \A t \in DOMAIN tokens : Holds(q, t) => Spares(tokens[t].family)

LEMMA SoleKept ==
  ASSUME Grows, NEW t, Sole(t), Spares(tokens[t].family)
  PROVE  Sole(t)' /\ (~Live(t) => ~Live(t)')
<1>1. t \in DOMAIN tokens /\ t \in DOMAIN tokens' /\ tokens'[t].family = tokens[t].family
  BY DEF Sole, Grows
<1>2. tokens'[t].gone = tokens[t].gone \/ (Live(t) /\ tokens'[t].gone = "all")
  BY <1>1 DEF Spares
<1>3. ASSUME NEW u \in DOMAIN tokens', tokens'[u].family = tokens'[t].family, Live(u)'
      PROVE  u = t
  <2>1. u \in DOMAIN tokens /\ (tokens'[u].gone = tokens[u].gone \/ (Live(u) /\ tokens'[u].gone = "all"))
    BY <1>1, <1>3 DEF Spares
  <2>2. Live(u) /\ tokens[u].family = tokens[t].family
    BY <1>1, <1>3, <2>1 DEF Live, Grows
  <2> QED
    BY <2>1, <2>2 DEF Sole
<1> QED
  BY <1>1, <1>2, <1>3 DEF Sole, Live

LEMMA SucceedsKept ==
  ASSUME Grows, NEW t \in DOMAIN tokens, NEW next, Succeeds(t, next), Spares(tokens[t].family)
  PROVE  Succeeds(t, next)'
<1>1. /\ next \in DOMAIN tokens /\ next \in DOMAIN tokens' /\ tokens'[next].family = tokens[next].family
      /\ tokens'[t].family = tokens[t].family /\ tokens[next].family = tokens[t].family
  BY DEF Succeeds, Grows
<1>2. tokens'[next].gone = tokens[next].gone \/ (Live(next) /\ tokens'[next].gone = "all")
  BY <1>1 DEF Spares
<1>3. ASSUME NEW u \in DOMAIN tokens', tokens'[u].family = tokens'[next].family, Live(u)'
      PROVE  u \in {t, next}
  <2>1. u \in DOMAIN tokens /\ (tokens'[u].gone = tokens[u].gone \/ (Live(u) /\ tokens'[u].gone = "all"))
    BY <1>1, <1>3 DEF Spares
  <2>2. Live(u) /\ tokens[u].family = tokens[next].family
    BY <1>1, <1>3, <2>1 DEF Live, Grows
  <2> QED
    BY <2>1, <2>2 DEF Succeeds
<1> QED
  BY <1>1, <1>2, <1>3 DEF Succeeds

LEMMA BystanderHolds ==
  ASSUME NEW q \in Phones, StandsBy(q), NEW t
  PROVE  Holds(q, t)' <=> Holds(q, t)
<1>1. \A c \in TokenCalls : (Of(c, q)' <=> Of(c, q)) /\ (Of(c, q) => call'[c] = call[c])
  BY DEF StandsBy
<1>2. (t \in {inMemory'[q], inKeystore'[q], leaving'[q].token}) <=> (t \in {inMemory[q], inKeystore[q], leaving[q].token})
  BY DEF StandsBy
<1>3. (\E c \in TokenCalls : Of(c, q)' /\ t \in {call'[c].token, call'[c].next})
        <=> (\E c \in TokenCalls : Of(c, q) /\ t \in {call[c].token, call[c].next})
  BY <1>1
<1> QED
  BY <1>2, <1>3 DEF Holds

LEMMA BystanderSteady ==
  ASSUME SessionInv, Grows, NEW q \in Phones, StandsBy(q)
  PROVE  Waits(q)' /\ Steady(q)'
<1>1. /\ inMemory'[q] = inMemory[q] /\ inKeystore'[q] = inKeystore[q]
      /\ refreshing'[q] = refreshing[q] /\ entering'[q] = entering[q]
      /\ leaving'[q] = leaving[q] /\ missed'[q] = missed[q]
      /\ \A c \in TokenCalls : (Of(c, q)' <=> Of(c, q)) /\ (Of(c, q) => call'[c] = call[c])
  BY DEF StandsBy
<1>2. /\ refreshing[q] # NoCall => refreshing[q] \in TokenCalls /\ Of(refreshing[q], q)
      /\ entering[q] # NoCall => entering[q] \in TokenCalls /\ Of(entering[q], q)
      /\ Waits(q) /\ Steady(q)
  BY DEF SessionInv, SessionsTypeOK, Waits
<1>3. /\ refreshing[q] # NoCall => call'[refreshing[q]] = call[refreshing[q]]
      /\ entering[q] # NoCall => call'[entering[q]] = call[entering[q]]
  BY <1>1, <1>2
<1>4. Waits(q)'
  BY <1>1, <1>2, <1>3 DEF Waits
<1>5. ASSUME NEW t, Sole(t), Holds(q, t) PROVE Sole(t)' /\ (~Live(t) => ~Live(t)')
  <2>1. Spares(tokens[t].family)
    BY <1>5 DEF StandsBy, Sole
  <2> QED
    BY <1>5, <2>1, SoleKept
<1>6. Holds(q, inMemory[q]) /\ Holds(q, inKeystore[q])
  BY DEF Holds
<1>7. ASSUME NEW c \in TokenCalls, Of(c, q) PROVE Holds(q, call[c].next)
  BY <1>7 DEF Holds
<1>8. CASE Rests(q)
  <2>1. inMemory[q] # NoToken => Sole(inMemory[q])'
    BY <1>1, <1>5, <1>6, <1>8 DEF Rests, Sole, Live
  <2> QED
    BY <1>1, <1>2, <1>4, <1>8, <2>1 DEF Rests, Steady
<1>9. CASE Enters(q)
  <2> DEFINE e == call[entering[q]]
  <2>1. entering[q] \in TokenCalls /\ Of(entering[q], q) /\ e' = e
    BY <1>1, <1>2, <1>3, <1>9 DEF Enters
  <2>2. e.at \in {"answered", "kept"} => Sole(e.next) /\ Holds(q, e.next)
    BY <1>7, <1>9, <2>1 DEF Enters
  <2>3. e.at \in {"answered", "kept"} => Sole(e.next)'
    BY <1>5, <2>1, <2>2 DEF Sole, Live
  <2> QED
    BY <1>1, <1>2, <1>4, <1>9, <2>1, <2>3 DEF Enters, Steady
<1>10. CASE Refreshes(q)
  <2> DEFINE r == call[refreshing[q]]
  <2>1. refreshing[q] \in TokenCalls /\ Of(refreshing[q], q) /\ r' = r
    BY <1>1, <1>2, <1>3, <1>10 DEF Refreshes
  <2>2. r.at \in {"answered", "kept"} => Sole(r.next)'
    BY <1>5, <1>7, <1>10, <2>1 DEF Refreshes, Sole, Live
  <2>3. r.at \in {"sent", "found", "refused", "reused"} =>
          Sole(inMemory[q])' /\ (~Live(inMemory[q]) => ~Live(inMemory[q])')
    BY <1>1, <1>5, <1>6, <1>10 DEF Refreshes, Sole, Live
  <2>4. r.at = "minted" => Succeeds(inMemory[q], r.next)'
    <3>1. ASSUME r.at = "minted" PROVE inMemory[q] \in DOMAIN tokens /\ Spares(tokens[inMemory[q]].family)
      <4>1. inMemory[q] \in TokenId
        BY <1>10 DEF Refreshes, SessionInv, SessionsTypeOK
      <4>2. inMemory[q] \in DOMAIN tokens
        BY <1>6, <4>1 DEF SessionInv, Issued
      <4> QED
        BY <1>6, <4>2 DEF StandsBy
    <3> QED
      BY <1>1, <1>10, <2>1, <3>1, SucceedsKept DEF Refreshes, Succeeds, Live
  <2>5. /\ refreshing'[q] # NoCall /\ entering'[q] = NoCall /\ leaving'[q] = Staying
        /\ inMemory'[q] # NoToken /\ r'.token = inMemory'[q] /\ r' = r
    BY <1>1, <1>10, <2>1 DEF Refreshes
  <2>6. call'[refreshing'[q]] = r
    BY <1>1, <2>1
  <2> HIDE DEF r
  <2>7. \/ r.at \in {"sent", "found", "refused"} /\ inKeystore[q] = inMemory[q]
        \/ r.at = "reused" /\ inKeystore[q] = inMemory[q] /\ ~Live(inMemory[q])
        \/ r.at = "minted" /\ inKeystore[q] = inMemory[q]
        \/ r.at = "answered" /\ inKeystore[q] = inMemory[q]
        \/ r.at = "kept" /\ inKeystore[q] = r.next
    BY <1>10 DEF Refreshes, r
  <2>8. Refreshes(q)'
    BY <1>1, <2>2, <2>3, <2>4, <2>5, <2>6, <2>7 DEF Refreshes, Live
  <2> QED
    BY <1>1, <1>2, <1>4, <1>10, <2>1, <2>8 DEF Refreshes, Steady
<1>11. CASE Leaves(q)
  BY <1>1, <1>2, <1>4, <1>11 DEF Leaves, Steady
<1>12. CASE missed[q]
  BY <1>1, <1>4, <1>12 DEF Steady
<1> QED
  BY <1>2, <1>8, <1>9, <1>10, <1>11, <1>12 DEF Steady

\* What has changed of the tokens is in one family, and it is p's, or new.
LEMMA OwnFamily ==
  ASSUME SessionInv, NEW p \in Phones, NEW q \in Phones, q # p, NEW f, Grows,
         \A u \in DOMAIN tokens' :
           tokens'[u].family # f => u \in DOMAIN tokens /\ tokens'[u].gone = tokens[u].gone,
         f \notin DOMAIN tokens \/ \E u \in DOMAIN tokens : Holds(p, u) /\ f = tokens[u].family
  PROVE  \A t \in DOMAIN tokens : Holds(q, t) => Spares(tokens[t].family)
<1> SUFFICES ASSUME NEW t \in DOMAIN tokens, Holds(q, t)
             PROVE  Spares(tokens[t].family)
  OBVIOUS
<1>1. tokens[t].family # f
  BY DEF SessionInv, Issued, Apart
<1> QED
  BY <1>1 DEF Spares

\* Only one call changes, which is p's or nobody's before and after.
LEMMA OwnCall ==
  ASSUME SessionInv, NEW p \in Phones, NEW q \in Phones, q # p, NEW c \in TokenCalls,
         \A d \in TokenCalls : d # c => call'[d] = call[d],
         call[c] = NoCall \/ Of(c, p), call'[c] = NoCall \/ Of(c, p)'
  PROVE  \A d \in TokenCalls : (Of(d, q)' <=> Of(d, q)) /\ (Of(d, q) => call'[d] = call[d])
<1> SUFFICES ASSUME NEW d \in TokenCalls
             PROVE  (Of(d, q)' <=> Of(d, q)) /\ (Of(d, q) => call'[d] = call[d])
  OBVIOUS
<1>1. CASE d = c
  BY <1>1 DEF Of
<1>2. CASE d # c
  BY <1>2 DEF Of
<1> QED
  BY <1>1, <1>2

\* A step of p's, or for it, that keeps p's side keeps everybody's.
LEMMA OwnStep ==
  ASSUME SessionInv, SessionsTypeOK', NEW p \in Phones, Grows,
         \A q \in Phones : q # p => StandsBy(q),
         \A t \in TokenId : Holds(p, t)' => Holds(p, t) \/ t \in DOMAIN tokens' \ DOMAIN tokens,
         \A t \in DOMAIN tokens' \ DOMAIN tokens :
           \/ tokens'[t].family = t
           \/ \E u \in DOMAIN tokens : Holds(p, u) /\ tokens'[t].family = tokens[u].family,
         \A c \in TokenCalls : Presents(c)',
         Waits(p)', Steady(p)'
  PROVE  SessionInv'
<1>1. \A t \in DOMAIN tokens' : tokens'[t].family \in DOMAIN tokens'
  BY DEF SessionInv, Issued, Grows
<1>2. \A q \in Phones, t \in TokenId :
        Holds(q, t)' => \/ Holds(q, t) /\ t \in DOMAIN tokens
                        \/ q = p /\ t \in DOMAIN tokens' \ DOMAIN tokens
  <2>1. \A q \in Phones, t \in TokenId : q # p => (Holds(q, t)' <=> Holds(q, t))
    BY BystanderHolds
  <2> QED
    BY <2>1 DEF SessionInv, Issued
<1>3. Issued'
  BY <1>1, <1>2 DEF Issued, Grows
<1>4. DOMAIN tokens' \subseteq TokenId
  <2>1. Len(tokens') <= MaxTokens /\ Len(tokens') \in Nat /\ DOMAIN tokens' = 1..Len(tokens')
    BY LenProperties DEF SessionsTypeOK
  <2> QED
    BY <2>1, MaxTokensAssumption DEF TokenId
<1>5. ASSUME NEW q \in Phones, NEW r \in Phones, NEW t \in DOMAIN tokens', NEW u \in DOMAIN tokens',
             Holds(q, t)', Holds(r, u)', tokens'[t].family = tokens'[u].family, q # r
      PROVE  FALSE
  <2>1. /\ (Holds(q, t) /\ t \in DOMAIN tokens) \/ (q = p /\ t \in DOMAIN tokens' \ DOMAIN tokens)
        /\ (Holds(r, u) /\ u \in DOMAIN tokens) \/ (r = p /\ u \in DOMAIN tokens' \ DOMAIN tokens)
    BY <1>2, <1>4, <1>5
  <2>2. CASE Holds(q, t) /\ t \in DOMAIN tokens /\ Holds(r, u) /\ u \in DOMAIN tokens
    BY <1>5, <2>2 DEF SessionInv, Apart, Grows
  <2>3. \A x \in DOMAIN tokens' \ DOMAIN tokens, y \in DOMAIN tokens, z \in Phones :
          Holds(z, y) /\ tokens'[x].family = tokens[y].family => z = p
    BY DEF SessionInv, Apart, Issued
  <2>4. CASE q = p /\ t \in DOMAIN tokens' \ DOMAIN tokens
    BY <1>5, <2>1, <2>3, <2>4 DEF Grows
  <2>5. CASE r = p /\ u \in DOMAIN tokens' \ DOMAIN tokens
    BY <1>5, <2>1, <2>3, <2>5 DEF Grows
  <2> QED
    BY <2>1, <2>2, <2>4, <2>5
<1>6. Apart'
  BY <1>5 DEF Apart
<1>7. \A q \in Phones : Waits(q)' /\ Steady(q)'
  BY BystanderSteady
<1> QED
  BY <1>3, <1>6, <1>7 DEF SessionInv
\* A step that is nobody's own.
LEMMA NobodysStep ==
  ASSUME SessionInv, SessionsTypeOK', Grows, DOMAIN tokens' = DOMAIN tokens, call' = call,
         \A q \in Phones : StandsBy(q)
  PROVE  SessionInv'
<1>1. \A q \in Phones, t \in TokenId : Holds(q, t)' <=> Holds(q, t)
  BY BystanderHolds
<1>2. Issued' /\ Apart'
  <2>1. Issued'
    BY <1>1 DEF SessionInv, Issued, Grows, Presents
  <2>2. DOMAIN tokens \subseteq TokenId
    BY TokensNumbered DEF SessionInv
  <2>3. Apart'
    BY <1>1, <2>2 DEF SessionInv, Apart, Grows
  <2> QED
    BY <2>1, <2>3
<1>3. \A q \in Phones : Waits(q)' /\ Steady(q)'
  BY BystanderSteady
<1> QED
  BY <1>2, <1>3 DEF SessionInv

\* A call of a phone that every answer has reached is the one it waits for.
LEMMA Standing ==
  ASSUME SessionInv, NEW p \in Phones, ~missed[p], NEW c \in TokenCalls, Of(c, p)
  PROVE  /\ Awaited(c)
         /\ \/ c = refreshing[p] /\ Refreshes(p) /\ call[c].kind = "refresh"
            \/ c = entering[p] /\ Enters(p) /\ call[c].kind = "login"
<1>1. c # NoCall /\ c \in {refreshing[p], entering[p]} /\ (Rests(p) \/ Enters(p) \/ Refreshes(p) \/ Leaves(p))
  BY NoAssumption DEF SessionInv, Steady
<1>2. Awaited(c)
  BY <1>1 DEF Awaited
<1>3. CASE c = refreshing[p]
  BY <1>1, <1>2, <1>3 DEF Rests, Enters, Leaves, SessionInv, Waits
<1>4. CASE c = entering[p]
  BY <1>1, <1>2, <1>4 DEF Rests, Refreshes, Leaves, SessionInv, Waits
<1> QED
  BY <1>1, <1>3, <1>4

\* A step of the server for one call: the family f is the call's phone's, or new.
LEMMA ServerStep ==
  ASSUME SessionInv, NEW c \in TokenCalls, NEW p \in Phones, Of(c, p),
         NEW at \in {"found", "reused", "minted", "answered", "refused", "lost"},
         NEW next \in TokenId \cup {NoToken}, MoveCall(c, at, next),
         accountActive' \in BOOLEAN, UNCHANGED phoneVars, missed' \in [Phones -> BOOLEAN],
         \A q \in Phones : q # p => missed'[q] = missed[q],
         tokens' \in Seq(Token), Len(tokens') <= MaxTokens, Grows,
         next \in DOMAIN tokens => next = call[c].next,
         next \in {NoToken} \cup DOMAIN tokens',
         NEW f,
         \A u \in DOMAIN tokens' :
           tokens'[u].family # f => u \in DOMAIN tokens /\ tokens'[u].gone = tokens[u].gone,
         \A u \in DOMAIN tokens' \ DOMAIN tokens : f \in DOMAIN tokens \/ u = f,
         f \notin DOMAIN tokens \/ \E u \in DOMAIN tokens : Holds(p, u) /\ f = tokens[u].family,
         at \in {"reused", "minted"} => call[c].kind = "refresh",
         ~missed'[p] => ~missed[p] /\ (Enters(p)' \/ Refreshes(p)')
  PROVE  SessionInv'
<1>1. call[c] # NoCall /\ p = call[c].phone
  BY DEF Of
<1>2. Of(c, p)
  OBVIOUS
<1>3. /\ call' \in [TokenCalls -> Call \cup {NoCall}]
      /\ \A d \in TokenCalls : d # c => call'[d] = call[d]
      /\ call'[c] = NoCall \/ (/\ call'[c] # NoCall /\ call'[c].at = at /\ call'[c].next = next
                              /\ call'[c].kind = call[c].kind /\ call'[c].phone = call[c].phone
                              /\ call'[c].token = call[c].token)
      /\ Awaited(c) => call'[c] # NoCall
  BY <1>1, CallMoves DEF SessionInv
<1>4. /\ inMemory' = inMemory /\ inKeystore' = inKeystore /\ refreshing' = refreshing
      /\ entering' = entering /\ leaving' = leaving
  BY DEF phoneVars
<1>5. SessionsTypeOK'
  BY <1>3, <1>4 DEF SessionInv, SessionsTypeOK
<1>6. call'[c] = NoCall \/ Of(c, p)'
  BY <1>1, <1>3 DEF Of
<1>7. ASSUME NEW q \in Phones, q # p PROVE StandsBy(q)
  <2>1. \A d \in TokenCalls : (Of(d, q)' <=> Of(d, q)) /\ (Of(d, q) => call'[d] = call[d])
    BY <1>2, <1>3, <1>6, <1>7, OwnCall
  <2>2. \A t \in DOMAIN tokens : Holds(q, t) => Spares(tokens[t].family)
    BY <1>1, <1>7, OwnFamily
  <2> QED
    BY <1>1, <1>4, <1>7, <2>1, <2>2 DEF StandsBy
<1>8. ASSUME NEW t \in TokenId, Holds(p, t)' PROVE Holds(p, t) \/ t \in DOMAIN tokens' \ DOMAIN tokens
  <2>1. CASE t \in {inMemory'[p], inKeystore'[p], leaving'[p].token}
    BY <1>4, <2>1 DEF Holds
  <2>2. CASE \E d \in TokenCalls : Of(d, p)' /\ t \in {call'[d].token, call'[d].next}
    <3>1. PICK d \in TokenCalls : Of(d, p)' /\ t \in {call'[d].token, call'[d].next}
      BY <2>2
    <3>2. CASE d # c
      BY <1>3, <3>1, <3>2 DEF Of, Holds
    <3>3. CASE d = c
      <4>1. t = call[c].token \/ t = next
        BY <1>3, <3>1, <3>3 DEF Of
      <4>2. t # NoToken
        BY NoAssumption
      <4> QED
        BY <1>2, <4>1, <4>2 DEF Holds
    <3> QED
      BY <3>2, <3>3
  <2> QED
    BY <1>8, <2>1, <2>2 DEF Holds
<1>9. \A t \in DOMAIN tokens' \ DOMAIN tokens :
        \/ tokens'[t].family = t
        \/ \E u \in DOMAIN tokens : Holds(p, u) /\ tokens'[t].family = tokens[u].family
  BY <1>1
<1>10. \A d \in TokenCalls : Presents(d)'
  BY <1>1, <1>3 DEF SessionInv, Issued, Presents
<1>11. Waits(p)'
  <2>1. refreshing[p] = c \/ entering[p] = c => call'[c] # NoCall
    BY <1>3 DEF Awaited
  <2>2. /\ refreshing[p] # NoCall => refreshing[p] \in TokenCalls
        /\ entering[p] # NoCall => entering[p] \in TokenCalls
        /\ Waits(p)
    BY DEF SessionInv, SessionsTypeOK
  <2>3. refreshing'[p] # NoCall => Of(refreshing[p], p)' /\ call'[refreshing[p]].kind = "refresh"
    BY <1>3, <1>4, <2>1, <2>2 DEF Waits, Of
  <2>4. entering'[p] # NoCall => Of(entering[p], p)' /\ call'[entering[p]].kind = "login"
    BY <1>3, <1>4, <2>1, <2>2 DEF Waits, Of
  <2> QED
    BY <1>4, <2>3, <2>4 DEF Waits, Of
<1>12. Steady(p)'
  <2> SUFFICES ASSUME ~missed'[p]
               PROVE  /\ \A d \in TokenCalls : Of(d, p)' => d \in {refreshing'[p], entering'[p]}
                      /\ Enters(p)' \/ Refreshes(p)'
    BY DEF Steady
  <2>1. ~missed[p] /\ (Enters(p)' \/ Refreshes(p)')
    BY <1>1
  <2>2. \A d \in TokenCalls : Of(d, p)' => Of(d, p)
    BY <1>2, <1>3 DEF Of
  <2> QED
    BY <1>4, <2>1, <2>2 DEF SessionInv, Steady
<1> QED
  BY <1>5, <1>7, <1>8, <1>9, <1>10, <1>11, <1>12, OwnStep

-----------------------------------------------------------------------------
(* The steps of the server.                                                *)

\* Every token and its family where it was.
LEMMA TokensStill ==
  ASSUME SessionsTypeOK, tokens' = tokens
  PROVE  /\ Grows /\ tokens' \in Seq(Token) /\ Len(tokens') <= MaxTokens
         /\ NoToken \notin DOMAIN tokens
         /\ \A t : (Sole(t)' <=> Sole(t)) /\ (Live(t)' <=> Live(t))
         /\ \A t, next : Succeeds(t, next)' <=> Succeeds(t, next)
  BY TokensNumbered, NoAssumption DEF SessionsTypeOK, Grows, Sole, Live, Succeeds

LEMMA ItsPhone ==
  ASSUME SessionInv, NEW c \in TokenCalls, call[c] # NoCall
  PROVE  \E p \in Phones : Of(c, p)
  BY CallFields DEF SessionInv, Of

\* A refresh being handled for a phone that every answer reached.
LEMMA RefreshInHand ==
  ASSUME SessionInv, NEW c \in TokenCalls, call[c].kind = "refresh",
         NEW p \in Phones, Of(c, p), ~missed[p], UNCHANGED phoneVars,
         NEW at \in {"found", "reused", "minted", "answered", "refused", "lost"},
         NEW next \in TokenId \cup {NoToken}, MoveCall(c, at, next)
  PROVE  /\ Refreshes(p) /\ c = refreshing[p]
         /\ refreshing'[p] = c /\ refreshing'[p] # NoCall /\ entering'[p] = NoCall /\ leaving'[p] = Staying
         /\ inMemory'[p] # NoToken /\ inMemory'[p] = inMemory[p] /\ inKeystore'[p] = inKeystore[p]
         /\ inMemory[p] \in TokenId
         /\ call[c].token = inMemory[p] /\ call'[c].token = inMemory[p] /\ call'[c].at = at /\ call'[c].next = next
<1>1. call[c] # NoCall
  BY DEF Of
<1>2. Awaited(c) /\ c = refreshing[p] /\ Refreshes(p)
  BY Standing
<1>3. /\ call'[c] # NoCall /\ call'[c].at = at /\ call'[c].next = next
      /\ call'[c].token = call[c].token
  BY <1>1, <1>2, CallMoves DEF SessionInv
<1>4. /\ refreshing[p] # NoCall /\ entering[p] = NoCall /\ leaving[p] = Staying
      /\ inMemory[p] # NoToken /\ call[c].token = inMemory[p]
  BY <1>2 DEF Refreshes
<1>5. inMemory[p] \in TokenId
  BY <1>4 DEF SessionInv, SessionsTypeOK
<1> QED
  BY <1>2, <1>3, <1>4, <1>5 DEF phoneVars

LEMMA LoginInHand ==
  ASSUME SessionInv, NEW c \in TokenCalls, call[c].kind = "login",
         NEW p \in Phones, Of(c, p), ~missed[p], UNCHANGED phoneVars,
         NEW at \in {"found", "reused", "minted", "answered", "refused", "lost"},
         NEW next \in TokenId \cup {NoToken}, MoveCall(c, at, next)
  PROVE  /\ Enters(p) /\ c = entering[p]
         /\ entering'[p] = c /\ entering'[p] # NoCall /\ refreshing'[p] = NoCall /\ leaving'[p] = Staying
         /\ inMemory'[p] = NoToken /\ inKeystore'[p] = inKeystore[p]
         /\ call'[c].at = at /\ call'[c].next = next
<1>1. call[c] # NoCall
  BY DEF Of
<1>2. Awaited(c) /\ c = entering[p] /\ Enters(p)
  BY Standing
<1>3. /\ call'[c] # NoCall /\ call'[c].at = at /\ call'[c].next = next
  BY <1>1, <1>2, CallMoves DEF SessionInv
<1>4. /\ entering[p] # NoCall /\ refreshing[p] = NoCall /\ leaving[p] = Staying
      /\ inMemory[p] = NoToken
  BY <1>2 DEF Enters
<1> QED
  BY <1>2, <1>3, <1>4 DEF phoneVars

LEMMA ReadTokenKeeps ==
  ASSUME SessionInv, NEW c \in TokenCalls, ReadToken(c)
  PROVE  SessionInv'
<1> USE DEF SessionInv
<1>1. /\ call[c] # NoCall /\ call[c].at = "sent" /\ call[c].kind = "refresh"
      /\ UNCHANGED <<accountActive, tokens, missed>> /\ UNCHANGED phoneVars
  BY DEF ReadToken, CallAt
<1>2. PICK at \in {"found", "reused", "refused"} :
        MoveCall(c, at, NoToken) /\ (at = "reused" => ~Live(call[c].token))
  BY DEF ReadToken
<1>3. PICK p \in Phones : Of(c, p)
  BY <1>1, ItsPhone
<1>4. ASSUME ~missed[p] PROVE Refreshes(p)'
  <2>1. /\ Refreshes(p) /\ c = refreshing[p]
        /\ refreshing'[p] = c /\ refreshing'[p] # NoCall /\ entering'[p] = NoCall /\ leaving'[p] = Staying
        /\ inMemory'[p] # NoToken /\ inMemory'[p] = inMemory[p] /\ inKeystore'[p] = inKeystore[p]
        /\ call[c].token = inMemory[p] /\ call'[c].token = inMemory[p] /\ call'[c].at = at
    BY <1>1, <1>2, <1>3, <1>4, RefreshInHand
  <2>2. inKeystore[p] = inMemory[p] /\ Sole(inMemory[p])
    BY <1>1, <2>1 DEF Refreshes
  <2>3. Sole(inMemory[p])' /\ (Live(inMemory[p])' <=> Live(inMemory[p]))
    BY <1>1, <2>1, <2>2 DEF Sole, Live
  <2> QED
    BY <1>2, <2>1, <2>2, <2>3 DEF Refreshes
<1> QED
  BY <1>1, <1>2, <1>3, <1>4, TokensStill, ServerStep DEF SessionsTypeOK

\* The token a refresh presents, and its family.
LEMMA Presented ==
  ASSUME SessionInv, NEW c \in TokenCalls, call[c].kind = "refresh", NEW p \in Phones, Of(c, p)
  PROVE  /\ call[c].token \in DOMAIN tokens /\ Holds(p, call[c].token)
         /\ tokens[call[c].token].family \in DOMAIN tokens
         /\ tokens[call[c].token].family \in TokenId
<1>1. call[c].token \in TokenId /\ Holds(p, call[c].token)
  BY DEF SessionInv, Issued, Presents, Of, Holds
<1> QED
  BY <1>1, TokensNumbered DEF SessionInv, Issued

LEMMA RevokeFamilyKeeps ==
  ASSUME SessionInv, NEW c \in TokenCalls, RevokeFamily(c)
  PROVE  SessionInv'
<1> USE DEF SessionInv
<1>1. /\ call[c] # NoCall /\ call[c].at = "reused" /\ call[c].kind = "refresh"
      /\ UNCHANGED <<accountActive, missed>> /\ UNCHANGED phoneVars /\ MoveCall(c, "refused", NoToken)
  BY DEF RevokeFamily, CallAt, Issued, Presents
<1>2. PICK p \in Phones : Of(c, p)
  BY <1>1, ItsPhone
<1>3. PICK f : f = tokens[call[c].token].family
  OBVIOUS
<1>4. Holds(p, call[c].token) /\ call[c].token \in DOMAIN tokens
  BY <1>1, <1>2, Presented
<1>5. Revoke({t \in DOMAIN tokens : tokens[t].family = f}, "theft")
  BY <1>3 DEF RevokeFamily
<1>6. /\ tokens' \in Seq(Token) /\ Len(tokens') = Len(tokens) /\ DOMAIN tokens' = DOMAIN tokens
      /\ \A t \in DOMAIN tokens :
           /\ tokens'[t].family = tokens[t].family
           /\ tokens'[t].gone = IF tokens[t].family = f /\ Live(t) THEN "theft" ELSE tokens[t].gone
  BY <1>5, Revoked
<1>7. ASSUME ~missed[p] PROVE Refreshes(p)'
  <2>1. /\ Refreshes(p) /\ c = refreshing[p]
        /\ refreshing'[p] = c /\ refreshing'[p] # NoCall /\ entering'[p] = NoCall /\ leaving'[p] = Staying
        /\ inMemory'[p] # NoToken /\ inMemory'[p] = inMemory[p] /\ inKeystore'[p] = inKeystore[p]
        /\ call[c].token = inMemory[p] /\ call'[c].token = inMemory[p] /\ call'[c].at = "refused"
    BY <1>1, <1>2, <1>7, RefreshInHand
  <2>2. inKeystore[p] = inMemory[p] /\ Sole(inMemory[p]) /\ ~Live(inMemory[p])
    BY <1>1, <2>1 DEF Refreshes
  <2>3. \A u \in DOMAIN tokens : tokens[u].family = f => ~Live(u)
    BY <1>3, <2>1, <2>2 DEF Sole
  <2>4. Sole(inMemory[p])'
    BY <1>6, <2>1, <2>2, <2>3 DEF Sole, Live
  <2> QED
    BY <2>1, <2>2, <2>4 DEF Refreshes
<1>8. /\ Grows /\ accountActive' \in BOOLEAN /\ missed' \in [Phones -> BOOLEAN] /\ Len(tokens') <= MaxTokens
      /\ DOMAIN tokens' \ DOMAIN tokens = {} /\ f \in DOMAIN tokens /\ \E u \in DOMAIN tokens : Holds(p, u) /\ f = tokens[u].family
      /\ \A u \in DOMAIN tokens' :
           tokens'[u].family # f => u \in DOMAIN tokens /\ tokens'[u].gone = tokens[u].gone
  BY <1>1, <1>3, <1>4, <1>6, Presented, <1>2 DEF SessionsTypeOK, Grows
<1> HIDE DEF SessionInv
<1> QED
  BY <1>1, <1>2, <1>6, <1>7, <1>8, NoAssumption, TokensNumbered, ServerStep DEF SessionInv

LEMMA MintNextKeeps ==
  ASSUME SessionInv, NEW c \in TokenCalls, MintNext(c)
  PROVE  SessionInv'
<1> USE DEF SessionInv
<1>1. /\ call[c] # NoCall /\ call[c].at = "found" /\ call[c].kind = "refresh"
      /\ UNCHANGED <<accountActive, missed>> /\ UNCHANGED phoneVars /\ MoveCall(c, "minted", NewToken)
  BY DEF MintNext, CallAt
<1>2. PICK p \in Phones : Of(c, p)
  BY <1>1, ItsPhone
<1>3. PICK f, new : f = tokens[call[c].token].family /\ new = NewToken
  OBVIOUS
<1>4. /\ Holds(p, call[c].token) /\ call[c].token \in DOMAIN tokens
      /\ f \in DOMAIN tokens /\ f \in TokenId
  BY <1>1, <1>2, <1>3, Presented
<1>5. /\ tokens' \in Seq(Token) /\ Len(tokens') <= MaxTokens
      /\ DOMAIN tokens' = DOMAIN tokens \cup {new} /\ new \notin DOMAIN tokens /\ new \in TokenId
      /\ \A t \in DOMAIN tokens : tokens'[t] = tokens[t]
      /\ tokens'[new].family = f /\ tokens'[new].gone = "no"
  BY <1>3, <1>4, Persisted DEF MintNext
<1>6. ASSUME ~missed[p] PROVE Refreshes(p)'
  <2>1. /\ Refreshes(p) /\ c = refreshing[p]
        /\ refreshing'[p] = c /\ refreshing'[p] # NoCall /\ entering'[p] = NoCall /\ leaving'[p] = Staying
        /\ inMemory'[p] # NoToken /\ inMemory'[p] = inMemory[p] /\ inKeystore'[p] = inKeystore[p]
        /\ call[c].token = inMemory[p] /\ call'[c].token = inMemory[p] /\ call'[c].at = "minted" /\ call'[c].next = new
    BY <1>1, <1>2, <1>3, <1>5, <1>6, RefreshInHand
  <2>2. inKeystore[p] = inMemory[p] /\ Sole(inMemory[p])
    BY <1>1, <2>1 DEF Refreshes
  <2>3. Succeeds(inMemory[p], new)'
    BY <1>3, <1>4, <1>5, <2>1, <2>2 DEF Sole, Succeeds, Live
  <2> QED
    BY <2>1, <2>2, <2>3 DEF Refreshes
<1> QED
  BY <1>1, <1>2, <1>3, <1>4, <1>5, <1>6, ServerStep DEF SessionsTypeOK, Grows

LEMMA RetireOldKeeps ==
  ASSUME SessionInv, NEW c \in TokenCalls, RetireOld(c)
  PROVE  SessionInv'
<1> USE DEF SessionInv
<1>1. /\ call[c] # NoCall /\ call[c].at = "minted" /\ call[c].kind = "refresh"
      /\ UNCHANGED <<accountActive, missed>> /\ UNCHANGED phoneVars
  BY DEF RetireOld, CallAt, Issued, Presents
<1>2. PICK p \in Phones : Of(c, p)
  BY <1>1, ItsPhone
<1>3. PICK old, f, next : old = call[c].token /\ f = tokens[call[c].token].family /\ next = call[c].next
  OBVIOUS
<1>4. /\ Holds(p, old) /\ old \in DOMAIN tokens
      /\ f \in DOMAIN tokens /\ f \in TokenId
  BY <1>1, <1>2, <1>3, Presented
<1>5. MoveCall(c, "answered", next) /\ next \in TokenId \cup {NoToken}
  BY <1>1, <1>3, CallFields DEF RetireOld
<1>6. next # NoToken => next \in DOMAIN tokens
  BY <1>2, <1>3, <1>5 DEF Issued, Holds
<1>7. /\ tokens' \in Seq(Token) /\ Len(tokens') = Len(tokens) /\ DOMAIN tokens' = DOMAIN tokens
      /\ \A t \in DOMAIN tokens :
           /\ tokens'[t].family = tokens[t].family
           /\ tokens'[t].gone = IF t = old THEN "rotated" ELSE tokens[t].gone
  BY <1>3, <1>4, Retired DEF RetireOld
<1>8. ASSUME ~missed[p] PROVE Refreshes(p)'
  <2>1. /\ Refreshes(p) /\ c = refreshing[p]
        /\ refreshing'[p] = c /\ refreshing'[p] # NoCall /\ entering'[p] = NoCall /\ leaving'[p] = Staying
        /\ inMemory'[p] # NoToken /\ inMemory'[p] = inMemory[p] /\ inKeystore'[p] = inKeystore[p]
        /\ call[c].token = inMemory[p] /\ call'[c].token = inMemory[p] /\ call'[c].at = "answered" /\ call'[c].next = next
    BY <1>1, <1>2, <1>5, <1>8, RefreshInHand
  <2>2. inKeystore[p] = inMemory[p] /\ Succeeds(inMemory[p], next)
    BY <1>1, <1>3, <2>1 DEF Refreshes
  <2>3. Sole(next)'
    BY <1>3, <1>7, <2>1, <2>2 DEF Sole, Succeeds, Live
  <2> QED
    BY <2>1, <2>2, <2>3 DEF Refreshes
<1>9. /\ Grows /\ accountActive' \in BOOLEAN /\ missed' \in [Phones -> BOOLEAN] /\ Len(tokens') <= MaxTokens
      /\ DOMAIN tokens' \ DOMAIN tokens = {} /\ f \in DOMAIN tokens /\ \E u \in DOMAIN tokens : Holds(p, u) /\ f = tokens[u].family
      /\ \A u \in DOMAIN tokens' :
           tokens'[u].family # f => u \in DOMAIN tokens /\ tokens'[u].gone = tokens[u].gone
  BY <1>1, <1>3, <1>4, <1>7 DEF SessionsTypeOK, Grows
<1> HIDE DEF SessionInv
<1> QED
  BY <1>1, <1>2, <1>3, <1>5, <1>6, <1>7, <1>8, <1>9, ServerStep

LEMMA ReadAccountKeeps ==
  ASSUME SessionInv, NEW c \in TokenCalls, ReadAccount(c)
  PROVE  SessionInv'
<1> USE DEF SessionInv
<1>1. /\ call[c] # NoCall /\ call[c].at = "sent" /\ call[c].kind = "login"
      /\ UNCHANGED <<accountActive, tokens, missed>> /\ UNCHANGED phoneVars
  BY DEF ReadAccount, CallAt
<1>2. PICK at \in {"found", "refused"} : MoveCall(c, at, NoToken)
  BY DEF ReadAccount
<1>3. PICK p \in Phones : Of(c, p)
  BY <1>1, ItsPhone
<1>4. ASSUME ~missed[p] PROVE Enters(p)'
  <2>1. /\ Enters(p) /\ c = entering[p]
        /\ entering'[p] = c /\ entering'[p] # NoCall /\ refreshing'[p] = NoCall /\ leaving'[p] = Staying
        /\ inMemory'[p] = NoToken /\ inKeystore'[p] = inKeystore[p] /\ call'[c].at = at
    BY <1>1, <1>2, <1>3, <1>4, LoginInHand
  <2>2. inKeystore[p] = NoToken
    BY <1>1, <2>1 DEF Enters
  <2> QED
    BY <1>2, <2>1, <2>2 DEF Enters
<1> QED
  BY <1>1, <1>2, <1>3, <1>4, TokensStill, ServerStep DEF SessionsTypeOK

LEMMA IssuePairKeeps ==
  ASSUME SessionInv, NEW c \in TokenCalls, IssuePair(c)
  PROVE  SessionInv'
<1> USE DEF SessionInv
<1>1. /\ call[c] # NoCall /\ call[c].at = "found" /\ call[c].kind = "login"
      /\ UNCHANGED <<accountActive, missed>> /\ UNCHANGED phoneVars /\ MoveCall(c, "answered", NewToken)
  BY DEF IssuePair, CallAt
<1>2. PICK p \in Phones : Of(c, p)
  BY <1>1, ItsPhone
<1>3. PICK new : new = NewToken
  OBVIOUS
<1>4. new \in TokenId
  BY <1>3, TokensNumbered, MaxTokensAssumption DEF IssuePair, Persist, NewToken, TokenId
<1>5. /\ tokens' \in Seq(Token) /\ Len(tokens') <= MaxTokens
      /\ DOMAIN tokens' = DOMAIN tokens \cup {new} /\ new \notin DOMAIN tokens
      /\ \A t \in DOMAIN tokens : tokens'[t] = tokens[t]
      /\ tokens'[new].family = new /\ tokens'[new].gone = "no"
  BY <1>3, <1>4, Persisted DEF IssuePair
<1>6. ASSUME ~missed[p] PROVE Enters(p)'
  <2>1. /\ Enters(p) /\ c = entering[p]
        /\ entering'[p] = c /\ entering'[p] # NoCall /\ refreshing'[p] = NoCall /\ leaving'[p] = Staying
        /\ inMemory'[p] = NoToken /\ inKeystore'[p] = inKeystore[p] /\ call'[c].at = "answered" /\ call'[c].next = new
    BY <1>1, <1>2, <1>3, <1>4, <1>6, LoginInHand
  <2>2. inKeystore[p] = NoToken
    BY <1>1, <2>1 DEF Enters
  <2>3. Sole(new)'
    BY <1>5 DEF Issued, Sole, Live
  <2> QED
    BY <2>1, <2>2, <2>3 DEF Enters
<1> QED
  BY <1>1, <1>2, <1>3, <1>4, <1>5, <1>6, ServerStep DEF SessionsTypeOK, Grows

LEMMA LoseAnswerKeeps ==
  ASSUME SessionInv, NEW c \in TokenCalls, LoseAnswer(c)
  PROVE  SessionInv'
<1> USE DEF SessionInv
<1>1. /\ call[c] # NoCall /\ UNCHANGED <<accountActive, tokens>> /\ UNCHANGED phoneVars
      /\ MoveCall(c, "lost", NoToken) /\ missed' = [missed EXCEPT ![call[c].phone] = TRUE]
  BY DEF LoseAnswer
<1>2. PICK p \in Phones : Of(c, p)
  BY <1>1, ItsPhone
<1>3. missed' \in [Phones -> BOOLEAN] /\ missed'[p] /\ \A q \in Phones : q # p => missed'[q] = missed[q]
  BY <1>1, <1>2 DEF SessionsTypeOK, Of
<1> QED
  BY <1>1, <1>2, <1>3, TokensStill, ServerStep DEF SessionsTypeOK

LEMMA RevokeAllKeeps ==
  ASSUME SessionInv, RevokeAll
  PROVE  SessionInv'
<1>1. /\ tokens' \in Seq(Token) /\ Len(tokens') = Len(tokens) /\ DOMAIN tokens' = DOMAIN tokens
      /\ \A t \in DOMAIN tokens :
           /\ tokens'[t].family = tokens[t].family
           /\ tokens'[t].gone = IF Live(t) THEN "all" ELSE tokens[t].gone
  BY Revoked DEF SessionInv, RevokeAll
<1>2. SessionsTypeOK' /\ Grows /\ call' = call
  BY <1>1 DEF SessionInv, SessionsTypeOK, Grows, RevokeAll, phoneVars
<1>3. ASSUME NEW q \in Phones PROVE StandsBy(q)
  BY <1>1 DEF StandsBy, Spares, RevokeAll, phoneVars, Of
<1> QED
  BY <1>1, <1>2, <1>3, NobodysStep

LEMMA DecideAccountKeeps ==
  ASSUME SessionInv, DecideAccount
  PROVE  SessionInv'
<1>1. SessionsTypeOK' /\ Grows /\ call' = call /\ tokens' = tokens
  BY DEF SessionInv, SessionsTypeOK, Grows, DecideAccount, phoneVars
<1>2. ASSUME NEW q \in Phones PROVE StandsBy(q)
  BY <1>1 DEF StandsBy, Spares, DecideAccount, phoneVars, Of
<1> QED
  BY <1>1, <1>2, NobodysStep

-----------------------------------------------------------------------------
(* The steps of a phone.                                                   *)

LEMMA PhoneStep ==
  ASSUME SessionInv, NEW p \in Phones, UNCHANGED <<accountActive, tokens>>,
         call' \in [TokenCalls -> Call \cup {NoCall}],
         inMemory' \in [Phones -> TokenId \cup {NoToken}],
         inKeystore' \in [Phones -> TokenId \cup {NoToken}],
         refreshing' \in [Phones -> TokenCalls \cup {NoCall}],
         entering' \in [Phones -> TokenCalls \cup {NoCall}],
         leaving' \in [Phones -> Leaving], missed' \in [Phones -> BOOLEAN],
         \A q \in Phones : q # p =>
           /\ inMemory'[q] = inMemory[q] /\ inKeystore'[q] = inKeystore[q]
           /\ refreshing'[q] = refreshing[q] /\ entering'[q] = entering[q]
           /\ leaving'[q] = leaving[q] /\ missed'[q] = missed[q],
         \A q \in Phones : q # p =>
           \A d \in TokenCalls : (Of(d, q)' <=> Of(d, q)) /\ (Of(d, q) => call'[d] = call[d]),
         \A t \in TokenId : Holds(p, t)' => Holds(p, t),
         \A d \in TokenCalls : Presents(d)',
         Waits(p)', Steady(p)'
  PROVE  SessionInv'
<1>1. SessionsTypeOK'
  BY DEF SessionInv, SessionsTypeOK
<1>2. Grows /\ DOMAIN tokens' = DOMAIN tokens
  BY DEF Grows
<1>3. ASSUME NEW q \in Phones, q # p PROVE StandsBy(q)
  BY <1>3 DEF StandsBy, Spares
<1> QED
  BY <1>1, <1>2, <1>3, OwnStep

\* The calls of the others, when one of p's changes.
LEMMA OthersCalls ==
  ASSUME SessionInv, NEW p \in Phones, NEW c \in TokenCalls,
         \A d \in TokenCalls : d # c => call'[d] = call[d],
         call[c] = NoCall \/ Of(c, p), call'[c] = NoCall \/ Of(c, p)'
  PROVE  \A q \in Phones : q # p =>
           \A d \in TokenCalls : (Of(d, q)' <=> Of(d, q)) /\ (Of(d, q) => call'[d] = call[d])
  BY OwnCall

LEMMA SentCall ==
  ASSUME NEW p \in Phones, NEW kind \in {"login", "refresh"}, NEW t \in TokenId \cup {NoToken}
  PROVE  LET sent == Sent(kind, p, t) IN
         /\ sent \in Call /\ sent # NoCall /\ sent.kind = kind /\ sent.phone = p
         /\ sent.token = t /\ sent.next = NoToken /\ sent.at = "sent"
<1>1. Sent(kind, p, t) \in Call
  BY DEF Sent, Call
<1> QED
  BY <1>1, NoAssumption DEF Sent

LEMMA LeavingFields ==
  ASSUME NEW l \in Leaving
  PROVE  /\ l.at \in {"no", "erase", "forget", "asked"}
         /\ l.at = "asked" => l.token \in TokenId
         /\ l.at # "asked" => l.token = NoToken
         /\ l.at = "no" <=> l = Staying
  BY DEF Leaving, Staying

\* What a phone waits for, and where a phone every answer reached can be.
LEMMA Places ==
  ASSUME SessionInv, NEW p \in Phones
  PROVE  /\ refreshing[p] # NoCall => refreshing[p] \in TokenCalls /\ Of(refreshing[p], p) /\ call[refreshing[p]].kind = "refresh"
         /\ entering[p] # NoCall => entering[p] \in TokenCalls /\ Of(entering[p], p) /\ call[entering[p]].kind = "login"
         /\ inMemory[p] \in TokenId \cup {NoToken} /\ inKeystore[p] \in TokenId \cup {NoToken}
         /\ leaving[p] \in Leaving
         /\ ~missed[p] => /\ \A c \in TokenCalls : Of(c, p) => c \in {refreshing[p], entering[p]}
                          /\ Rests(p) \/ Enters(p) \/ Refreshes(p) \/ Leaves(p)
  BY DEF SessionInv, SessionsTypeOK, Waits, Steady

LEMMA AskRefreshKeeps ==
  ASSUME SessionInv, NEW p \in Phones, NEW c \in TokenCalls, AskRefresh(p, c)
  PROVE  SessionInv'
<1> DEFINE m == inMemory[p]
           sent == Sent("refresh", p, m)
<1>1. m \in TokenId /\ c # NoCall /\ call[c] = NoCall /\ refreshing[p] = NoCall
  BY NoAssumption, Places DEF AskRefresh
<1>2. /\ sent \in Call /\ sent # NoCall /\ sent.kind = "refresh" /\ sent.phone = p
      /\ sent.token = m /\ sent.next = NoToken /\ sent.at = "sent"
  BY <1>1, SentCall
<1>3. /\ call' = [call EXCEPT ![c] = sent]
      /\ refreshing' = [refreshing EXCEPT ![p] = c]
      /\ missed' = [missed EXCEPT ![p] = @ \/ leaving[p] # Staying]
      /\ UNCHANGED <<accountActive, tokens, inMemory, inKeystore, entering, leaving>>
  BY DEF AskRefresh
<1> HIDE DEF sent
<1>4. /\ call' \in [TokenCalls -> Call \cup {NoCall}] /\ call'[c] = sent
      /\ \A d \in TokenCalls : d # c => call'[d] = call[d]
      /\ refreshing' \in [Phones -> TokenCalls \cup {NoCall}] /\ refreshing'[p] = c
      /\ \A q \in Phones : q # p => refreshing'[q] = refreshing[q]
  BY <1>2, <1>3 DEF SessionInv, SessionsTypeOK
<1>5. /\ missed' \in [Phones -> BOOLEAN] /\ (~missed'[p] => ~missed[p] /\ leaving[p] = Staying)
      /\ \A q \in Phones : q # p => missed'[q] = missed[q]
  BY <1>3, Zenon DEF SessionInv, SessionsTypeOK
<1>6. \A q \in Phones : q # p =>
        \A d \in TokenCalls : (Of(d, q)' <=> Of(d, q)) /\ (Of(d, q) => call'[d] = call[d])
  BY <1>1, <1>2, <1>4, OthersCalls DEF Of
<1>7. \A t \in TokenId : Holds(p, t)' => Holds(p, t)
  BY <1>2, <1>3, <1>4, NoAssumption DEF Holds, Of
<1>8. \A d \in TokenCalls : Presents(d)'
  BY <1>1, <1>2, <1>4 DEF SessionInv, Issued, Presents
<1>9. Waits(p)'
  BY <1>1, <1>2, <1>3, <1>4, Places DEF Waits, Of
<1>10. Steady(p)'
  <2> SUFFICES ASSUME ~missed'[p]
               PROVE  (\A d \in TokenCalls : Of(d, p)' => d \in {refreshing'[p], entering'[p]}) /\ Refreshes(p)'
    BY DEF Steady
  <2>1. Rests(p) /\ \A d \in TokenCalls : Of(d, p) => d \in {refreshing[p], entering[p]}
    BY <1>1, <1>5, Places DEF AskRefresh, Enters, Refreshes, Leaves
  <2>2. \A d \in TokenCalls : d # NoCall
    BY NoAssumption
  <2>3. \A d \in TokenCalls : Of(d, p)' => d \in {refreshing'[p], entering'[p]}
    BY <1>1, <1>4, <2>1, <2>2 DEF Rests, Of
  <2>4. m # NoToken /\ Sole(m)' /\ inKeystore[p] = m
    BY <1>1, <1>3, <2>1, NoAssumption DEF Rests, Sole, Live
  <2> QED
    BY <1>1, <1>2, <1>3, <1>4, <2>1, <2>3, <2>4 DEF Refreshes, Rests
<1> QED
  BY <1>3, <1>4, <1>5, <1>6, <1>7, <1>8, <1>9, <1>10, PhoneStep DEF SessionInv, SessionsTypeOK

LEMMA AskLoginKeeps ==
  ASSUME SessionInv, NEW p \in Phones, NEW c \in TokenCalls, AskLogin(p, c)
  PROVE  SessionInv'
<1> DEFINE sent == Sent("login", p, NoToken)
<1>1. /\ inMemory[p] = NoToken /\ c # NoCall /\ call[c] = NoCall /\ entering[p] = NoCall
      /\ leaving[p] = Staying
  BY NoAssumption DEF AskLogin
<1>2. /\ sent \in Call /\ sent # NoCall /\ sent.kind = "login" /\ sent.phone = p
      /\ sent.token = NoToken /\ sent.next = NoToken /\ sent.at = "sent"
  BY SentCall
<1>3. /\ call' = [call EXCEPT ![c] = sent]
      /\ entering' = [entering EXCEPT ![p] = c]
      /\ UNCHANGED <<accountActive, tokens, inMemory, inKeystore, refreshing, leaving, missed>>
  BY DEF AskLogin
<1> HIDE DEF sent
<1>4. /\ call' \in [TokenCalls -> Call \cup {NoCall}] /\ call'[c] = sent
      /\ \A d \in TokenCalls : d # c => call'[d] = call[d]
      /\ entering' \in [Phones -> TokenCalls \cup {NoCall}] /\ entering'[p] = c
      /\ \A q \in Phones : q # p => entering'[q] = entering[q]
  BY <1>2, <1>3 DEF SessionInv, SessionsTypeOK
<1>6. \A q \in Phones : q # p =>
        \A d \in TokenCalls : (Of(d, q)' <=> Of(d, q)) /\ (Of(d, q) => call'[d] = call[d])
  BY <1>1, <1>2, <1>4, OthersCalls DEF Of
<1>7. \A t \in TokenId : Holds(p, t)' => Holds(p, t)
  BY <1>2, <1>3, <1>4, NoAssumption DEF Holds, Of
<1>8. \A d \in TokenCalls : Presents(d)'
  BY <1>1, <1>2, <1>4 DEF SessionInv, Issued, Presents
<1>9. Waits(p)'
  BY <1>1, <1>2, <1>3, <1>4, Places DEF Waits, Of
<1>10. Steady(p)'
  <2> SUFFICES ASSUME ~missed[p]
               PROVE  (\A d \in TokenCalls : Of(d, p)' => d \in {refreshing'[p], entering'[p]}) /\ Enters(p)'
    BY <1>3 DEF Steady
  <2>1. Rests(p) /\ \A d \in TokenCalls : Of(d, p) => d \in {refreshing[p], entering[p]}
    BY <1>1, Places DEF Enters, Refreshes, Leaves
  <2>2. \A d \in TokenCalls : d # NoCall
    BY NoAssumption
  <2>3. \A d \in TokenCalls : Of(d, p)' => d \in {refreshing'[p], entering'[p]}
    BY <1>1, <1>4, <2>1, <2>2 DEF Rests, Of
  <2> QED
    BY <1>1, <1>2, <1>3, <1>4, <2>1, <2>3 DEF Enters, Rests
<1> QED
  BY <1>3, <1>4, <1>6, <1>7, <1>8, <1>9, <1>10, PhoneStep DEF SessionInv, SessionsTypeOK

LEMMA KeepKeeps ==
  ASSUME SessionInv, NEW p \in Phones, NEW c \in TokenCalls, Keep(p, c)
  PROVE  SessionInv'
<1>1. /\ c \in {refreshing[p], entering[p]} /\ c # NoCall /\ call[c] # NoCall /\ call[c].at = "answered"
      /\ Awaited(c)
  BY NoAssumption DEF Keep, CallAt, Awaited
<1>2. PICK next : next = call[c].next
  OBVIOUS
<1>3. Of(c, p) /\ next \in TokenId \cup {NoToken}
  BY <1>1, <1>2, Places, CallFields DEF SessionInv
<1>4. /\ MoveCall(c, "kept", next) /\ inKeystore' = [inKeystore EXCEPT ![p] = next]
      /\ UNCHANGED <<accountActive, tokens, inMemory, refreshing, entering, leaving, missed>>
  BY <1>2 DEF Keep
<1>5. /\ call' \in [TokenCalls -> Call \cup {NoCall}]
      /\ \A d \in TokenCalls : d # c => call'[d] = call[d]
      /\ call'[c] # NoCall /\ call'[c].at = "kept" /\ call'[c].next = next
      /\ call'[c].kind = call[c].kind /\ call'[c].phone = call[c].phone
      /\ call'[c].token = call[c].token
  BY <1>1, <1>3, <1>4, CallMoves DEF SessionInv
<1>6. /\ inKeystore' \in [Phones -> TokenId \cup {NoToken}] /\ inKeystore'[p] = next
      /\ \A q \in Phones : q # p => inKeystore'[q] = inKeystore[q]
  BY <1>3, <1>4 DEF SessionInv, SessionsTypeOK
<1>7. \A q \in Phones : q # p =>
        \A d \in TokenCalls : (Of(d, q)' <=> Of(d, q)) /\ (Of(d, q) => call'[d] = call[d])
  BY <1>3, <1>5, OthersCalls DEF Of
<1>8. Holds(p, next)
  BY <1>2, <1>3 DEF Holds
<1>9. \A t \in TokenId : Holds(p, t)' => Holds(p, t)
  <2> SUFFICES ASSUME NEW t \in TokenId, Holds(p, t)', t # next PROVE Holds(p, t)
    BY <1>8
  <2>1. CASE t \in {inMemory'[p], inKeystore'[p], leaving'[p].token}
    BY <1>4, <1>6, <2>1 DEF Holds
  <2>2. CASE \E d \in TokenCalls : Of(d, p)' /\ t \in {call'[d].token, call'[d].next}
    BY <1>3, <1>5, <2>2 DEF Holds, Of
  <2> QED
    BY <2>1, <2>2 DEF Holds
<1>10. \A d \in TokenCalls : Presents(d)'
  BY <1>1, <1>5 DEF SessionInv, Issued, Presents
<1>11. Waits(p)'
  BY <1>4, <1>5, Places DEF Waits, Of
<1>12. Steady(p)'
  <2> SUFFICES ASSUME ~missed[p]
               PROVE  (\A d \in TokenCalls : Of(d, p)' => d \in {refreshing'[p], entering'[p]})
                      /\ (Enters(p)' \/ Refreshes(p)')
    BY <1>4 DEF Steady
  <2>1. \A d \in TokenCalls : Of(d, p)' => d \in {refreshing'[p], entering'[p]}
    BY <1>3, <1>4, <1>5, Places DEF Of
  <2>2. CASE c = refreshing[p] /\ Refreshes(p)
    <3>1. Sole(next)'
      BY <1>1, <1>2, <1>4, <2>2 DEF Refreshes, Sole, Live
    <3> QED
      BY <1>1, <1>4, <1>5, <1>6, <2>1, <2>2, <3>1 DEF Refreshes
  <2>3. CASE c = entering[p] /\ Enters(p)
    <3>1. Sole(next)'
      BY <1>1, <1>2, <1>4, <2>3 DEF Enters, Sole, Live
    <3> QED
      BY <1>1, <1>4, <1>5, <1>6, <2>1, <2>3, <3>1 DEF Enters
  <2> QED
    BY <1>3, <2>2, <2>3, Standing
<1> QED
  BY <1>4, <1>5, <1>6, <1>7, <1>9, <1>10, <1>11, <1>12, PhoneStep DEF SessionInv, SessionsTypeOK

\* A call of p's that ends.
LEMMA CallEnds ==
  ASSUME SessionInv, NEW p \in Phones, NEW c \in TokenCalls, Of(c, p), call' = [call EXCEPT ![c] = NoCall]
  PROVE  /\ call' \in [TokenCalls -> Call \cup {NoCall}] /\ call'[c] = NoCall
         /\ \A d \in TokenCalls : d # c => call'[d] = call[d]
         /\ \A q \in Phones : q # p =>
              \A d \in TokenCalls : (Of(d, q)' <=> Of(d, q)) /\ (Of(d, q) => call'[d] = call[d])
         /\ \A d \in TokenCalls : Of(d, p)' => Of(d, p) /\ d # c /\ call'[d] = call[d]
         /\ \A d \in TokenCalls : Presents(d)'
<1>1. /\ call' \in [TokenCalls -> Call \cup {NoCall}] /\ call'[c] = NoCall
      /\ \A d \in TokenCalls : d # c => call'[d] = call[d]
  BY DEF SessionInv, SessionsTypeOK
<1>2. \A d \in TokenCalls : Presents(d)'
  BY <1>1 DEF SessionInv, Issued, Presents
<1> QED
  BY <1>1, <1>2, OthersCalls DEF Of

LEMMA AdoptKeeps ==
  ASSUME SessionInv, NEW p \in Phones, NEW c \in TokenCalls, Adopt(p, c)
  PROVE  SessionInv'
<1>1. /\ c \in {refreshing[p], entering[p]} /\ c # NoCall /\ call[c] # NoCall /\ call[c].at = "kept"
  BY NoAssumption DEF Adopt, CallAt
<1>2. PICK next : next = call[c].next
  OBVIOUS
<1>3. Of(c, p) /\ next \in TokenId \cup {NoToken} /\ Holds(p, next)
  BY <1>1, <1>2, Places, CallFields DEF SessionInv, Holds
<1>4. /\ call' = [call EXCEPT ![c] = NoCall] /\ inMemory' = [inMemory EXCEPT ![p] = next]
      /\ refreshing' = [refreshing EXCEPT ![p] = IF @ = c THEN NoCall ELSE @]
      /\ entering' = [entering EXCEPT ![p] = IF @ = c THEN NoCall ELSE @]
      /\ UNCHANGED <<accountActive, tokens, inKeystore, leaving, missed>>
  BY <1>2 DEF Adopt
<1>5. /\ call' \in [TokenCalls -> Call \cup {NoCall}] /\ call'[c] = NoCall
      /\ \A d \in TokenCalls : d # c => call'[d] = call[d]
      /\ \A q \in Phones : q # p =>
           \A d \in TokenCalls : (Of(d, q)' <=> Of(d, q)) /\ (Of(d, q) => call'[d] = call[d])
      /\ \A d \in TokenCalls : Of(d, p)' => Of(d, p) /\ d # c /\ call'[d] = call[d]
      /\ \A d \in TokenCalls : Presents(d)'
  BY <1>3, <1>4, CallEnds
<1>6. /\ inMemory' \in [Phones -> TokenId \cup {NoToken}] /\ inMemory'[p] = next
      /\ refreshing' \in [Phones -> TokenCalls \cup {NoCall}]
      /\ entering' \in [Phones -> TokenCalls \cup {NoCall}]
      /\ refreshing'[p] = IF refreshing[p] = c THEN NoCall ELSE refreshing[p]
      /\ entering'[p] = IF entering[p] = c THEN NoCall ELSE entering[p]
      /\ \A q \in Phones : q # p =>
           inMemory'[q] = inMemory[q] /\ refreshing'[q] = refreshing[q] /\ entering'[q] = entering[q]
  BY <1>3, <1>4 DEF SessionInv, SessionsTypeOK
<1>7. \A t \in TokenId : Holds(p, t)' => Holds(p, t)
  <2> SUFFICES ASSUME NEW t \in TokenId, Holds(p, t)', t # next PROVE Holds(p, t)
    BY <1>3
  <2>1. CASE t \in {inMemory'[p], inKeystore'[p], leaving'[p].token}
    BY <1>4, <1>6, <2>1 DEF Holds
  <2>2. CASE \E d \in TokenCalls : Of(d, p)' /\ t \in {call'[d].token, call'[d].next}
    BY <1>5, <2>2 DEF Holds
  <2> QED
    BY <2>1, <2>2 DEF Holds
<1>8. Waits(p)'
  BY <1>5, <1>6, Places DEF Waits, Of
<1>9. Steady(p)'
  <2> SUFFICES ASSUME ~missed[p]
               PROVE  (\A d \in TokenCalls : Of(d, p)' => d \in {refreshing'[p], entering'[p]}) /\ Rests(p)'
    BY <1>4 DEF Steady
  <2>1. \A d \in TokenCalls : Of(d, p)' => d \in {refreshing'[p], entering'[p]}
    BY <1>5, <1>6, Places
  <2>2. /\ (c = refreshing[p] /\ entering[p] = NoCall) \/ (c = entering[p] /\ refreshing[p] = NoCall)
        /\ leaving[p] = Staying /\ inKeystore[p] = next /\ Sole(next)
    <3>1. CASE c = refreshing[p] /\ Refreshes(p)
      BY <1>1, <1>2, <3>1 DEF Refreshes
    <3>2. CASE c = entering[p] /\ Enters(p)
      BY <1>1, <1>2, <3>2 DEF Enters
    <3> QED
      BY <1>3, <3>1, <3>2, Standing
  <2>3. Sole(next)'
    BY <1>4, <2>2 DEF Sole, Live
  <2> QED
    BY <1>4, <1>6, <2>1, <2>2, <2>3 DEF Rests
<1> QED
  BY <1>4, <1>5, <1>6, <1>7, <1>8, <1>9, PhoneStep DEF SessionInv, SessionsTypeOK

LEMMA RefreshFailsKeeps ==
  ASSUME SessionInv, NEW p \in Phones, NEW c \in TokenCalls, RefreshFails(p, c)
  PROVE  SessionInv'
<1> DEFINE erase == [at |-> "erase", token |-> NoToken]
<1>1. /\ c = refreshing[p] /\ c # NoCall /\ call[c] # NoCall /\ call[c].at \in {"refused", "lost"}
      /\ call' = [call EXCEPT ![c] = NoCall] /\ refreshing' = [refreshing EXCEPT ![p] = NoCall]
      /\ UNCHANGED <<accountActive, tokens, inMemory, inKeystore, entering, missed>>
      /\ \/ leaving' = leaving
         \/ leaving[p] = Staying /\ leaving' = [leaving EXCEPT ![p] = erase]
  BY NoAssumption DEF RefreshFails, CallAt
<1>2. Of(c, p)
  BY <1>1, Places
<1>3. /\ call' \in [TokenCalls -> Call \cup {NoCall}] /\ call'[c] = NoCall
      /\ \A d \in TokenCalls : d # c => call'[d] = call[d]
      /\ \A q \in Phones : q # p =>
           \A d \in TokenCalls : (Of(d, q)' <=> Of(d, q)) /\ (Of(d, q) => call'[d] = call[d])
      /\ \A d \in TokenCalls : Of(d, p)' => Of(d, p) /\ d # c /\ call'[d] = call[d]
      /\ \A d \in TokenCalls : Presents(d)'
  BY <1>1, <1>2, CallEnds
<1>4. erase \in Leaving /\ erase # Staying /\ erase.token = NoToken /\ erase.at = "erase"
  BY DEF Leaving, Staying
<1> HIDE DEF erase
<1>5. /\ refreshing' \in [Phones -> TokenCalls \cup {NoCall}] /\ refreshing'[p] = NoCall
      /\ leaving' \in [Phones -> Leaving]
      /\ leaving'[p] = leaving[p] \/ (leaving[p] = Staying /\ leaving'[p] = erase)
      /\ \A q \in Phones : q # p => refreshing'[q] = refreshing[q] /\ leaving'[q] = leaving[q]
  BY <1>1, <1>4 DEF SessionInv, SessionsTypeOK
<1>6. \A t \in TokenId : Holds(p, t)' => Holds(p, t)
  BY <1>1, <1>3, <1>4, <1>5, NoAssumption DEF Holds
<1>7. Waits(p)'
  <2>1. entering[p] # c
    BY <1>1, Places
  <2> QED
    BY <1>1, <1>3, <1>5, <2>1, Places DEF Waits, Of
<1>8. Steady(p)'
  <2> SUFFICES ASSUME ~missed[p]
               PROVE  (\A d \in TokenCalls : Of(d, p)' => d \in {refreshing'[p], entering'[p]})
                      /\ (Rests(p)' \/ Leaves(p)')
    BY <1>1 DEF Steady
  <2>1. \A d \in TokenCalls : Of(d, p)' => d \in {refreshing'[p], entering'[p]}
    BY <1>1, <1>3, <1>5, Places
  <2>2. Refreshes(p)
    BY <1>1, <1>2, Standing, Places
  <2>3. inKeystore[p] = inMemory[p] /\ Sole(inMemory[p]) /\ entering[p] = NoCall /\ leaving[p] = Staying
    BY <1>1, <2>2 DEF Refreshes
  <2>4. Sole(inMemory[p])'
    BY <1>1, <2>3 DEF Sole, Live
  <2>5. CASE leaving'[p] = Staying
    BY <1>1, <1>5, <2>1, <2>3, <2>4, <2>5 DEF Rests
  <2>6. CASE leaving'[p] = erase
    BY <1>1, <1>4, <1>5, <2>1, <2>3, <2>6 DEF Leaves
  <2> QED
    BY <1>5, <2>3, <2>5, <2>6
<1> QED
  BY <1>1, <1>3, <1>5, <1>6, <1>7, <1>8, PhoneStep DEF SessionInv, SessionsTypeOK

LEMMA LoginFailsKeeps ==
  ASSUME SessionInv, NEW p \in Phones, NEW c \in TokenCalls, LoginFails(p, c)
  PROVE  SessionInv'
<1>1. /\ c = entering[p] /\ c # NoCall /\ call[c] # NoCall /\ call[c].at \in {"refused", "lost"}
      /\ call' = [call EXCEPT ![c] = NoCall] /\ entering' = [entering EXCEPT ![p] = NoCall]
      /\ UNCHANGED <<accountActive, tokens, inMemory, inKeystore, refreshing, leaving, missed>>
  BY NoAssumption DEF LoginFails, CallAt
<1>2. Of(c, p)
  BY <1>1, Places
<1>3. /\ call' \in [TokenCalls -> Call \cup {NoCall}] /\ call'[c] = NoCall
      /\ \A d \in TokenCalls : d # c => call'[d] = call[d]
      /\ \A q \in Phones : q # p =>
           \A d \in TokenCalls : (Of(d, q)' <=> Of(d, q)) /\ (Of(d, q) => call'[d] = call[d])
      /\ \A d \in TokenCalls : Of(d, p)' => Of(d, p) /\ d # c /\ call'[d] = call[d]
      /\ \A d \in TokenCalls : Presents(d)'
  BY <1>1, <1>2, CallEnds
<1>5. /\ entering' \in [Phones -> TokenCalls \cup {NoCall}] /\ entering'[p] = NoCall
      /\ \A q \in Phones : q # p => entering'[q] = entering[q]
  BY <1>1 DEF SessionInv, SessionsTypeOK
<1>6. \A t \in TokenId : Holds(p, t)' => Holds(p, t)
  BY <1>1, <1>3 DEF Holds
<1>7. Waits(p)'
  <2>1. refreshing[p] # c
    BY <1>1, Places
  <2> QED
    BY <1>1, <1>3, <1>5, <2>1, Places DEF Waits, Of
<1>8. Steady(p)'
  <2> SUFFICES ASSUME ~missed[p]
               PROVE  (\A d \in TokenCalls : Of(d, p)' => d \in {refreshing'[p], entering'[p]}) /\ Rests(p)'
    BY <1>1 DEF Steady
  <2>1. \A d \in TokenCalls : Of(d, p)' => d \in {refreshing'[p], entering'[p]}
    BY <1>1, <1>3, <1>5, Places
  <2>2. Enters(p)
    BY <1>1, <1>2, Standing, Places
  <2>3. inKeystore[p] = NoToken /\ inMemory[p] = NoToken /\ refreshing[p] = NoCall /\ leaving[p] = Staying
    BY <1>1, <2>2 DEF Enters
  <2> QED
    BY <1>1, <1>5, <2>1, <2>3 DEF Rests
<1> QED
  BY <1>1, <1>3, <1>5, <1>6, <1>7, <1>8, PhoneStep DEF SessionInv, SessionsTypeOK

\* A step that moves only how far p is with signing out.
LEMMA LeavingStep ==
  ASSUME SessionInv, NEW p \in Phones, NEW l \in Leaving, leaving' = [leaving EXCEPT ![p] = l]
  PROVE  /\ leaving' \in [Phones -> Leaving] /\ leaving'[p] = l
         /\ \A q \in Phones : q # p => leaving'[q] = leaving[q]
  BY DEF SessionInv, SessionsTypeOK

LEMMA TapSignOutKeeps ==
  ASSUME SessionInv, NEW p \in Phones, TapSignOut(p)
  PROVE  SessionInv'
<1> DEFINE l == [at |-> "asked", token |-> inMemory[p]]
<1>1. /\ inMemory[p] # NoToken /\ leaving[p] = Staying
      /\ leaving' = [leaving EXCEPT ![p] = l]
      /\ missed' = [missed EXCEPT ![p] = @ \/ refreshing[p] # NoCall]
      /\ UNCHANGED <<accountActive, tokens, call, inMemory, inKeystore, refreshing, entering>>
  BY DEF TapSignOut
<1>2. l \in Leaving /\ l # Staying /\ l.token = inMemory[p] /\ l.at = "asked"
  BY <1>1, Places DEF Leaving, Staying
<1> HIDE DEF l
<1>3. /\ leaving' \in [Phones -> Leaving] /\ leaving'[p] = l
      /\ \A q \in Phones : q # p => leaving'[q] = leaving[q]
  BY <1>1, <1>2, LeavingStep
<1>4. /\ missed' \in [Phones -> BOOLEAN] /\ (~missed'[p] => ~missed[p] /\ refreshing[p] = NoCall)
      /\ \A q \in Phones : q # p => missed'[q] = missed[q]
  BY <1>1, Zenon DEF SessionInv, SessionsTypeOK
<1>5. \A t \in TokenId : Holds(p, t)' => Holds(p, t)
  BY <1>1, <1>2, <1>3 DEF Holds, Of
<1>6. Waits(p)' /\ \A d \in TokenCalls : Presents(d)'
  BY <1>1, Places DEF Waits, Of, SessionInv, Issued, Presents
<1>7. Steady(p)'
  <2> SUFFICES ASSUME ~missed'[p]
               PROVE  (\A d \in TokenCalls : Of(d, p)' => d \in {refreshing'[p], entering'[p]}) /\ Leaves(p)'
    BY DEF Steady
  <2>1. entering[p] = NoCall
    BY <1>1, <1>4, Places DEF Rests, Enters, Refreshes, Leaves
  <2> QED
    BY <1>1, <1>2, <1>3, <1>4, <2>1, Places DEF Leaves, Of
<1>8. \A q \in Phones : q # p =>
        \A d \in TokenCalls : (Of(d, q)' <=> Of(d, q)) /\ (Of(d, q) => call'[d] = call[d])
  BY <1>1 DEF Of
<1> QED
  BY <1>1, <1>3, <1>4, <1>5, <1>6, <1>7, <1>8, PhoneStep DEF SessionInv, SessionsTypeOK

LEMMA EraseKeeps ==
  ASSUME SessionInv, NEW p \in Phones, Erase(p)
  PROVE  SessionInv'
<1> DEFINE l == [at |-> "forget", token |-> NoToken]
<1>1. /\ leaving[p].at = "erase" /\ leaving' = [leaving EXCEPT ![p] = l]
      /\ inKeystore' = [inKeystore EXCEPT ![p] = NoToken]
      /\ UNCHANGED <<accountActive, tokens, call, inMemory, refreshing, entering, missed>>
  BY DEF Erase
<1>2. l \in Leaving /\ l # Staying /\ l.token = NoToken /\ leaving[p] # Staying
  BY <1>1 DEF Leaving, Staying
<1> HIDE DEF l
<1>3. /\ leaving' \in [Phones -> Leaving] /\ leaving'[p] = l
      /\ \A q \in Phones : q # p => leaving'[q] = leaving[q]
  BY <1>1, <1>2, LeavingStep
<1>4. /\ inKeystore' \in [Phones -> TokenId \cup {NoToken}] /\ inKeystore'[p] = NoToken
      /\ \A q \in Phones : q # p => inKeystore'[q] = inKeystore[q]
  BY <1>1 DEF SessionInv, SessionsTypeOK
<1>5. \A t \in TokenId : Holds(p, t)' => Holds(p, t)
  BY <1>1, <1>2, <1>3, <1>4, NoAssumption DEF Holds, Of
<1>6. Waits(p)' /\ \A d \in TokenCalls : Presents(d)'
  BY <1>1, Places DEF Waits, Of, SessionInv, Issued, Presents
<1>7. Steady(p)'
  <2> SUFFICES ASSUME ~missed[p]
               PROVE  (\A d \in TokenCalls : Of(d, p)' => d \in {refreshing'[p], entering'[p]}) /\ Leaves(p)'
    BY <1>1 DEF Steady
  <2>1. Leaves(p)
    BY <1>2, Places DEF Rests, Enters, Refreshes
  <2> QED
    BY <1>1, <1>2, <1>3, <1>4, <2>1, Places DEF Leaves, Of
<1>8. \A q \in Phones : q # p =>
        \A d \in TokenCalls : (Of(d, q)' <=> Of(d, q)) /\ (Of(d, q) => call'[d] = call[d])
  BY <1>1 DEF Of
<1> QED
  BY <1>1, <1>3, <1>4, <1>5, <1>6, <1>7, <1>8, PhoneStep DEF SessionInv, SessionsTypeOK

LEMMA ForgetKeeps ==
  ASSUME SessionInv, NEW p \in Phones, Forget(p)
  PROVE  SessionInv'
<1>1. /\ leaving[p].at = "forget" /\ leaving' = [leaving EXCEPT ![p] = Staying]
      /\ inMemory' = [inMemory EXCEPT ![p] = NoToken]
      /\ UNCHANGED <<accountActive, tokens, call, inKeystore, refreshing, entering, missed>>
  BY DEF Forget
<1>2. Staying \in Leaving /\ leaving[p] # Staying /\ Staying.token = NoToken
  BY <1>1 DEF Leaving, Staying
<1>3. /\ leaving' \in [Phones -> Leaving] /\ leaving'[p] = Staying
      /\ \A q \in Phones : q # p => leaving'[q] = leaving[q]
  BY <1>1, <1>2, LeavingStep
<1>4. /\ inMemory' \in [Phones -> TokenId \cup {NoToken}] /\ inMemory'[p] = NoToken
      /\ \A q \in Phones : q # p => inMemory'[q] = inMemory[q]
  BY <1>1 DEF SessionInv, SessionsTypeOK
<1>5. \A t \in TokenId : Holds(p, t)' => Holds(p, t)
  BY <1>1, <1>2, <1>3, <1>4, NoAssumption DEF Holds, Of
<1>6. Waits(p)' /\ \A d \in TokenCalls : Presents(d)'
  BY <1>1, Places DEF Waits, Of, SessionInv, Issued, Presents
<1>7. Steady(p)'
  <2> SUFFICES ASSUME ~missed[p]
               PROVE  (\A d \in TokenCalls : Of(d, p)' => d \in {refreshing'[p], entering'[p]}) /\ Rests(p)'
    BY <1>1 DEF Steady
  <2>1. Leaves(p)
    BY <1>2, Places DEF Rests, Enters, Refreshes
  <2> QED
    BY <1>1, <1>3, <1>4, <2>1, Places DEF Leaves, Rests, Of
<1>8. \A q \in Phones : q # p =>
        \A d \in TokenCalls : (Of(d, q)' <=> Of(d, q)) /\ (Of(d, q) => call'[d] = call[d])
  BY <1>1 DEF Of
<1> QED
  BY <1>1, <1>3, <1>4, <1>5, <1>6, <1>7, <1>8, PhoneStep DEF SessionInv, SessionsTypeOK

LEMMA LogoutEndsKeeps ==
  ASSUME SessionInv, NEW p \in Phones, LogoutEnds(p)
  PROVE  SessionInv'
<1> DEFINE l == [at |-> "erase", token |-> NoToken]
<1>1. /\ leaving[p].at = "asked" /\ leaving' = [leaving EXCEPT ![p] = l]
      /\ UNCHANGED <<accountActive, call, inMemory, inKeystore, refreshing, entering, missed>>
      /\ Revoke({leaving[p].token}, "logout") \/ UNCHANGED tokens
  BY DEF LogoutEnds
<1>2. l \in Leaving /\ l # Staying /\ l.token = NoToken /\ l.at = "erase" /\ leaving[p] # Staying
  BY <1>1 DEF Leaving, Staying
<1> HIDE DEF l
<1>3. PICK out : out = leaving[p].token
  OBVIOUS
<1>4. out \in TokenId /\ Holds(p, out) /\ out \in DOMAIN tokens
  <2>1. out \in TokenId
    BY <1>1, <1>3, Places, LeavingFields
  <2> QED
    BY <1>3, <2>1 DEF Holds, SessionInv, Issued
<1>5. /\ leaving' \in [Phones -> Leaving] /\ leaving'[p] = l
      /\ \A q \in Phones : q # p => leaving'[q] = leaving[q]
  BY <1>1, <1>2, LeavingStep
<1>6. /\ tokens' \in Seq(Token) /\ Len(tokens') = Len(tokens) /\ DOMAIN tokens' = DOMAIN tokens
      /\ \A t \in DOMAIN tokens :
           /\ tokens'[t].family = tokens[t].family
           /\ t # out => tokens'[t].gone = tokens[t].gone
  <2>1. CASE tokens' = tokens
    BY <2>1 DEF SessionInv, SessionsTypeOK
  <2>2. CASE Revoke({out}, "logout")
    BY <2>2, Revoked DEF SessionInv
  <2> QED
    BY <1>1, <1>3, <2>1, <2>2
<1>7. Grows /\ SessionsTypeOK'
  BY <1>1, <1>5, <1>6 DEF SessionInv, SessionsTypeOK, Grows
<1>8. ASSUME NEW q \in Phones, q # p PROVE StandsBy(q)
  <2>1. PICK f : f = tokens[out].family
    OBVIOUS
  <2>2. \A t \in DOMAIN tokens : Holds(q, t) => Spares(tokens[t].family)
    BY <1>4, <1>6, <1>7, <1>8, <2>1, OwnFamily
  <2> QED
    BY <1>1, <1>5, <1>8, <2>2 DEF StandsBy, Of
<1>9. \A t \in TokenId : Holds(p, t)' => Holds(p, t)
  BY <1>1, <1>2, <1>5, NoAssumption DEF Holds, Of
<1>10. Waits(p)' /\ \A d \in TokenCalls : Presents(d)'
  BY <1>1, Places DEF Waits, Of, SessionInv, Issued, Presents
<1>11. Steady(p)'
  <2> SUFFICES ASSUME ~missed[p]
               PROVE  (\A d \in TokenCalls : Of(d, p)' => d \in {refreshing'[p], entering'[p]}) /\ Leaves(p)'
    BY <1>1 DEF Steady
  <2>1. Leaves(p)
    BY <1>2, Places DEF Rests, Enters, Refreshes
  <2> QED
    BY <1>1, <1>2, <1>5, <2>1, Places DEF Leaves, Of
<1> QED
  BY <1>6, <1>7, <1>8, <1>9, <1>10, <1>11, OwnStep

LEMMA RestartAppKeeps ==
  ASSUME SessionInv, NEW p \in Phones, RestartApp(p)
  PROVE  SessionInv'
<1> DEFINE mine == {refreshing[p], entering[p]}
<1>1. /\ missed' = [missed EXCEPT ![p] = @ \/ mine # {NoCall} \/ leaving[p] # Staying]
      /\ inMemory' = [inMemory EXCEPT ![p] = inKeystore[p]]
      /\ refreshing' = [refreshing EXCEPT ![p] = NoCall]
      /\ entering' = [entering EXCEPT ![p] = NoCall]
      /\ leaving' = [leaving EXCEPT ![p] = Staying]
      /\ call' = [c \in TokenCalls |->
           IF c \in mine /\ call[c].at \in Ended \cup {"kept"} THEN NoCall ELSE call[c]]
      /\ UNCHANGED <<accountActive, tokens, inKeystore>>
  BY DEF RestartApp
<1>2. Staying \in Leaving /\ Staying.token = NoToken
  BY DEF Leaving, Staying
<1>3. /\ leaving' \in [Phones -> Leaving] /\ leaving'[p] = Staying
      /\ \A q \in Phones : q # p => leaving'[q] = leaving[q]
  BY <1>1, <1>2, LeavingStep
<1>4. /\ missed' \in [Phones -> BOOLEAN]
      /\ ~missed'[p] => ~missed[p] /\ mine = {NoCall} /\ leaving[p] = Staying
      /\ \A q \in Phones : q # p => missed'[q] = missed[q]
  BY <1>1, Zenon DEF SessionInv, SessionsTypeOK
<1>5. /\ inMemory' \in [Phones -> TokenId \cup {NoToken}] /\ inMemory'[p] = inKeystore[p]
      /\ refreshing' \in [Phones -> TokenCalls \cup {NoCall}] /\ refreshing'[p] = NoCall
      /\ entering' \in [Phones -> TokenCalls \cup {NoCall}] /\ entering'[p] = NoCall
      /\ \A q \in Phones : q # p =>
           inMemory'[q] = inMemory[q] /\ refreshing'[q] = refreshing[q] /\ entering'[q] = entering[q]
  BY <1>1 DEF SessionInv, SessionsTypeOK
<1>6. \A c \in TokenCalls : c \in mine => Of(c, p)
  BY NoAssumption, Places
<1>7. /\ call' \in [TokenCalls -> Call \cup {NoCall}]
      /\ \A c \in TokenCalls : call'[c] = call[c] \/ (call'[c] = NoCall /\ Of(c, p))
  BY <1>1, <1>6 DEF SessionInv, SessionsTypeOK
<1>8. \A q \in Phones : q # p =>
        \A d \in TokenCalls : (Of(d, q)' <=> Of(d, q)) /\ (Of(d, q) => call'[d] = call[d])
  BY <1>7 DEF Of
<1>9. \A t \in TokenId : Holds(p, t)' => Holds(p, t)
  BY <1>1, <1>2, <1>3, <1>5, <1>7, NoAssumption DEF Holds, Of
<1>10. Waits(p)' /\ \A d \in TokenCalls : Presents(d)'
  BY <1>5, <1>7 DEF Waits, SessionInv, Issued, Presents
<1>11. Steady(p)'
  <2> SUFFICES ASSUME ~missed'[p]
               PROVE  (\A d \in TokenCalls : Of(d, p)' => d \in {refreshing'[p], entering'[p]}) /\ Rests(p)'
    BY DEF Steady
  <2>1. refreshing[p] = NoCall /\ entering[p] = NoCall
    BY <1>4
  <2>2. Rests(p)
    BY <1>4, <2>1, Places DEF Enters, Refreshes, Leaves
  <2>3. \A d \in TokenCalls : Of(d, p)' => d \in {refreshing'[p], entering'[p]}
    BY <1>4, <1>5, <1>7, <2>1, Places DEF Of
  <2> QED
    BY <1>1, <1>3, <1>5, <2>2, <2>3 DEF Rests, Sole, Live
<1> QED
  BY <1>1, <1>3, <1>4, <1>5, <1>7, <1>8, <1>9, <1>10, <1>11, PhoneStep DEF SessionInv, SessionsTypeOK

-----------------------------------------------------------------------------
(* The invariant.                                                          *)

LEMMA SessionStart == SessionsInit => SessionInv
<1> SUFFICES ASSUME SessionsInit PROVE SessionInv
  OBVIOUS
<1>1. SessionsTypeOK
  <2>1. Staying \in Leaving
    BY DEF Leaving, Staying
  <2>2. tokens \in Seq(Token) /\ Len(tokens) <= MaxTokens
    BY MaxTokensAssumption DEF SessionsInit
  <2> QED
    BY <2>1, <2>2 DEF SessionsInit, SessionsTypeOK
<1>2. DOMAIN tokens = {} /\ \A p \in Phones, t \in TokenId : ~Holds(p, t)
  BY NoAssumption DEF SessionsInit, Holds, Of, Staying
<1>3. Issued /\ Apart
  BY <1>2 DEF Issued, Apart, Presents, SessionsInit
<1>4. ASSUME NEW p \in Phones PROVE Waits(p) /\ Steady(p)
  BY DEF Waits, Steady, Rests, Of, SessionsInit
<1> QED
  BY <1>1, <1>3, <1>4 DEF SessionInv

LEMMA SessionStep == SessionInv /\ [SessionsNext]_sessionVars => SessionInv'
<1> SUFFICES ASSUME SessionInv, [SessionsNext]_sessionVars
             PROVE  SessionInv'
  OBVIOUS
<1>1. ASSUME NEW c \in TokenCalls, ReadToken(c) \/ RevokeFamily(c) \/ MintNext(c) \/ RetireOld(c)
      PROVE  SessionInv'
  BY <1>1, ReadTokenKeeps, RevokeFamilyKeeps, MintNextKeeps, RetireOldKeeps
<1>2. ASSUME NEW c \in TokenCalls, ReadAccount(c) \/ IssuePair(c) \/ LoseAnswer(c)
      PROVE  SessionInv'
  BY <1>2, ReadAccountKeeps, IssuePairKeeps, LoseAnswerKeeps
<1>3. CASE RevokeAll
  BY <1>3, RevokeAllKeeps
<1>4. CASE DecideAccount
  BY <1>4, DecideAccountKeeps
<1>5. ASSUME NEW p \in Phones, NEW c \in TokenCalls, AskRefresh(p, c) \/ AskLogin(p, c) \/ Keep(p, c)
      PROVE  SessionInv'
  BY <1>5, AskRefreshKeeps, AskLoginKeeps, KeepKeeps
<1>6. ASSUME NEW p \in Phones, NEW c \in TokenCalls, Adopt(p, c) \/ RefreshFails(p, c) \/ LoginFails(p, c)
      PROVE  SessionInv'
  BY <1>6, AdoptKeeps, RefreshFailsKeeps, LoginFailsKeeps
<1>7. ASSUME NEW p \in Phones, TapSignOut(p) \/ LogoutEnds(p) \/ Erase(p) \/ Forget(p) \/ RestartApp(p)
      PROVE  SessionInv'
  BY <1>7, TapSignOutKeeps, LogoutEndsKeeps, EraseKeeps, ForgetKeeps, RestartAppKeeps
<1>8. CASE UNCHANGED sessionVars
  <2>1. SessionsTypeOK' /\ Grows /\ call' = call /\ tokens' = tokens
    BY <1>8 DEF SessionInv, SessionsTypeOK, Grows, sessionVars, phoneVars
  <2>2. ASSUME NEW q \in Phones PROVE StandsBy(q)
    BY <1>8, <2>1 DEF StandsBy, Spares, sessionVars, phoneVars, Of
  <2> QED
    BY <2>1, <2>2, NobodysStep
<1> QED
  BY <1>1, <1>2, <1>3, <1>4, <1>5, <1>6, <1>7, <1>8 DEF SessionsNext

\* A family of refresh tokens (token.service.ts) is one phone's alone, and a
\* phone every answer has reached is at rest, signing in, refreshing or signing
\* out, each with one live token whose place is known.
THEOREM SessionInvHolds == SessionsSpec => []SessionInv
  BY SessionStart, SessionStep, PTL DEF SessionsSpec

\* Every variable of the token service and of the phones keeps its shape.
THEOREM SessionTyping == SessionsSpec => []SessionsTypeOK
<1>1. SessionInv => SessionsTypeOK
  BY DEF SessionInv
<1> QED
  BY <1>1, SessionInvHolds, PTL

\* client.ts: with one refresh at a time, a quiet phone that every answer reached
\* holds the one token of its family that rotation has left, in memory and in its
\* keystore, whatever order rotations, sign-outs, restarts and resets came in.
THEOREM SessionsHold == SessionsSpec => []SessionHolds
<1>1. SessionInv => SessionHolds
  <2> SUFFICES ASSUME SessionInv, NEW p \in Phones, Quiet(p), inMemory[p] # NoToken, ~missed[p]
               PROVE  /\ inKeystore[p] = inMemory[p]
                      /\ tokens[inMemory[p]].gone \in {"no", "all"}
                      /\ \A t \in DOMAIN tokens :
                           tokens[t].family = tokens[inMemory[p]].family /\ Live(t) => t = inMemory[p]
    BY DEF SessionHolds
  <2>1. Rests(p)
    BY Places DEF Quiet, Enters, Refreshes, Leaves
  <2> QED
    BY <2>1 DEF Rests, Sole
<1> QED
  BY <1>1, SessionInvHolds, PTL

\* token.service.ts: presenting a rotated token revokes the whole family. No phone
\* that every answer reached ever loses its session to that rule.
THEOREM TheftNeverFalse == SessionsSpec => NoFalseTheft
<1>1. ASSUME SessionInv, [SessionsNext]_sessionVars,
             NEW t \in DOMAIN tokens, NEW p \in Phones, Live(t), tokens'[t].gone = "theft",
             inMemory[p] # NoToken, tokens[inMemory[p]].family = tokens[t].family, ~missed[p]
      PROVE  FALSE
  <2>1. /\ inMemory[p] \in DOMAIN tokens /\ Holds(p, inMemory[p]) /\ tokens[t].gone = "no"
    BY <1>1, Places DEF SessionInv, Issued, Holds, Live
  <2>2. PICK c \in TokenCalls : RevokeFamily(c)
    <3>1. ASSUME NEW T, NEW why \in {"logout", "all"}, Revoke(T, why) PROVE FALSE
      BY <1>1, <2>1, <3>1, Revoked DEF SessionInv
    <3>2. tokens' # tokens
      BY <1>1, <2>1
    <3>3. ASSUME NEW c \in TokenCalls, MintNext(c) PROVE FALSE
      <4>1. call[c] # NoCall /\ call[c].kind = "refresh"
        BY <3>3 DEF MintNext, CallAt
      <4>2. tokens[call[c].token].family \in TokenId
        BY <1>1, <4>1, ItsPhone, Presented
      <4> QED
        BY <1>1, <2>1, <3>3, <4>2, Persisted DEF SessionInv, MintNext
    <3>4. ASSUME NEW c \in TokenCalls, IssuePair(c) PROVE FALSE
      <4>1. NewToken \in TokenId
        BY <1>1, <3>4, TokensNumbered, MaxTokensAssumption DEF IssuePair, Persist, NewToken, TokenId, SessionInv
      <4> QED
        BY <1>1, <2>1, <3>4, <4>1, Persisted DEF SessionInv, IssuePair
    <3>5. ASSUME NEW c \in TokenCalls, RetireOld(c) PROVE FALSE
      <4>1. call[c] # NoCall /\ call[c].kind = "refresh"
        BY <1>1, <3>5 DEF RetireOld, CallAt, SessionInv, Issued, Presents
      <4>2. call[c].token \in DOMAIN tokens
        BY <1>1, <4>1, ItsPhone, Presented
      <4> QED
        BY <1>1, <2>1, <3>5, <4>2, Retired DEF SessionInv, RetireOld
    <3> QED
      BY <1>1, <3>1, <3>2, <3>3, <3>4, <3>5
      DEF SessionsNext, sessionVars, ReadToken, ReadAccount, LoseAnswer, RevokeAll, DecideAccount,
          AskRefresh, AskLogin, Keep, Adopt, RefreshFails, LoginFails,
          TapSignOut, LogoutEnds, Erase, Forget, RestartApp
  <2>3. /\ call[c] # NoCall /\ call[c].at = "reused" /\ call[c].kind = "refresh"
        /\ Revoke({u \in DOMAIN tokens : tokens[u].family = tokens[call[c].token].family}, "theft")
    BY <1>1, <2>2 DEF RevokeFamily, CallAt, SessionInv, Issued, Presents
  <2>4. PICK q \in Phones : Of(c, q)
    BY <1>1, <2>3, ItsPhone
  <2>5. Holds(q, call[c].token) /\ call[c].token \in DOMAIN tokens
    BY <1>1, <2>3, <2>4, Presented
  <2>6. tokens[t].family = tokens[call[c].token].family
    BY <1>1, <2>1, <2>3, Revoked DEF SessionInv
  <2>7. q = p
    BY <1>1, <2>1, <2>5, <2>6 DEF SessionInv, Apart
  <2>8. Refreshes(p) /\ c = refreshing[p]
    BY <1>1, <2>3, <2>4, <2>7, Standing
  <2>9. Sole(inMemory[p]) /\ ~Live(inMemory[p])
    BY <2>3, <2>8 DEF Refreshes
  <2> QED
    BY <1>1, <2>9 DEF Sole
<1>2. SessionInv /\ [SessionsNext]_sessionVars =>
        [\A t \in DOMAIN tokens, p \in Phones :
           Live(t) /\ tokens'[t].gone = "theft" /\ inMemory[p] # NoToken
             /\ tokens[inMemory[p]].family = tokens[t].family
             => missed[p]]_sessionVars
  BY <1>1
<1> QED
  BY <1>2, SessionInvHolds, PTL DEF SessionsSpec, NoFalseTheft

\* token.service.ts: a row of refresh_tokens is never taken back or moved to another
\* family, and whatever set its revokedAt, no rotation that read it before, no later
\* revocation and no restart makes it good again. Two phones never hold tokens of one
\* family, so what ends a family never ends what another phone is signed in with.
THEOREM RevokedForGood ==
  SessionsSpec =>
    /\ [][\A t \in DOMAIN tokens :
            /\ t \in DOMAIN tokens' /\ tokens'[t].family = tokens[t].family
            /\ tokens'[t].gone = "no" => Live(t)]_sessionVars
    /\ []Apart
<1> DEFINE Stands(t) == /\ t \in DOMAIN tokens' /\ tokens'[t].family = tokens[t].family
                        /\ tokens'[t].gone = "no" => Live(t)
<1>1. ASSUME SessionInv, [SessionsNext]_sessionVars, NEW t \in DOMAIN tokens PROVE Stands(t)
  <2>1. ASSUME NEW T, NEW why \in {"logout", "theft", "all"}, Revoke(T, why) PROVE Stands(t)
    BY <1>1, <2>1, Revoked DEF SessionInv, Live
  <2>2. ASSUME tokens' = tokens PROVE Stands(t)
    BY <2>2 DEF Live
  <2>3. ASSUME NEW c \in TokenCalls, MintNext(c) PROVE Stands(t)
    <3>1. call[c] # NoCall /\ call[c].kind = "refresh"
      BY <2>3 DEF MintNext, CallAt
    <3>2. tokens[call[c].token].family \in TokenId
      BY <1>1, <3>1, ItsPhone, Presented
    <3> QED
      BY <1>1, <2>3, <3>2, Persisted DEF SessionInv, MintNext, Live
  <2>4. ASSUME NEW c \in TokenCalls, IssuePair(c) PROVE Stands(t)
    <3>1. NewToken \in TokenId
      BY <1>1, <2>4, TokensNumbered, MaxTokensAssumption DEF IssuePair, Persist, NewToken, TokenId, SessionInv
    <3> QED
      BY <1>1, <2>4, <3>1, Persisted DEF SessionInv, IssuePair, Live
  <2>5. ASSUME NEW c \in TokenCalls, RetireOld(c) PROVE Stands(t)
    <3>1. call[c] # NoCall /\ call[c].kind = "refresh"
      BY <1>1, <2>5 DEF RetireOld, CallAt, SessionInv, Issued, Presents
    <3>2. call[c].token \in DOMAIN tokens
      BY <1>1, <3>1, ItsPhone, Presented
    <3> QED
      BY <1>1, <2>5, <3>2, Retired DEF SessionInv, RetireOld, Live
  <2> HIDE DEF Stands
  <2>6. ASSUME NEW c \in TokenCalls, RevokeFamily(c) PROVE Stands(t)
    BY <2>1, <2>6 DEF RevokeFamily
  <2>7. ASSUME NEW p \in Phones, LogoutEnds(p) PROVE Stands(t)
    BY <2>1, <2>2, <2>7 DEF LogoutEnds
  <2> QED
    BY <1>1, <2>1, <2>2, <2>3, <2>4, <2>5, <2>6, <2>7
    DEF SessionsNext, sessionVars, ReadToken, ReadAccount, LoseAnswer, RevokeAll, DecideAccount,
        AskRefresh, AskLogin, Keep, Adopt, RefreshFails, LoginFails,
        TapSignOut, Erase, Forget, RestartApp
<1>2. SessionInv /\ [SessionsNext]_sessionVars => [\A t \in DOMAIN tokens : Stands(t)]_sessionVars
  BY <1>1
<1>3. SessionInv => Apart
  BY DEF SessionInv
<1> QED
  BY <1>2, <1>3, SessionInvHolds, PTL DEF SessionsSpec

-----------------------------------------------------------------------------
(***************************************************************************)
(* The chain of credentials, proved for any people, issuers, contents and  *)
(* length: however many calls run into each other, the rows that were filed *)
(* stay as they were filed and stay linked.                                *)
(*                                                                         *)
(* ChainFormed is what the invariants stand on: the ledger is a sequence of *)
(* records, and an issue in hand read a head that may still be followed.   *)
(***************************************************************************)

Entries(L) == {L[i] : i \in DOMAIN L}

IsRow(row) ==
  row = [content |-> row.content, contentHash |-> row.contentHash, index |-> row.index,
         prevHash |-> row.prevHash, hash |-> row.hash, signature |-> row.signature,
         revoked |-> row.revoked]

ChainFormed ==
  /\ ledger \in Seq(Entries(ledger))
  /\ \A i \in 1..Len(ledger) : IsRow(ledger[i])
  /\ filing = [f \in Filings |-> filing[f]]
  /\ \A f \in Filings :
       filing[f] # NoFiling /\ filing[f].op = "issue" => filing[f].head < MaxLength

LedgerInv == ChainFormed /\ CredentialsTypeOK /\ LedgerLinked

-----------------------------------------------------------------------------
(* Sequences.                                                              *)

\* A ledger that is a sequence of its own rows has an index for each of them.
LEMMA LedgerIndices ==
  ASSUME NEW L, L \in Seq(Entries(L))
  PROVE  Len(L) \in Nat /\ DOMAIN L = 1..Len(L)
BY LenProperties

\* A sequence over any set is one over the rows it holds.
LEMMA OwnEntries ==
  ASSUME NEW S, NEW L \in Seq(S)
  PROVE  L \in Seq(Entries(L))
<1>1. Len(L) \in Nat /\ L \in [1..Len(L) -> S] /\ DOMAIN L = 1..Len(L)
  BY LenProperties
<1>2. L \in [1..Len(L) -> Entries(L)]
  BY <1>1 DEF Entries
<1> QED
  BY <1>1, <1>2, SeqDef

\* Filing puts one row behind the others and leaves them alone.
LEMMA Appending ==
  ASSUME NEW L, L \in Seq(Entries(L)), NEW row
  PROVE  /\ Append(L, row) \in Seq(Entries(Append(L, row)))
         /\ Len(Append(L, row)) = Len(L) + 1
         /\ Append(L, row)[Len(L) + 1] = row
         /\ \A i \in 1..Len(L) : Append(L, row)[i] = L[i]
<1> DEFINE S == Entries(L) \cup {row}
<1>1. L \in Seq(S)
  BY SeqMonotonic
<1>2. row \in S
  OBVIOUS
<1> HIDE DEF S
<1>3. /\ Append(L, row) \in Seq(S) /\ Len(Append(L, row)) = Len(L) + 1
      /\ Append(L, row)[Len(L) + 1] = row
      /\ \A i \in 1..Len(L) : Append(L, row)[i] = L[i]
  BY <1>1, <1>2
<1> QED
  BY <1>3, OwnEntries

\* A marked row is the row it was but for the mark.
LEMMA MarkedRow ==
  ASSUME NEW row, IsRow(row), NEW marked, marked = [row EXCEPT !.revoked = TRUE]
  PROVE  /\ IsRow(marked) /\ marked.revoked = TRUE
         /\ marked.content = row.content /\ marked.contentHash = row.contentHash
         /\ marked.index = row.index /\ marked.prevHash = row.prevHash
         /\ marked.hash = row.hash /\ marked.signature = row.signature
BY DEF IsRow

-----------------------------------------------------------------------------
(* Each step.                                                              *)

\* A call takes something up or lets it go: the others keep what they have.
LEMMA TakesUp ==
  ASSUME ChainFormed, NEW f \in Filings, NEW errand,
         filing' = [filing EXCEPT ![f] = errand]
  PROVE  /\ filing' = [g \in Filings |-> filing'[g]]
         /\ filing'[f] = errand
         /\ \A g \in Filings : g # f => filing'[g] = filing[g]
BY DEF ChainFormed

\* A step that leaves the ledger alone.
LEMMA LedgerStands ==
  ASSUME LedgerInv, UNCHANGED ledger, ChainFormed', CredentialsTypeOK'
  PROVE  LedgerInv'
BY DEF LedgerInv, LedgerLinked, HeadHash

\* A row as it would be filed is a record of the right shape.
LEMMA NewRowIsRow ==
  ASSUME NEW c \in Contents, NEW n \in 0..MaxLength, NEW prev
  PROVE  LET row == NewRow(c, Sign(c.issuer, c), n, prev)
         IN  /\ IsRow(row) /\ RowOK(row)
             /\ row.index = n /\ row.prevHash = prev
             /\ row.hash = LedgerHash(row.contentHash, n, prev)
<1>1. c \in Content /\ FromJsonb(c) \in Content
  BY ContentsAssumption DEF Content, FromJsonb
<1> QED
  BY <1>1 DEF NewRow, IsRow, RowOK

LEMMA FileKeeps ==
  ASSUME LedgerInv, NEW f \in Filings, File(f)
  PROVE  LedgerInv'
<1> USE DEF LedgerInv
<1> DEFINE n == Len(ledger)
           c == filing[f].content
           row == NewRow(c, filing[f].signature, n, HeadHash(ledger, n))
<1>1. n \in Nat /\ DOMAIN ledger = 1..n
  BY LedgerIndices DEF ChainFormed
<1>2. /\ c \in Contents /\ filing[f].signature = Sign(c.issuer, c)
      /\ n < MaxLength /\ ledger' = Append(ledger, row)
  BY DEF File, ChainFormed, CredentialsTypeOK
<1>3. /\ IsRow(row) /\ RowOK(row) /\ row.index = n /\ row.prevHash = HeadHash(ledger, n)
      /\ row.hash = LedgerHash(row.contentHash, n, HeadHash(ledger, n))
  <2>1. n \in 0..MaxLength /\ row = NewRow(c, Sign(c.issuer, c), n, HeadHash(ledger, n))
    BY <1>1, <1>2, MaxLengthAssumption
  <2> HIDE DEF c, row, n
  <2> QED
    BY <1>2, <2>1, NewRowIsRow
<1> HIDE DEF c, row
<1>4. /\ ledger' \in Seq(Entries(ledger')) /\ Len(ledger') = n + 1
      /\ ledger'[n + 1] = row /\ \A i \in 1..n : ledger'[i] = ledger[i]
  BY <1>2, Appending DEF ChainFormed
<1>5. DOMAIN ledger' = 1..(n + 1)
  BY <1>4, LedgerIndices
<1>6. /\ filing' = [g \in Filings |-> filing'[g]]
      /\ \A g \in Filings : filing'[g] = NoFiling \/ filing'[g] = filing[g]
  BY TakesUp DEF File
<1> HIDE DEF n
<1>7. \A i \in 1..(n + 1) : i \in 1..n \/ i = n + 1
  BY <1>1
<1>8. ChainFormed'
  BY <1>1, <1>3, <1>4, <1>6, <1>7 DEF ChainFormed, n
<1>9. CredentialsTypeOK'
  <2>1. \A i \in DOMAIN ledger' : RowOK(ledger'[i])
    BY <1>1, <1>3, <1>4, <1>5, <1>7 DEF CredentialsTypeOK
  <2>2. Len(ledger') <= MaxLength
    BY <1>1, <1>2, <1>4, MaxLengthAssumption
  <2>3. 0..Len(ledger) \subseteq 0..Len(ledger') /\ DOMAIN ledger \subseteq DOMAIN ledger'
    BY <1>1, <1>4, <1>5 DEF n
  <2> QED
    BY <1>6, <2>1, <2>2, <2>3 DEF CredentialsTypeOK
<1>10. LedgerLinked'
  <2>1. \A k \in 0..n : HeadHash(ledger', k) = HeadHash(ledger, k)
    BY <1>1, <1>4 DEF HeadHash
  <2>2. ASSUME NEW i \in 1..n
        PROVE  /\ ledger'[i].index = i - 1
               /\ ledger'[i].prevHash = HeadHash(ledger', i - 1)
               /\ ledger'[i].hash = LedgerHash(ledger'[i].contentHash, i - 1, ledger'[i].prevHash)
    BY <1>1, <1>4, <2>1 DEF LedgerLinked
  <2>3. /\ ledger'[n + 1].index = n
        /\ ledger'[n + 1].prevHash = HeadHash(ledger', n)
        /\ ledger'[n + 1].hash = LedgerHash(ledger'[n + 1].contentHash, n, ledger'[n + 1].prevHash)
    BY <1>1, <1>3, <1>4, <2>1
  <2>4. (n + 1) - 1 = n
    BY <1>1
  <2> QED
    BY <1>5, <1>7, <2>2, <2>3, <2>4 DEF LedgerLinked
<1> QED
  BY <1>8, <1>9, <1>10

LEMMA MarkKeeps ==
  ASSUME LedgerInv, NEW f \in Filings, Mark(f)
  PROVE  /\ LedgerInv'
         /\ DOMAIN ledger' = DOMAIN ledger
         /\ \A i \in DOMAIN ledger :
              ledger'[i] \in {ledger[i], [ledger[i] EXCEPT !.revoked = TRUE]}
<1> USE DEF LedgerInv
<1> DEFINE k == filing[f].at
<1>1. Len(ledger) \in Nat /\ DOMAIN ledger = 1..Len(ledger)
  BY LedgerIndices DEF ChainFormed
<1>2. k \in 1..Len(ledger) /\ ledger' = [ledger EXCEPT ![k].revoked = TRUE]
  BY <1>1 DEF Mark, CredentialsTypeOK
<1>3. IsRow(ledger[k])
  BY <1>2 DEF ChainFormed
<1> HIDE DEF k
<1>4. /\ ledger' \in Seq(Entries(ledger')) /\ Len(ledger') = Len(ledger)
      /\ \A i \in 1..Len(ledger) : i # k => ledger'[i] = ledger[i]
      /\ ledger'[k] = [ledger[k] EXCEPT !.revoked = TRUE]
  <2> DEFINE row == [ledger[k] EXCEPT !.revoked = TRUE]
  <2>1. ledger' = [ledger EXCEPT ![k] = row]
    BY <1>2
  <2> HIDE DEF row
  <2>0. ledger \in Seq(Entries(ledger))
    BY DEF ChainFormed
  <2>2. PICK S : ledger \in Seq(S) /\ row \in S
    <3>1. ledger \in Seq(Entries(ledger) \cup {row})
      BY <2>0, SeqMonotonic
    <3> QED
      BY <3>1
  <2>3. /\ ledger' \in Seq(S) /\ Len(ledger') = Len(ledger) /\ ledger'[k] = row
        /\ \A i \in 1..Len(ledger) : i # k => ledger'[i] = ledger[i]
    <3>1. k \in 1..Len(ledger)
      BY <1>2
    <3> HIDE DEF LedgerInv
    <3> QED
      BY <2>1, <2>2, <3>1, ExceptSeq
  <2>4. ledger' \in Seq(Entries(ledger'))
    BY <2>3, OwnEntries
  <2> QED
    BY <2>3, <2>4 DEF row
<1>5. /\ IsRow(ledger'[k]) /\ ledger'[k].revoked = TRUE
      /\ ledger'[k].content = ledger[k].content /\ ledger'[k].contentHash = ledger[k].contentHash
      /\ ledger'[k].index = ledger[k].index /\ ledger'[k].prevHash = ledger[k].prevHash
      /\ ledger'[k].hash = ledger[k].hash /\ ledger'[k].signature = ledger[k].signature
  BY <1>3, <1>4, MarkedRow
<1>6. DOMAIN ledger' = DOMAIN ledger
  BY <1>1, <1>4, LedgerIndices
<1>7. /\ filing' = [g \in Filings |-> filing'[g]]
      /\ \A g \in Filings : filing'[g] = NoFiling \/ filing'[g] = filing[g]
  BY TakesUp DEF Mark
<1>8. ChainFormed'
  BY <1>4, <1>5, <1>7 DEF ChainFormed
<1>9. CredentialsTypeOK'
  <2>1. RowOK(ledger[k])
    BY <1>1, <1>2 DEF CredentialsTypeOK
  <2>2. RowOK(ledger'[k])
    BY <1>5, <2>1 DEF RowOK
  <2>3. \A i \in DOMAIN ledger' : RowOK(ledger'[i])
    BY <1>1, <1>4, <1>6, <2>2 DEF CredentialsTypeOK
  <2> QED
    BY <1>4, <1>6, <1>7, <2>3 DEF CredentialsTypeOK
<1>10. \A i \in 1..Len(ledger) :
         /\ ledger'[i].index = ledger[i].index /\ ledger'[i].prevHash = ledger[i].prevHash
         /\ ledger'[i].hash = ledger[i].hash /\ ledger'[i].contentHash = ledger[i].contentHash
  BY <1>4, <1>5
<1>11. \A i \in 1..Len(ledger) : HeadHash(ledger', i - 1) = HeadHash(ledger, i - 1)
  <2> TAKE i \in 1..Len(ledger)
  <2>1. i - 1 = 0 \/ i - 1 \in 1..Len(ledger)
    BY <1>1
  <2> QED
    BY <1>10, <2>1 DEF HeadHash
<1>12. LedgerLinked'
  BY <1>1, <1>6, <1>10, <1>11 DEF LedgerLinked
<1> QED
  BY <1>1, <1>4, <1>6, <1>8, <1>9, <1>12

\* The calls that only read, or give up.
LEMMA ReadKeeps ==
  ASSUME LedgerInv, NEW f \in Filings,
         \/ \E content \in Contents, key \in Issuers : AskIssue(f, content, key)
         \/ DropFiling(f) \/ Answer(f)
         \/ \E issuer \in Issuers, i \in DOMAIN ledger : AskRevoke(f, issuer, i)
         \/ \E subject \in Subjects : AskList(f, subject)
  PROVE  LedgerInv' /\ UNCHANGED ledger
<1> USE DEF LedgerInv
<1>0. Len(ledger) \in Nat
  BY LedgerIndices DEF ChainFormed
<1>1. ASSUME NEW errand, filing' = [filing EXCEPT ![f] = errand], UNCHANGED ledger,
             \/ errand = NoFiling
             \/ /\ errand.op = "issue" /\ errand.content \in Contents
                /\ errand.signature = Sign(errand.content.issuer, errand.content)
                /\ errand.head \in 0..Len(ledger) /\ errand.head < MaxLength
             \/ errand.op = "revoke" /\ errand.at \in DOMAIN ledger
             \/ /\ errand.op = "list" /\ DOMAIN errand.rows \subseteq DOMAIN ledger
                /\ \A i \in DOMAIN errand.rows : RowOK(errand.rows[i])
      PROVE  LedgerInv'
  <2>1. /\ filing' = [g \in Filings |-> filing'[g]] /\ filing'[f] = errand
        /\ \A g \in Filings : g # f => filing'[g] = filing[g]
    BY <1>1, TakesUp
  <2>2. ChainFormed'
    BY <1>1, <2>1 DEF ChainFormed
  <2>3. CredentialsTypeOK'
    BY <1>1, <2>1 DEF CredentialsTypeOK
  <2> QED
    BY <1>1, <2>2, <2>3, LedgerStands
<1>2. ASSUME NEW content \in Contents, NEW key \in Issuers, AskIssue(f, content, key)
      PROVE  LedgerInv' /\ UNCHANGED ledger
  <2> DEFINE errand == [op |-> "issue", content |-> content, signature |-> Sign(key, content),
                        head |-> Len(ledger)]
  <2>1. key = content.issuer
    BY <1>2 DEF AskIssue, SignatureHolds, Sign
  <2>2. /\ errand.op = "issue" /\ errand.content \in Contents
        /\ errand.signature = Sign(errand.content.issuer, errand.content)
        /\ errand.head \in 0..Len(ledger) /\ errand.head < MaxLength
    BY <1>0, <1>2, <2>1 DEF AskIssue
  <2>3. filing' = [filing EXCEPT ![f] = errand] /\ UNCHANGED ledger
    BY <1>2 DEF AskIssue
  <2> HIDE DEF errand
  <2> QED
    BY <1>1, <2>2, <2>3
<1>3. CASE DropFiling(f) \/ Answer(f)
  BY <1>1, <1>3 DEF DropFiling, Answer
<1>4. ASSUME NEW issuer \in Issuers, NEW i \in DOMAIN ledger, AskRevoke(f, issuer, i)
      PROVE  LedgerInv' /\ UNCHANGED ledger
  <2> DEFINE errand == [op |-> "revoke", at |-> i]
  <2>1. errand.op = "revoke" /\ errand.at \in DOMAIN ledger
    OBVIOUS
  <2>2. filing' = [filing EXCEPT ![f] = errand] /\ UNCHANGED ledger
    BY <1>4 DEF AskRevoke
  <2> HIDE DEF errand
  <2> QED
    BY <1>1, <2>1, <2>2
<1>5. ASSUME NEW subject \in Subjects, AskList(f, subject)
      PROVE  LedgerInv' /\ UNCHANGED ledger
  <2> DEFINE theirs == {j \in DOMAIN ledger : ledger[j].content.subject = subject}
             errand == [op |-> "list", rows |-> [i \in theirs |-> ledger[i]]]
  <2>1. /\ errand.op = "list" /\ DOMAIN errand.rows \subseteq DOMAIN ledger
        /\ \A i \in DOMAIN errand.rows : RowOK(errand.rows[i])
    BY DEF CredentialsTypeOK
  <2>2. filing' = [filing EXCEPT ![f] = errand] /\ UNCHANGED ledger
    BY <1>5 DEF AskList
  <2> HIDE DEF errand
  <2> QED
    BY <1>1, <2>1, <2>2
<1> QED
  BY <1>2, <1>3, <1>4, <1>5

\* A step changes no row but by marking it, and removes none.
LEMMA OnlyMarks ==
  ASSUME LedgerInv, CredentialsNext, NEW i \in DOMAIN ledger
  PROVE  /\ i \in DOMAIN ledger'
         /\ ledger'[i] \in {ledger[i], [ledger[i] EXCEPT !.revoked = TRUE]}
<1>1. ASSUME NEW f \in Filings, File(f)
      PROVE  i \in DOMAIN ledger' /\ ledger'[i] = ledger[i]
  <2>1. PICK row : ledger' = Append(ledger, row)
    BY <1>1 DEF File
  <2>2. Len(ledger) \in Nat /\ i \in 1..Len(ledger)
    BY LedgerIndices DEF LedgerInv, ChainFormed
  <2>3. /\ ledger' \in Seq(Entries(ledger')) /\ Len(ledger') = Len(ledger) + 1
        /\ ledger'[i] = ledger[i]
    BY <2>1, <2>2, Appending DEF LedgerInv, ChainFormed
  <2>4. DOMAIN ledger' = 1..Len(ledger')
    BY <2>3, LedgerIndices
  <2> QED
    BY <2>2, <2>3, <2>4
<1> QED
  BY <1>1, MarkKeeps, ReadKeeps DEF CredentialsNext

-----------------------------------------------------------------------------
(* What a list shows.                                                      *)

\* A row read at one moment and the same row later: it may have been marked.
Later(row, new) ==
  /\ new.content = row.content /\ new.contentHash = row.contentHash
  /\ new.index = row.index /\ new.prevHash = row.prevHash
  /\ new.hash = row.hash /\ new.signature = row.signature
  /\ row.revoked => new.revoked

\* Lists in hand hold rows of the ledger, and the answered one speaks of them.
ListInv ==
  /\ \A f \in Filings : filing[f] # NoFiling /\ filing[f].op = "list" =>
       \A i \in DOMAIN filing[f].rows :
         i \in DOMAIN ledger /\ Later(filing[f].rows[i], ledger[i])
  /\ \A line \in listing : line.index + 1 \in DOMAIN ledger
  /\ ListingTrue

\* Every row of the ledger only gets later.
LEMMA RowsGetLater ==
  ASSUME LedgerInv, [CredentialsNext]_credentialVars, NEW i \in DOMAIN ledger
  PROVE  i \in DOMAIN ledger' /\ Later(ledger[i], ledger'[i])
<1>1. CASE UNCHANGED credentialVars
  BY <1>1 DEF credentialVars, Later
<1>2. CASE CredentialsNext
  <2>1. IsRow(ledger[i])
    BY LedgerIndices DEF LedgerInv, ChainFormed
  <2> DEFINE marked == [ledger[i] EXCEPT !.revoked = TRUE]
  <2>2. i \in DOMAIN ledger' /\ ledger'[i] \in {ledger[i], marked}
    BY <1>2, OnlyMarks
  <2>3. Later(ledger[i], marked)
    BY <2>1, MarkedRow DEF Later
  <2>4. Later(ledger[i], ledger[i])
    BY DEF Later
  <2> QED
    BY <2>2, <2>3, <2>4
<1> QED
  BY <1>1, <1>2

\* A filed row passes the check of its signature exactly if it passes that of its
\* hashes: both stand or fall with the order of its claims.
LEMMA HashMeansSigned ==
  ASSUME LedgerInv, NEW i \in DOMAIN ledger, NEW row, Later(row, ledger[i])
  PROVE  /\ HashesHold(row) <=> Checked(row, HeadHash(ledger, i - 1)).signature
         /\ Checked(row, HeadHash(ledger, i - 1)).chain
         /\ row.index = i - 1
<1>1. /\ row.index = i - 1 /\ row.prevHash = HeadHash(ledger, i - 1)
      /\ row.hash = LedgerHash(row.contentHash, row.index, row.prevHash)
  BY DEF LedgerInv, LedgerLinked, Later
<1>2. PICK c \in Contents : row.contentHash = ContentHash(c) /\ row.signature = Sign(c.issuer, c)
  BY DEF LedgerInv, CredentialsTypeOK, RowOK, Later
<1>3. ContentHash(row.content) = row.contentHash => row.content = c
  BY <1>2 DEF ContentHash
<1>4. HashesHold(row) <=> ContentHash(row.content) = row.contentHash
  BY <1>1 DEF HashesHold
<1>5. ContentHash(row.content) = row.contentHash =>
        SignatureHolds(row.signature, row.contentHash, row.content.issuer)
  BY <1>2, <1>3 DEF SignatureHolds, Sign
<1>6. row.index = 0 => row.prevHash = Genesis
  BY <1>1 DEF HeadHash
<1> QED
  BY <1>1, <1>4, <1>5, <1>6 DEF Checked

-----------------------------------------------------------------------------
(* The theorems.                                                           *)

\* What every step of the services keeps.
THEOREM Invariance == CredentialsSpec => []LedgerInv
<1>1. CredentialsInit => LedgerInv
  <2> SUFFICES ASSUME CredentialsInit PROVE LedgerInv
    OBVIOUS
  <2>1. ledger = <<>> /\ Len(ledger) = 0 /\ DOMAIN ledger = {} /\ ledger \in Seq(Entries(ledger))
    BY EmptySeq DEF CredentialsInit
  <2> QED
    BY <2>1, MaxLengthAssumption
    DEF CredentialsInit, LedgerInv, ChainFormed, CredentialsTypeOK, LedgerLinked
<1>2. LedgerInv /\ [CredentialsNext]_credentialVars => LedgerInv'
  <2>1. ASSUME LedgerInv, UNCHANGED credentialVars PROVE LedgerInv'
    BY <2>1 DEF credentialVars, LedgerInv, ChainFormed, CredentialsTypeOK, LedgerLinked, HeadHash
  <2> QED
    BY <2>1, FileKeeps, MarkKeeps, ReadKeeps DEF CredentialsNext
<1> QED
  BY <1>1, <1>2, PTL DEF CredentialsSpec

\* Every row, and whatever a call has read, keeps its shape.
THEOREM CredentialsTyping == CredentialsSpec => []CredentialsTypeOK
BY Invariance, PTL DEF LedgerInv

\* The chain is one chain: however issues cross, every row follows the one before it.
THEOREM ChainHolds == CredentialsSpec => []LedgerLinked
BY Invariance, PTL DEF LedgerInv

\* Nothing filed is changed or removed, and a withdrawal stands.
THEOREM NothingIsRewritten == CredentialsSpec => AppendOnly
<1>1. LedgerInv /\ [CredentialsNext]_credentialVars =>
        [\A i \in DOMAIN ledger :
           /\ i \in DOMAIN ledger'
           /\ ledger'[i] \in {ledger[i], [ledger[i] EXCEPT !.revoked = TRUE]}]_credentialVars
  BY OnlyMarks
<1> QED
  BY <1>1, Invariance, PTL DEF CredentialsSpec, AppendOnly

\* A list answered while others file and withdraw shows every row as it is: linked,
\* and failing only over the order of its claims, its issuer or its withdrawal.
THEOREM ListsAreTrue == CredentialsSpec => []ListingTrue
<1>1. CredentialsInit => ListInv
  BY DEF CredentialsInit, ListInv, ListingTrue
<1>2. ASSUME LedgerInv, LedgerInv', ListInv, [CredentialsNext]_credentialVars PROVE ListInv'
  <2>1. \A i \in DOMAIN ledger : i \in DOMAIN ledger' /\ Later(ledger[i], ledger'[i])
    BY <1>2, RowsGetLater
  <2>2. ASSUME NEW f \in Filings, filing'[f] # NoFiling, filing'[f].op = "list",
               NEW i \in DOMAIN filing'[f].rows
        PROVE  i \in DOMAIN ledger' /\ Later(filing'[f].rows[i], ledger'[i])
    <3>1. CASE filing'[f] = filing[f]
      BY <1>2, <2>1, <2>2, <3>1 DEF ListInv, Later
    <3>2. ASSUME NEW subject \in Subjects, AskList(f, subject)
          PROVE  i \in DOMAIN ledger /\ filing'[f].rows[i] = ledger[i]
      BY <1>2, <2>2, <3>2 DEF AskList, LedgerInv, ChainFormed
    <3>3. filing'[f] = filing[f] \/ \E subject \in Subjects : AskList(f, subject)
      <4>1. ASSUME NEW g \in Filings, NEW errand, filing' = [filing EXCEPT ![g] = errand],
                   errand = NoFiling \/ errand.op # "list"
            PROVE  filing'[f] = filing[f]
        BY <1>2, <2>2, <4>1, TakesUp DEF LedgerInv
      <4>2. ASSUME NEW g \in Filings, NEW subject \in Subjects, AskList(g, subject), g # f
            PROVE  filing'[f] = filing[f]
        <5>1. PICK errand : filing' = [filing EXCEPT ![g] = errand]
          BY <4>2 DEF AskList
        <5> QED
          BY <1>2, <4>2, <5>1, TakesUp DEF LedgerInv
      <4>3. ASSUME NEW g \in Filings, NEW content \in Contents, NEW key \in Issuers,
                   AskIssue(g, content, key)
            PROVE  filing'[f] = filing[f]
        <5> DEFINE errand == [op |-> "issue", content |-> content,
                              signature |-> Sign(key, content), head |-> Len(ledger)]
        <5>1. filing' = [filing EXCEPT ![g] = errand] /\ errand.op # "list"
          BY <4>3 DEF AskIssue
        <5> HIDE DEF errand
        <5> QED
          BY <4>1, <5>1
      <4>4. ASSUME NEW g \in Filings, NEW issuer \in Issuers, NEW k \in DOMAIN ledger,
                   AskRevoke(g, issuer, k)
            PROVE  filing'[f] = filing[f]
        <5> DEFINE errand == [op |-> "revoke", at |-> k]
        <5>1. filing' = [filing EXCEPT ![g] = errand] /\ errand.op # "list"
          BY <4>4 DEF AskRevoke
        <5> HIDE DEF errand
        <5> QED
          BY <4>1, <5>1
      <4>5. ASSUME NEW g \in Filings, File(g) \/ DropFiling(g) \/ Mark(g) \/ Answer(g)
            PROVE  filing'[f] = filing[f]
        BY <4>1, <4>5 DEF File, DropFiling, Mark, Answer
      <4> QED
        BY <1>2, <4>2, <4>3, <4>4, <4>5 DEF CredentialsNext, credentialVars
    <3> QED
      BY <2>1, <3>1, <3>2, <3>3
  <2>3. ASSUME NEW line \in listing'
        PROVE  /\ line.index + 1 \in DOMAIN ledger' /\ line.chain
               /\ Valid(line) => /\ ledger'[line.index + 1].content.issuer \in Approved
                                 /\ HashesHold(ledger'[line.index + 1])
               /\ ~line.kept => ledger'[line.index + 1].revoked
               /\ line.hash = line.signature
    <3>1. CASE line \in listing
      BY <1>2, <2>1, <3>1 DEF ListInv, ListingTrue, Later, HashesHold
    <3>2. ASSUME NEW f \in Filings, Answer(f), line \notin listing
          PROVE  /\ line.index + 1 \in DOMAIN ledger /\ UNCHANGED ledger
                 /\ line.chain /\ line.hash = line.signature
                 /\ Valid(line) => /\ ledger[line.index + 1].content.issuer \in Approved
                                   /\ HashesHold(ledger[line.index + 1])
                 /\ ~line.kept => ledger[line.index + 1].revoked
      <4> DEFINE rows == filing[f].rows
      <4>1. PICK i \in DOMAIN rows : line = Checked(rows[i], HeadHash(ledger, i - 1))
        BY <2>3, <3>2 DEF Answer
      <4>2. i \in DOMAIN ledger /\ Later(rows[i], ledger[i]) /\ UNCHANGED ledger
        BY <1>2, <3>2, <4>1 DEF Answer, ListInv
      <4>3. i \in Nat
        BY <1>2, <4>2, LedgerIndices DEF LedgerInv, ChainFormed
      <4> HIDE DEF rows
      <4>4. /\ HashesHold(rows[i]) <=> line.signature
            /\ line.chain /\ rows[i].index = i - 1
        BY <1>2, <4>1, <4>2, HashMeansSigned
      <4>5. /\ line.index = rows[i].index /\ line.hash = HashesHold(rows[i])
            /\ line.issuer = (rows[i].content.issuer \in Approved)
            /\ line.kept = ~rows[i].revoked
            /\ line.signature \in BOOLEAN /\ line.hash \in BOOLEAN
        BY <4>1 DEF Checked, HashesHold, SignatureHolds
      <4>6. line.index + 1 = i
        BY <4>3, <4>4, <4>5
      <4>7. HashesHold(rows[i]) => HashesHold(ledger[i])
        BY <4>2 DEF Later, HashesHold
      <4>8. rows[i].content = ledger[i].content /\ (rows[i].revoked => ledger[i].revoked)
        BY <4>2 DEF Later
      <4>9. line.hash = line.signature
        BY <4>4, <4>5
      <4>10. Valid(line) => ledger[i].content.issuer \in Approved /\ HashesHold(ledger[i])
        BY <4>5, <4>7, <4>8 DEF Valid
      <4>11. ~line.kept => ledger[i].revoked
        BY <4>5, <4>8
      <4> QED
        BY <4>2, <4>4, <4>6, <4>9, <4>10, <4>11
    <3>3. line \in listing \/ \E f \in Filings : Answer(f)
      BY <1>2, <2>3
      DEF CredentialsNext, credentialVars, AskIssue, File, DropFiling, AskRevoke, Mark, AskList
    <3> QED
      BY <3>1, <3>2, <3>3
  <2> QED
    BY <2>2, <2>3 DEF ListInv, ListingTrue
<1> QED
  BY <1>1, <1>2, Invariance, PTL DEF CredentialsSpec, ListInv

-----------------------------------------------------------------------------
(***************************************************************************)
(* Documents, checks and decisions, proved for any number of uploads,      *)
(* submissions, handlers and kinds of document.                            *)
(*                                                                         *)
(* The four theorems rest on one another in this order: shapes; the files; *)
(* the reports, which need the files; and the submissions, on their own.   *)
(***************************************************************************)

Uploading(h) == task[h] # Nothing /\ task[h].op = "upload"

\* Past its upsert, an upload's kind has a row; so has every kind with checks to do;
\* and past its mark a run has a report to write to.
RowUploaded ==
  \A h \in Handlers :
    Uploading(h) /\ task[h].at \in {"stored", "replaced"} => document[task[h].kind] # Nothing
RowsQueued == \A i \in DOMAIN chain : document[chain[i]] # Nothing
ReportThere == analysing # Nothing /\ analysing.at # "read" => report[analysing.kind] # Nothing

Shape == IdentityTypeOK /\ RowUploaded /\ RowsQueued /\ ReportThere

-----------------------------------------------------------------------------
(* Shapes.                                                                  *)

LEMMA ShapeInit ==
  ASSUME IdentityInit PROVE Shape
<1>1. IdentityTypeOK
  <2>1. /\ document \in [Kinds -> Files \cup {Nothing}]
        /\ submission \in [SubmissionIds -> Submission \cup {Nothing}]
        /\ report \in [Kinds -> Report \cup {Nothing}]
        /\ task \in [Handlers -> Task \cup {Nothing}]
    BY DEF IdentityInit
  <2>2. submitted \in BOOLEAN
    BY DEF IdentityInit
  <2>3. level \in 0..2
    <3>1. level = 0
      BY DEF IdentityInit
    <3> QED
      BY <3>1
  <2>4. /\ stored \subseteq minted /\ minted \subseteq Files /\ cut \subseteq Kinds
        /\ analysing \in Analysing \cup {Nothing}
    BY DEF IdentityInit
  <2>5. chain \in Seq(Kinds)
    <3>1. chain = <<>>
      BY DEF IdentityInit
    <3> QED
      BY <3>1
  <2> QED
    BY <2>1, <2>2, <2>3, <2>4, <2>5 DEF IdentityTypeOK
<1>2. RowUploaded /\ ReportThere
  BY DEF IdentityInit, RowUploaded, Uploading, ReportThere
<1>3. chain = <<>>
  BY DEF IdentityInit
<1>4. RowsQueued
  BY <1>3 DEF RowsQueued
<1> QED
  BY <1>1, <1>2, <1>4 DEF Shape

\* A request touches the rows, the storage, the chain and its own task.
LEMMA TypesOfRequest ==
  ASSUME Shape, NEW h \in Handlers, Request(h)
  PROVE  IdentityTypeOK'
<1> USE NothingAssumption, KindsAssumption
    DEF Shape, IdentityTypeOK, Task, Take, At, Goto, Finish,
        accountVars, checkVars, fileVars
<1>1. ASSUME NEW k \in Kinds, NEW f \in Files, Save(h, k, f) PROVE IdentityTypeOK'
  BY <1>1 DEF Save
<1>2. CASE LookUp(h)
  BY <1>2 DEF LookUp
<1>3. CASE Upsert(h)
  BY <1>3 DEF Upsert
<1>4. CASE RemoveOld(h)
  BY <1>4 DEF RemoveOld
<1>5. CASE Enqueue(h)
  BY <1>5 DEF Enqueue
<1>6. CASE SubmitRead(h)
  BY <1>6 DEF SubmitRead
<1>7. ASSUME NEW id \in SubmissionIds, SubmitWrite(h, id) PROVE IdentityTypeOK'
  BY <1>7 DEF SubmitWrite, Submission
<1>8. ASSUME NEW op \in {"hold", "reject", "approve"}, NEW id \in SubmissionIds,
             ReviewRead(h, op, id)
      PROVE  IdentityTypeOK'
  BY <1>8 DEF ReviewRead
<1>9. CASE LookForLicence(h)
  BY <1>9 DEF LookForLicence
<1>10. CASE Approve(h)
  BY <1>10 DEF Approve, Decides, Submission
<1>11. CASE Hold(h)
  BY <1>11 DEF Hold, Decides, Submission
<1>12. CASE Reject(h)
  BY <1>12 DEF Reject, Decides, Submission
<1> QED
  BY <1>1, <1>2, <1>3, <1>4, <1>5, <1>6, <1>7, <1>8, <1>9, <1>10, <1>11, <1>12 DEF Request

LEMMA TypesStep ==
  ASSUME Shape, [IdentityNext]_identityVars
  PROVE  IdentityTypeOK'
<1> USE NothingAssumption DEF Shape, IdentityTypeOK, accountVars, checkVars, fileVars
<1>1. ASSUME NEW h \in Handlers, Request(h) PROVE IdentityTypeOK'
  BY <1>1, TypesOfRequest
<1>2. CASE AnalysisRead
  BY <1>2 DEF AnalysisRead, Analysing, RowsQueued
<1>3. CASE AnalysisMark
  BY <1>3 DEF AnalysisMark, Analysis, Analysing, Report
<1>4. CASE AnalysisOpen
  BY <1>4 DEF AnalysisOpen, Analysis, Analysing
<1>5. CASE AnalysisWrite
  <2>1. CASE Analysis("checked")
    BY <1>5, <2>1 DEF AnalysisWrite, Analysis, Analysing, Report
  <2>2. CASE Analysis("unreadable")
    <3>1. analysing.kind \in Kinds /\ report[analysing.kind] \in Report
      BY <2>2 DEF Analysis, Analysing, ReportThere
    <3>2. [report[analysing.kind] EXCEPT !.status = "FAILED"] \in Report
      BY <3>1 DEF Report
    <3>3. report' \in [Kinds -> Report \cup {Nothing}]
      BY <1>5, <2>2, <3>1, <3>2 DEF AnalysisWrite, Analysis
    <3> QED
      BY <1>5, <2>2, <3>3 DEF AnalysisWrite, Analysis
  <2> QED
    BY <1>5, <2>1, <2>2 DEF AnalysisWrite
<1>6. CASE AnalysisDies
  BY <1>6 DEF AnalysisDies, Analysing
<1>7. ASSUME NEW id \in SubmissionIds, ConsoleApprove(id) \/ ConsoleReject(id)
      PROVE  IdentityTypeOK'
  BY <1>7 DEF ConsoleApprove, ConsoleReject, Decides, Submission
<1>8. CASE ConsoleVerify
  BY <1>8 DEF ConsoleVerify
<1>9. CASE Restart
  BY <1>9 DEF Restart
<1>10. CASE UNCHANGED identityVars
  BY <1>10 DEF identityVars
<1> QED
  BY <1>1, <1>2, <1>3, <1>4, <1>5, <1>6, <1>7, <1>8, <1>9, <1>10 DEF IdentityNext

-----------------------------------------------------------------------------
(* Who touches files.                                                       *)

FileStep(h) ==
  \/ \E k \in Kinds, f \in Files : Save(h, k, f)
  \/ LookUp(h) \/ Upsert(h) \/ RemoveOld(h)

\* Uploads under way stay as they are, or are over.
UploadsStand ==
  /\ UNCHANGED fileVars
  /\ \A g \in Handlers : Uploading(g)' => task'[g] = task[g]

LEMMA UploadsStandRequests ==
  ASSUME Shape, NEW h \in Handlers, Request(h), ~ FileStep(h)
  PROVE  UploadsStand
<1> USE DEF Shape, IdentityTypeOK, UploadsStand, Uploading, Take, At, Finish
<1>1. CASE Enqueue(h) \/ Approve(h) \/ Hold(h) \/ Reject(h)
  BY <1>1 DEF Enqueue, Approve, Hold, Reject
<1>2. CASE SubmitRead(h)
  BY <1>2 DEF SubmitRead
<1>3. ASSUME NEW id \in SubmissionIds, SubmitWrite(h, id) PROVE UploadsStand
  BY <1>3 DEF SubmitWrite
<1>4. ASSUME NEW op \in {"hold", "reject", "approve"}, NEW id \in SubmissionIds,
             ReviewRead(h, op, id)
      PROVE  UploadsStand
  BY <1>4 DEF ReviewRead
<1>5. CASE LookForLicence(h)
  BY <1>5 DEF LookForLicence, Task
<1> QED
  BY <1>1, <1>2, <1>3, <1>4, <1>5 DEF Request, FileStep

LEMMA UploadsStandSteps ==
  ASSUME Shape, [IdentityNext]_identityVars, ~ \E h \in Handlers : FileStep(h)
  PROVE  UploadsStand
<1>1. ASSUME NEW h \in Handlers, Request(h) PROVE UploadsStand
  BY <1>1, UploadsStandRequests
<1>2. CASE AnalysisRead \/ AnalysisMark \/ AnalysisOpen \/ AnalysisWrite \/ AnalysisDies
  BY <1>2 DEF AnalysisRead, AnalysisMark, AnalysisOpen, AnalysisWrite, AnalysisDies, UploadsStand
<1>3. ASSUME NEW id \in SubmissionIds, ConsoleApprove(id) \/ ConsoleReject(id) PROVE UploadsStand
  BY <1>3 DEF ConsoleApprove, ConsoleReject, UploadsStand
<1>4. CASE ConsoleVerify
  BY <1>4 DEF ConsoleVerify, UploadsStand
<1>5. CASE Restart
  BY <1>5 DEF Restart, UploadsStand, Uploading
<1>6. CASE UNCHANGED identityVars
  BY <1>6 DEF identityVars, UploadsStand
<1> QED
  BY <1>1, <1>2, <1>3, <1>4, <1>5, <1>6 DEF IdentityNext

LEMMA DocumentsStay ==
  ASSUME Shape, [IdentityNext]_identityVars
  PROVE  \A k \in Kinds : document[k] # Nothing => document'[k] # Nothing
<1> USE DEF Shape, IdentityTypeOK
<1>1. ASSUME NEW h \in Handlers, Upsert(h)
      PROVE  \A k \in Kinds : document[k] # Nothing => document'[k] # Nothing
  BY <1>1, NothingAssumption, ZenonT(30) DEF Upsert, At, Task
<1>2. ASSUME NEW h \in Handlers, FileStep(h), ~ Upsert(h) PROVE UNCHANGED document
  BY <1>2 DEF FileStep, Save, LookUp, RemoveOld, fileVars
<1>3. CASE ~ \E h \in Handlers : FileStep(h)
  BY <1>3, UploadsStandSteps DEF UploadsStand, fileVars
<1> QED
  BY <1>1, <1>2, <1>3

LEMMA UploadedStep ==
  ASSUME Shape, [IdentityNext]_identityVars
  PROVE  RowUploaded'
<1> USE DEF Shape, IdentityTypeOK
<1> SUFFICES ASSUME NEW g \in Handlers, Uploading(g)', task'[g].at \in {"stored", "replaced"}
             PROVE  document'[task'[g].kind] # Nothing
  BY DEF RowUploaded
<1>1. CASE task'[g] = task[g]
  BY <1>1, DocumentsStay DEF RowUploaded, Uploading, Task
<1>2. CASE Upsert(g)
  BY <1>2, NothingAssumption, ZenonT(30) DEF Upsert, At, Goto, Task
<1>3. CASE RemoveOld(g)
  BY <1>3, NothingAssumption DEF RemoveOld, At, Goto, Task, RowUploaded, Uploading
<1>4. ASSUME NEW h \in Handlers, FileStep(h) PROVE task'[g] = task[g] \/ Upsert(g) \/ RemoveOld(g)
  <2>1. CASE h = g
    BY <1>4, <2>1 DEF FileStep, Save, LookUp, Take, At, Task
  <2>2. CASE h # g
    BY <1>4, <2>2 DEF FileStep, Save, LookUp, Upsert, RemoveOld, Take, Goto
  <2> QED
    BY <2>1, <2>2
<1>5. CASE ~ \E h \in Handlers : FileStep(h)
  BY <1>5, UploadsStandSteps, <1>1 DEF UploadsStand
<1> QED
  BY <1>1, <1>2, <1>3, <1>4, <1>5

\* The chain grows at one end, when a row is there, and is taken from the other.
ChainStep ==
  \/ UNCHANGED chain
  \/ chain' = <<>>
  \/ \E h \in Handlers : Enqueue(h)
  \/ AnalysisRead

LEMMA ChainSteps ==
  ASSUME [IdentityNext]_identityVars
  PROVE  ChainStep
<1>1. ASSUME NEW h \in Handlers, Request(h) PROVE ChainStep
  BY <1>1 DEF Request, ChainStep, Save, LookUp, Upsert, RemoveOld, SubmitRead, SubmitWrite,
              ReviewRead, LookForLicence, Approve, Hold, Reject, checkVars
<1>2. CASE AnalysisRead \/ AnalysisMark \/ AnalysisOpen \/ AnalysisWrite \/ AnalysisDies
  BY <1>2 DEF ChainStep, AnalysisMark, AnalysisOpen, AnalysisWrite, AnalysisDies
<1>3. ASSUME NEW id \in SubmissionIds, ConsoleApprove(id) \/ ConsoleReject(id) PROVE ChainStep
  BY <1>3 DEF ConsoleApprove, ConsoleReject, ChainStep, checkVars
<1>4. CASE ConsoleVerify \/ Restart \/ UNCHANGED identityVars
  BY <1>4 DEF ConsoleVerify, Restart, identityVars, ChainStep, checkVars
<1> QED
  BY <1>1, <1>2, <1>3, <1>4 DEF IdentityNext

LEMMA QueuedStep ==
  ASSUME Shape, [IdentityNext]_identityVars
  PROVE  RowsQueued'
<1> USE DEF Shape, IdentityTypeOK
<1> SUFFICES ASSUME NEW i \in DOMAIN chain' PROVE document'[chain'[i]] # Nothing
  BY DEF RowsQueued
<1>0. \A k \in Kinds : document[k] # Nothing => document'[k] # Nothing
  BY DocumentsStay
<1>1. CASE UNCHANGED chain
  BY <1>0, <1>1 DEF RowsQueued
<1>2. CASE chain' = <<>>
  BY <1>2
<1>3. ASSUME NEW h \in Handlers, Enqueue(h) PROVE document'[chain'[i]] # Nothing
  <2>1. /\ task[h].kind \in Kinds /\ document[task[h].kind] # Nothing
        /\ chain' = Append(chain, task[h].kind)
    BY <1>3 DEF Enqueue, At, Task, RowUploaded, Uploading
  <2> QED
    BY <2>1, <1>0 DEF RowsQueued
<1>4. CASE AnalysisRead
  <2>1. chain' = Tail(chain) /\ chain # <<>>
    BY <1>4 DEF AnalysisRead
  <2>2. i + 1 \in DOMAIN chain /\ chain'[i] = chain[i + 1] /\ chain[i + 1] \in Kinds
    BY <2>1
  <2> QED
    BY <2>2, <1>0 DEF RowsQueued
<1> QED
  BY <1>1, <1>2, <1>3, <1>4, ChainSteps DEF ChainStep

LEMMA ReportThereStep ==
  ASSUME Shape, [IdentityNext]_identityVars
  PROVE  ReportThere'
<1> USE DEF Shape, IdentityTypeOK, ReportThere
<1>1. ASSUME NEW h \in Handlers, Request(h) PROVE ReportThere'
  BY <1>1 DEF Request, Save, LookUp, Upsert, RemoveOld, Enqueue, SubmitRead, SubmitWrite,
              ReviewRead, LookForLicence, Approve, Hold, Reject, checkVars
<1>2. CASE AnalysisRead \/ AnalysisDies \/ AnalysisWrite \/ Restart
  BY <1>2 DEF AnalysisRead, AnalysisDies, AnalysisWrite, Restart
<1>3. CASE AnalysisMark
  <2>1. analysing \in Analysing /\ analysing'.kind = analysing.kind
    BY <1>3 DEF AnalysisMark, Analysis, Analysing
  <2>2. report'[analysing.kind] \in Report
    BY <1>3, <2>1 DEF AnalysisMark, Analysing, Report
  <2> QED
    BY <2>1, <2>2, NothingAssumption
<1>4. CASE AnalysisOpen
  BY <1>4 DEF AnalysisOpen, Analysis, Analysing
<1>5. ASSUME NEW id \in SubmissionIds, ConsoleApprove(id) \/ ConsoleReject(id)
      PROVE  ReportThere'
  BY <1>5 DEF ConsoleApprove, ConsoleReject, checkVars
<1>6. CASE ConsoleVerify \/ UNCHANGED identityVars
  BY <1>6 DEF ConsoleVerify, identityVars, checkVars
<1> QED
  BY <1>1, <1>2, <1>3, <1>4, <1>5, <1>6 DEF IdentityNext

LEMMA ShapeStep ==
  ASSUME Shape, [IdentityNext]_identityVars
  PROVE  Shape'
BY TypesStep, UploadedStep, QueuedStep, ReportThereStep DEF Shape

\* Every variable keeps the shape of its table or of the service's memory.
THEOREM IdentityTyping == IdentitySpec => []IdentityTypeOK
<1>1. IdentityInit => Shape
  BY ShapeInit
<1>2. Shape /\ [IdentityNext]_identityVars => Shape'
  BY ShapeStep
<1>3. Shape => IdentityTypeOK
  BY DEF Shape
<1> QED
  BY <1>1, <1>2, <1>3, PTL DEF IdentitySpec

-----------------------------------------------------------------------------
(* The files.                                                               *)

\* Saved, and named by no row yet.
Fresh(h) == Uploading(h) /\ task[h].at \in {"saved", "looked"}

\* An upload still holds the key of the file it may remove.
Removing(h) ==
  Uploading(h) /\ task[h].at \in {"looked", "stored"} /\ task[h].previous # Nothing

FilesMinted ==
  \A h \in Handlers :
    Uploading(h) => task[h].file \in minted /\ task[h].previous \in minted \cup {Nothing}
FreshStored == \A h \in Handlers : Fresh(h) => task[h].file \in stored
FreshUnnamed == \A h \in Handlers : Fresh(h) => \A k \in Kinds : document[k] # task[h].file
FreshOnce ==
  \A h, g \in Handlers :
    Fresh(h) /\ Uploading(g) =>
      /\ task[g].previous # task[h].file
      /\ g # h => task[g].file # task[h].file

\* Only the row the file was read from may still name it, and not past the upsert.
OldUnnamed ==
  \A h \in Handlers :
    Removing(h) =>
      \A k \in Kinds :
        document[k] = task[h].previous => k = task[h].kind /\ task[h].at = "looked"
RowsDistinct ==
  \A k, l \in Kinds : document[k] # Nothing /\ k # l => document[k] # document[l]

FilesInv ==
  /\ FileKept /\ FilesMinted
  /\ FreshStored /\ FreshUnnamed /\ FreshOnce
  /\ OldUnnamed /\ RowsDistinct

LEMMA SaveKeepsFiles ==
  ASSUME Shape, FilesInv, NEW h \in Handlers, NEW k \in Kinds, NEW f \in Files, Save(h, k, f)
  PROVE  FilesInv'
<1> USE DEF Shape, IdentityTypeOK
<1>1. /\ f \notin minted /\ f # Nothing
      /\ minted' = minted \cup {f} /\ stored' = stored \cup {f} /\ document' = document
      /\ task'[h] = [op |-> "upload", kind |-> k, file |-> f, previous |-> Nothing, at |-> "saved"]
      /\ \A g \in Handlers : g # h => task'[g] = task[g]
  BY NothingAssumption DEF Save, Take
<1>2. \A l \in Kinds : document[l] # Nothing => document[l] \in minted
  BY DEF FilesInv, FileKept
<1>3. FileKept' /\ RowsDistinct'
  BY <1>1 DEF FilesInv, FileKept, RowsDistinct
<1>4. FilesMinted' /\ FreshStored'
  BY <1>1 DEF FilesInv, FilesMinted, FreshStored, Fresh, Uploading
<1>5. FreshUnnamed'
  BY <1>1, <1>2 DEF FilesInv, FreshUnnamed, Fresh, Uploading
<1>6. FreshOnce'
  <2> SUFFICES ASSUME NEW a \in Handlers, NEW g \in Handlers, Fresh(a)', Uploading(g)'
               PROVE  /\ task'[g].previous # task'[a].file
                      /\ g # a => task'[g].file # task'[a].file
    BY DEF FreshOnce
  <2>1. CASE a = h /\ g = h
    BY <1>1, <2>1
  <2>2. CASE a = h /\ g # h
    BY <1>1, <2>2 DEF FilesInv, FilesMinted, Uploading
  <2>3. CASE a # h /\ g = h
    <3>1. task[a].file \in minted
      BY <1>1, <2>3 DEF FilesInv, FilesMinted, Fresh, Uploading
    <3> QED
      BY <1>1, <2>3, <3>1, NothingAssumption
  <2>4. CASE a # h /\ g # h
    BY <1>1, <2>4 DEF FilesInv, FreshOnce, Fresh, Uploading
  <2> QED
    BY <2>1, <2>2, <2>3, <2>4
<1>7. OldUnnamed'
  BY <1>1 DEF FilesInv, OldUnnamed, Removing, Uploading
<1> QED
  BY <1>3, <1>4, <1>5, <1>6, <1>7 DEF FilesInv

LEMMA LookUpKeepsFiles ==
  ASSUME Shape, FilesInv, NEW h \in Handlers, LookUp(h)
  PROVE  FilesInv'
<1> USE DEF Shape, IdentityTypeOK
<1>1. /\ Fresh(h) /\ task[h].kind \in Kinds
      /\ stored' = stored /\ minted' = minted /\ document' = document
      /\ task'[h].op = task[h].op /\ task'[h].kind = task[h].kind
      /\ task'[h].file = task[h].file /\ task'[h].previous = document[task[h].kind]
      /\ task'[h].at = "looked" /\ task'[h] # Nothing
      /\ \A g \in Handlers : g # h => task'[g] = task[g]
  BY NothingAssumption DEF LookUp, At, Fresh, Uploading, Task, fileVars
<1>2. \A l \in Kinds : document[l] # Nothing => document[l] \in minted
  BY DEF FilesInv, FileKept
<1>3. FileKept' /\ RowsDistinct'
  BY <1>1 DEF FilesInv, FileKept, RowsDistinct
<1>4. FilesMinted'
  BY <1>1, <1>2 DEF FilesInv, FilesMinted, Fresh, Uploading
<1>5. \A a \in Handlers : Fresh(a)' => Fresh(a) /\ task'[a].file = task[a].file
  BY <1>1 DEF Fresh, Uploading
<1>6. FreshStored' /\ FreshUnnamed'
  BY <1>1, <1>5 DEF FilesInv, FreshStored, FreshUnnamed
<1>7. FreshOnce'
  <2>1. \A g \in Handlers : Uploading(g)' => Uploading(g) /\ task'[g].file = task[g].file
    BY <1>1 DEF Fresh, Uploading
  <2>2. \A a \in Handlers : Fresh(a) => document[task[h].kind] # task[a].file
    BY <1>1 DEF FilesInv, FreshUnnamed
  <2> QED
    BY <1>1, <1>5, <2>1, <2>2 DEF FilesInv, FreshOnce
<1>8. OldUnnamed'
  BY <1>1 DEF FilesInv, OldUnnamed, Removing, Uploading, RowsDistinct
<1> QED
  BY <1>3, <1>4, <1>6, <1>7, <1>8 DEF FilesInv

LEMMA UpsertKeepsFiles ==
  ASSUME Shape, FilesInv, NEW h \in Handlers, Upsert(h)
  PROVE  FilesInv'
<1> USE DEF Shape, IdentityTypeOK
<1>1. /\ Fresh(h) /\ task[h].kind \in Kinds /\ task[h].at = "looked"
      /\ stored' = stored /\ minted' = minted
      /\ document'[task[h].kind] = task[h].file
      /\ \A l \in Kinds : l # task[h].kind => document'[l] = document[l]
      /\ task'[h].op = task[h].op /\ task'[h].kind = task[h].kind
      /\ task'[h].file = task[h].file /\ task'[h].previous = task[h].previous
      /\ task'[h].at = "stored" /\ task'[h] # Nothing
      /\ \A g \in Handlers : g # h => task'[g] = task[g]
  BY NothingAssumption DEF Upsert, At, Goto, Fresh, Uploading, Task
<1>2. \A g \in Handlers :
        Uploading(g)' => /\ Uploading(g) /\ task'[g].file = task[g].file
                         /\ task'[g].previous = task[g].previous
                         /\ task'[g].kind = task[g].kind
  BY <1>1 DEF Fresh, Uploading
<1>3. \A g \in Handlers : Fresh(g)' => Fresh(g) /\ g # h
  BY <1>1 DEF Fresh, Uploading
<1>4. FileKept'
  BY <1>1 DEF FilesInv, FileKept, FreshStored
<1>5. RowsDistinct'
  BY <1>1 DEF FilesInv, RowsDistinct, FreshUnnamed
<1>6. FilesMinted' /\ FreshStored'
  BY <1>1, <1>2, <1>3 DEF FilesInv, FilesMinted, FreshStored, Fresh
<1>7. FreshUnnamed'
  <2> SUFFICES ASSUME NEW a \in Handlers, Fresh(a)', NEW l \in Kinds
               PROVE  document'[l] # task'[a].file
    BY DEF FreshUnnamed
  <2>1. Fresh(a) /\ a # h /\ task'[a].file = task[a].file
    BY <1>1, <1>3
  <2>2. task[h].file # task[a].file
    BY <1>1, <2>1 DEF FilesInv, FreshOnce, Fresh
  <2> QED
    BY <1>1, <2>1, <2>2 DEF FilesInv, FreshUnnamed
<1>8. FreshOnce'
  BY <1>1, <1>2, <1>3 DEF FilesInv, FreshOnce
<1>9. OldUnnamed'
  <2> SUFFICES ASSUME NEW a \in Handlers, Removing(a)', NEW l \in Kinds,
                      document'[l] = task'[a].previous
               PROVE  l = task'[a].kind /\ task'[a].at = "looked"
    BY DEF OldUnnamed
  <2>1. Uploading(a) /\ task'[a].previous = task[a].previous /\ Removing(a)
    BY <1>1, <1>2 DEF Removing
  <2>2. task[a].previous # task[h].file
    BY <1>1, <2>1 DEF FilesInv, FreshOnce
  <2>3. l # task[h].kind /\ document[l] = task[a].previous
    BY <1>1, <2>1, <2>2
  <2>4. l = task[a].kind /\ task[a].at = "looked"
    BY <2>1, <2>3 DEF FilesInv, OldUnnamed
  <2> QED
    BY <1>1, <2>3, <2>4
<1> QED
  BY <1>4, <1>5, <1>6, <1>7, <1>8, <1>9 DEF FilesInv

LEMMA RemoveOldKeepsFiles ==
  ASSUME Shape, FilesInv, NEW h \in Handlers, RemoveOld(h)
  PROVE  FilesInv'
<1> USE DEF Shape, IdentityTypeOK
<1>1. /\ Uploading(h) /\ task[h].kind \in Kinds /\ task[h].at = "stored"
      /\ stored' = stored \ {task[h].previous} /\ minted' = minted /\ document' = document
      /\ task'[h].op = task[h].op /\ task'[h].kind = task[h].kind
      /\ task'[h].file = task[h].file /\ task'[h].previous = task[h].previous
      /\ task'[h].at = "replaced" /\ task'[h] # Nothing
      /\ \A g \in Handlers : g # h => task'[g] = task[g]
  BY NothingAssumption DEF RemoveOld, At, Goto, Uploading, Task
<1>2. \A g \in Handlers :
        Uploading(g)' => /\ Uploading(g) /\ task'[g].file = task[g].file
                         /\ task'[g].previous = task[g].previous
                         /\ task'[g].kind = task[g].kind
  BY <1>1 DEF Uploading
<1>3. \A g \in Handlers : Fresh(g)' => Fresh(g)
  BY <1>1 DEF Fresh, Uploading
<1>4. FileKept'
  <2>1. \A l \in Kinds : document[l] # Nothing => document[l] # task[h].previous
    BY <1>1 DEF FilesInv, OldUnnamed, Removing
  <2> QED
    BY <1>1, <2>1 DEF FilesInv, FileKept
<1>5. RowsDistinct' /\ FilesMinted' /\ FreshUnnamed'
  BY <1>1, <1>2, <1>3 DEF FilesInv, RowsDistinct, FilesMinted, FreshUnnamed, Fresh
<1>6. FreshStored'
  <2>1. \A a \in Handlers : Fresh(a) => task[h].previous # task[a].file
    BY <1>1 DEF FilesInv, FreshOnce
  <2> QED
    BY <1>1, <1>2, <1>3, <2>1 DEF FilesInv, FreshStored, Fresh
<1>7. FreshOnce'
  BY <1>1, <1>2, <1>3 DEF FilesInv, FreshOnce, Fresh
<1>8. OldUnnamed'
  BY <1>1 DEF FilesInv, OldUnnamed, Removing, Uploading
<1> QED
  BY <1>4, <1>5, <1>6, <1>7, <1>8 DEF FilesInv

LEMMA QuietKeepsFiles ==
  ASSUME Shape, FilesInv, UploadsStand
  PROVE  FilesInv'
<1>1. UNCHANGED <<document, stored, minted>>
  BY DEF UploadsStand, fileVars
<1>2. \A g \in Handlers : Uploading(g)' => Uploading(g) /\ task'[g] = task[g]
  BY DEF UploadsStand, Uploading
<1>3. FileKept' /\ RowsDistinct'
  BY <1>1 DEF FilesInv, FileKept, RowsDistinct
<1>4. FilesMinted' /\ FreshStored' /\ FreshUnnamed'
  BY <1>1, <1>2 DEF FilesInv, FilesMinted, FreshStored, FreshUnnamed, Fresh
<1>5. FreshOnce' /\ OldUnnamed'
  BY <1>1, <1>2 DEF FilesInv, FreshOnce, OldUnnamed, Fresh, Removing
<1> QED
  BY <1>3, <1>4, <1>5 DEF FilesInv

LEMMA FilesStep ==
  ASSUME Shape, FilesInv, [IdentityNext]_identityVars
  PROVE  FilesInv'
BY SaveKeepsFiles, LookUpKeepsFiles, UpsertKeepsFiles, RemoveOldKeepsFiles, UploadsStandSteps,
   QuietKeepsFiles DEF FileStep

\* However uploads cross, and wherever one is cut, no row names a removed file.
THEOREM FilesKept == IdentitySpec => []FileKept
<1>1. IdentityInit => Shape /\ FilesInv
  BY ShapeInit
     DEF IdentityInit, FilesInv, FileKept, FilesMinted, FreshStored, FreshUnnamed, FreshOnce,
         OldUnnamed, RowsDistinct, Fresh, Removing, Uploading
<1>2. Shape /\ FilesInv /\ [IdentityNext]_identityVars => (Shape /\ FilesInv)'
  BY ShapeStep, FilesStep
<1>3. FilesInv => FileKept
  BY DEF FilesInv
<1> QED
  BY <1>1, <1>2, <1>3, PTL DEF IdentitySpec

-----------------------------------------------------------------------------
(* The reports.                                                             *)

\* Checks of the document that is there are still to come, or were lost.
Owed(k) == Unqueued(k) \/ k \in Queued \/ k \in cut

\* A run that reads a file the row has left since is not the last one, and past its
\* mark the report is of the file it reads.
RunOwed ==
  analysing # Nothing =>
    /\ document[analysing.kind] = analysing.of \/ Owed(analysing.kind)
    /\ analysing.at # "read" => report[analysing.kind].run = analysing.of

ReportsInv == ReportFollowsFile /\ RunOwed

\* What is owed stays owed, and a row that changes owes its checks.
Owes ==
  /\ UNCHANGED <<report, analysing>>
  /\ \A k \in Kinds : /\ Owed(k) => Owed(k)'
                      /\ document'[k] # document[k] => Owed(k)'

LEMMA RequestOwes ==
  ASSUME Shape, NEW h \in Handlers, Request(h)
  PROVE  Owes
<1> USE DEF Shape, IdentityTypeOK
<1>1. CASE Enqueue(h)
  <2>1. /\ task[h].kind \in Kinds
        /\ chain' = Append(chain, task[h].kind)
        /\ cut' = cut \ {task[h].kind}
        /\ \A g \in Handlers : g # h => task'[g] = task[g]
        /\ UNCHANGED <<document, report, analysing>>
    BY <1>1 DEF Enqueue, At, Finish, Task, fileVars
  <2>2. task[h].kind \in Queued'
    <3>1. Len(chain) + 1 \in DOMAIN chain' /\ chain'[Len(chain) + 1] = task[h].kind
      BY <2>1
    <3> QED
      BY <3>1 DEF Queued
  <2>3. Queued \subseteq Queued'
    <3>1. \A i \in DOMAIN chain : i \in DOMAIN chain' /\ chain'[i] = chain[i]
      BY <2>1
    <3> QED
      BY <3>1 DEF Queued
  <2>4. ASSUME NEW k \in Kinds, Unqueued(k), k # task[h].kind PROVE Unqueued(k)'
    <3>1. PICK g \in Handlers : /\ At(g, "upload", "stored") \/ At(g, "upload", "replaced")
                                /\ task[g].kind = k
      BY <2>4 DEF Unqueued
    <3>2. task'[g] = task[g]
      BY <2>1, <2>4, <3>1
    <3> QED
      BY <3>1, <3>2 DEF Unqueued, At
  <2> QED
    BY <2>1, <2>2, <2>3, <2>4 DEF Owes, Owed
<1>2. ASSUME \A g \in Handlers :
               At(g, "upload", "stored") \/ At(g, "upload", "replaced") =>
                 /\ task'[g] # Nothing /\ task'[g].op = "upload"
                 /\ task'[g].at \in {"stored", "replaced"} /\ task'[g].kind = task[g].kind,
             UNCHANGED <<chain, cut>>
      PROVE  \A k \in Kinds : Owed(k) => Owed(k)'
  <2>1. \A k \in Kinds : Unqueued(k) => Unqueued(k)'
    BY <1>2 DEF Unqueued, At
  <2>2. Queued' = Queued
    BY <1>2 DEF Queued
  <2> QED
    BY <1>2, <2>1, <2>2 DEF Owed
<1>3. CASE Upsert(h)
  <2>1. /\ UNCHANGED <<chain, cut, report, analysing>>
        /\ \A k \in Kinds : k # task[h].kind => document'[k] = document[k]
        /\ \A g \in Handlers : g # h => task'[g] = task[g]
    BY <1>3 DEF Upsert, Goto, checkVars
  <2>2. /\ task'[h] # Nothing /\ task'[h].op = "upload" /\ task'[h].at = "stored"
        /\ task'[h].kind = task[h].kind /\ task[h].at = "looked"
    BY <1>3, NothingAssumption DEF Upsert, At, Goto, Task
  <2>3. \A k \in Kinds : k = task[h].kind => Unqueued(k)'
    BY <2>2 DEF Unqueued, At
  <2>4. \A k \in Kinds : Owed(k) => Owed(k)'
    BY <1>2, <2>1, <2>2 DEF At
  <2> QED
    BY <2>1, <2>3, <2>4 DEF Owes, Owed
<1>4. CASE RemoveOld(h)
  <2>1. /\ UNCHANGED <<chain, cut, report, analysing, document>>
        /\ \A g \in Handlers : g # h => task'[g] = task[g]
    BY <1>4 DEF RemoveOld, Goto, checkVars
  <2>2. /\ task'[h] # Nothing /\ task'[h].op = "upload" /\ task'[h].at = "replaced"
        /\ task'[h].kind = task[h].kind
    BY <1>4, NothingAssumption DEF RemoveOld, At, Goto, Task
  <2>3. \A k \in Kinds : Owed(k) => Owed(k)'
    BY <1>2, <2>1, <2>2 DEF At
  <2> QED
    BY <2>1, <2>3 DEF Owes
<1>5. CASE ~ Enqueue(h) /\ ~ Upsert(h) /\ ~ RemoveOld(h)
  <2>1. UNCHANGED <<chain, cut, report, analysing, document>>
    BY <1>5 DEF Request, Save, LookUp, SubmitRead, SubmitWrite, ReviewRead, LookForLicence,
                Approve, Hold, Reject, checkVars, fileVars
  <2>2. ~ At(h, "upload", "stored") /\ ~ At(h, "upload", "replaced")
    BY <1>5 DEF Request, Save, LookUp, SubmitRead, SubmitWrite, ReviewRead, LookForLicence,
                Approve, Hold, Reject, Take, At
  <2>3. \A g \in Handlers : g # h => task'[g] = task[g]
    BY <1>5 DEF Request, Save, LookUp, SubmitRead, SubmitWrite, ReviewRead, LookForLicence,
                Approve, Hold, Reject, Take, Finish
  <2>4. \A k \in Kinds : Owed(k) => Owed(k)'
    BY <1>2, <2>1, <2>2, <2>3 DEF At
  <2> QED
    BY <2>1, <2>4 DEF Owes
<1> QED
  BY <1>1, <1>3, <1>4, <1>5

LEMMA OwesKeepsReports ==
  ASSUME Shape, ReportsInv, Owes
  PROVE  ReportsInv'
<1>1. ReportFollowsFile'
  BY DEF ReportsInv, ReportFollowsFile, ReportCurrent, Owes, Owed, UnderWay
<1>2. RunOwed'
  BY DEF Shape, IdentityTypeOK, Analysing, ReportsInv, RunOwed, Owes
<1> QED
  BY <1>1, <1>2 DEF ReportsInv

LEMMA ReportsStep ==
  ASSUME Shape, FileKept, ReportsInv, [IdentityNext]_identityVars
  PROVE  ReportsInv'
<1> USE DEF Shape, IdentityTypeOK
<1>1. ASSUME NEW h \in Handlers, Request(h) PROVE ReportsInv'
  BY <1>1, RequestOwes, OwesKeepsReports
<1>2. ASSUME UNCHANGED <<chain, task>>, cut \subseteq cut'
      PROVE  \A k \in Kinds : Owed(k) => Owed(k)'
  BY <1>2 DEF Owed, Queued, Unqueued, At
<1>3. CASE AnalysisRead
  <2>1. /\ chain # <<>> /\ chain' = Tail(chain) /\ Head(chain) \in Kinds
        /\ analysing'.kind = Head(chain) /\ analysing'.of = document[Head(chain)]
        /\ analysing'.at = "read" /\ analysing = Nothing
        /\ UNCHANGED <<document, report, cut, task>>
    BY <1>3 DEF AnalysisRead, fileVars
  <2>2. analysing' # Nothing
    BY <1>3, NothingAssumption, <2>1, TypesStep DEF AnalysisRead, Analysing, RowsQueued
  <2>3. Queued \subseteq Queued' \cup {Head(chain)}
    <3> SUFFICES ASSUME NEW i \in DOMAIN chain, i # 1 PROVE chain[i] \in Queued'
      BY <2>1 DEF Queued
    <3>1. i - 1 \in DOMAIN chain' /\ chain'[i - 1] = chain[i]
      BY <2>1
    <3> QED
      BY <3>1 DEF Queued
  <2>4. \A k \in Kinds : Unqueued(k) => Unqueued(k)'
    BY <2>1 DEF Unqueued, At
  <2>5. ReportFollowsFile'
    BY <2>1, <2>2, <2>3, <2>4 DEF ReportsInv, ReportFollowsFile, ReportCurrent, UnderWay
  <2>6. RunOwed'
    BY <2>1 DEF RunOwed
  <2> QED
    BY <2>5, <2>6 DEF ReportsInv
<1>4. CASE AnalysisMark
  <2>1. /\ analysing \in Analysing /\ analysing' \in Analysing
        /\ analysing'.kind = analysing.kind /\ analysing'.of = analysing.of
        /\ analysing'.at = "running"
        /\ \A k \in Kinds : k # analysing.kind => report'[k] = report[k]
        /\ UNCHANGED <<document, chain, cut, task>>
    BY <1>4 DEF AnalysisMark, Analysis, Analysing, fileVars
  <2>2. \A k \in Kinds : Owed(k) => Owed(k)'
    BY <1>2, <2>1
  <2>3. ReportFollowsFile'
    BY <2>1, <2>2, NothingAssumption
       DEF ReportsInv, ReportFollowsFile, ReportCurrent, UnderWay, Owed
  <2>4. report'[analysing.kind].run = analysing.of
    BY <1>4, <2>1 DEF AnalysisMark, Analysing
  <2>5. RunOwed'
    BY <2>1, <2>2, <2>4, NothingAssumption DEF ReportsInv, RunOwed, Analysing
  <2> QED
    BY <2>3, <2>5 DEF ReportsInv
<1>5. CASE AnalysisOpen
  <2>1. /\ analysing \in Analysing /\ analysing' \in Analysing
        /\ analysing'.kind = analysing.kind /\ analysing'.of = analysing.of
        /\ analysing.at = "running"
        /\ UNCHANGED <<document, report, chain, cut, task>>
    BY <1>5 DEF AnalysisOpen, Analysis, Analysing, fileVars
  <2>2. \A k \in Kinds : Owed(k) => Owed(k)'
    BY <1>2, <2>1
  <2>3. ReportFollowsFile'
    BY <2>1, <2>2, NothingAssumption
       DEF ReportsInv, ReportFollowsFile, ReportCurrent, UnderWay, Owed
  <2>4. RunOwed'
    BY <2>1, <2>2, NothingAssumption DEF ReportsInv, RunOwed, Analysing
  <2> QED
    BY <2>3, <2>4 DEF ReportsInv
<1>6. CASE AnalysisWrite
  <2>1. /\ analysing \in Analysing /\ analysing' = Nothing
        /\ \A k \in Kinds : k # analysing.kind => report'[k] = report[k]
        /\ UNCHANGED <<document, chain, cut, task>>
    BY <1>6 DEF AnalysisWrite, Analysis, fileVars
  <2>2. \A k \in Kinds : Owed(k) => Owed(k)'
    BY <1>2, <2>1
  <2>3. analysing.kind \in Kinds
    BY <2>1 DEF Analysing
  <2>4. document[analysing.kind] = analysing.of \/ Owed(analysing.kind)
    BY <2>1, NothingAssumption DEF ReportsInv, RunOwed
  <2>5. /\ report[analysing.kind] \in Report
        /\ report[analysing.kind].run = analysing.of
    BY <1>6, <2>1, <2>3, NothingAssumption
       DEF AnalysisWrite, Analysis, ReportThere, ReportsInv, RunOwed
  <2>6. /\ report'[analysing.kind] \in Report
        /\ report'[analysing.kind].run = analysing.of
        /\ \/ report'[analysing.kind].status = "FAILED"
           \/ /\ report'[analysing.kind].status = "DONE"
              /\ report'[analysing.kind].of = analysing.of
    <3>1. CASE Analysis("checked")
      <4>1. report'[analysing.kind] =
              [status |-> "DONE", of |-> analysing.of, run |-> analysing.of]
        BY <1>6, <2>3, <3>1 DEF AnalysisWrite, Analysis
      <4> QED
        BY <2>1, <4>1 DEF Report, Analysing
    <3>2. CASE Analysis("unreadable")
      <4>1. report'[analysing.kind] = [report[analysing.kind] EXCEPT !.status = "FAILED"]
        BY <1>6, <2>3, <3>2 DEF AnalysisWrite, Analysis
      <4> QED
        BY <2>5, <4>1 DEF Report
    <3> QED
      BY <1>6, <3>1, <3>2 DEF AnalysisWrite
  <2>7. ASSUME NEW k \in Kinds, k = analysing.kind PROVE ReportCurrent(k)' \/ Owed(k)
    <3>1. CASE document[k] = analysing.of
      <4>1. document'[k] = analysing.of
        BY <2>1, <3>1
      <4> QED
        BY <2>6, <2>7, <4>1, NothingAssumption DEF ReportCurrent
    <3> QED
      BY <2>4, <2>7, <3>1
  <2>8. ASSUME NEW k \in Kinds, k # analysing.kind, ReportCurrent(k) PROVE ReportCurrent(k)'
    BY <2>1, <2>8 DEF ReportCurrent
  <2>9. ReportFollowsFile'
    <3> SUFFICES ASSUME NEW k \in Kinds, document[k] # Nothing
                 PROVE  ReportCurrent(k)' \/ Owed(k)'
      BY <2>1 DEF ReportFollowsFile, Owed
    <3>1. CASE k = analysing.kind
      BY <2>2, <2>7, <3>1
    <3>2. CASE k # analysing.kind
      <4>1. ReportCurrent(k) \/ Owed(k)
        BY <3>2 DEF ReportsInv, ReportFollowsFile, UnderWay, Owed
      <4> QED
        BY <2>2, <2>8, <3>2, <4>1
    <3> QED
      BY <3>1, <3>2
  <2>10. RunOwed'
    BY <2>1 DEF RunOwed
  <2> QED
    BY <2>9, <2>10 DEF ReportsInv
<1>7. CASE AnalysisDies
  <2>1. /\ analysing' = Nothing /\ cut' = cut \cup {analysing.kind}
        /\ UNCHANGED <<document, report, chain, task>>
    BY <1>7 DEF AnalysisDies, fileVars
  <2>2. \A k \in Kinds : Owed(k) => Owed(k)'
    BY <1>2, <2>1
  <2>3. ReportFollowsFile'
    BY <2>1, <2>2 DEF ReportsInv, ReportFollowsFile, ReportCurrent, UnderWay, Owed
  <2>4. RunOwed'
    BY <2>1 DEF RunOwed
  <2> QED
    BY <2>3, <2>4 DEF ReportsInv
<1>8. ASSUME UNCHANGED <<document, report, chain, analysing, cut, task>> PROVE ReportsInv'
  BY <1>2, <1>8, OwesKeepsReports DEF Owes
<1>9. ASSUME NEW id \in SubmissionIds, ConsoleApprove(id) \/ ConsoleReject(id)
      PROVE  ReportsInv'
  BY <1>8, <1>9 DEF ConsoleApprove, ConsoleReject, fileVars, checkVars
<1>10. CASE ConsoleVerify \/ UNCHANGED identityVars
  BY <1>8, <1>10 DEF ConsoleVerify, identityVars, fileVars, checkVars
<1>11. CASE Restart
  <2>1. analysing' = Nothing /\ UNCHANGED <<document, report>>
    BY <1>11 DEF Restart, fileVars
  <2>2. \A k \in Kinds : Owed(k) \/ UnderWay(k) => k \in cut'
    BY <1>11 DEF Restart, Owed
  <2>3. ReportFollowsFile'
    BY <2>1, <2>2 DEF ReportsInv, ReportFollowsFile, ReportCurrent, Owed
  <2>4. RunOwed'
    BY <2>1 DEF RunOwed
  <2> QED
    BY <2>3, <2>4 DEF ReportsInv
<1> QED
  BY <1>1, <1>3, <1>4, <1>5, <1>6, <1>7, <1>9, <1>10, <1>11 DEF IdentityNext

\* Whatever is sent while the checks run, and whichever checks fail, a report that is
\* not of the document that is there will be made again, unless a restart or a
\* database error lost that work.
THEOREM ReportsFollow == IdentitySpec => []ReportFollowsFile
<1>1. IdentityInit => Shape /\ FilesInv /\ ReportsInv
  BY ShapeInit
     DEF IdentityInit, FilesInv, FileKept, FilesMinted, FreshStored, FreshUnnamed, FreshOnce,
         OldUnnamed, RowsDistinct, Fresh, Removing, Uploading, ReportsInv, ReportFollowsFile,
         RunOwed
<1>2. Shape /\ FilesInv /\ ReportsInv /\ [IdentityNext]_identityVars
        => (Shape /\ FilesInv /\ ReportsInv)'
  BY ShapeStep, FilesStep, ReportsStep DEF FilesInv
<1>3. ReportsInv => ReportFollowsFile
  BY DEF ReportsInv
<1> QED
  BY <1>1, <1>2, <1>3, PTL DEF IdentitySpec

-----------------------------------------------------------------------------
(* The submissions.                                                         *)

Lives(id) == submission[id] # Nothing /\ submission[id].status # "REJECTED"
FromConsole(id) == submission[id] # Nothing /\ submission[id].by = "console"

LEMMA ConsoleStep ==
  ASSUME Shape, OnlyConsoleStrands, [IdentityNext]_identityVars
  PROVE  OnlyConsoleStrands'
<1> USE DEF Shape, IdentityTypeOK
<1>1. ASSUME UNCHANGED <<submitted, submission>> PROVE OnlyConsoleStrands'
  BY <1>1 DEF OnlyConsoleStrands, NotStuck
<1>2. ASSUME NEW id \in SubmissionIds, Lives(id)' \/ FromConsole(id)'
      PROVE  OnlyConsoleStrands'
  BY <1>2 DEF OnlyConsoleStrands, NotStuck, Lives, FromConsole
<1>3. ASSUME NEW h \in Handlers, Request(h) PROVE OnlyConsoleStrands'
  <2>1. ASSUME NEW id \in SubmissionIds, SubmitWrite(h, id) PROVE OnlyConsoleStrands'
    <3>1. submission'[id] = [status |-> "PENDING_REVIEW", by |-> "nobody"]
      BY <2>1 DEF SubmitWrite
    <3>2. submission'[id] \in Submission
      BY <3>1 DEF Submission
    <3>3. Lives(id)'
      BY <3>1, <3>2, NothingAssumption DEF Lives
    <3> QED
      BY <1>2, <3>3
  <2>2. CASE Approve(h)
    <3>1. PICK id \in SubmissionIds :
            submission' = [submission EXCEPT ![id] = [status |-> "APPROVED", by |-> "queue"]]
      BY <2>2 DEF Approve, At, Decides, Task
    <3>2. submission'[id] \in Submission /\ submission'[id].status = "APPROVED"
      BY <3>1 DEF Submission
    <3>3. Lives(id)'
      BY <3>2, NothingAssumption DEF Lives
    <3> QED
      BY <1>2, <3>3
  <2>3. CASE Hold(h)
    <3>1. PICK id \in SubmissionIds :
            submission' = [submission EXCEPT ![id] = [status |-> "ON_HOLD", by |-> "queue"]]
      BY <2>3 DEF Hold, At, Decides, Task
    <3>2. submission'[id] \in Submission /\ submission'[id].status = "ON_HOLD"
      BY <3>1 DEF Submission
    <3>3. Lives(id)'
      BY <3>2, NothingAssumption DEF Lives
    <3> QED
      BY <1>2, <3>3
  <2>4. CASE Reject(h)
    BY <2>4 DEF Reject, OnlyConsoleStrands, NotStuck
  <2>5. ASSUME ~ \E id \in SubmissionIds : SubmitWrite(h, id),
               ~ Approve(h), ~ Hold(h), ~ Reject(h)
        PROVE  OnlyConsoleStrands'
    BY <1>1, <1>3, <2>5 DEF Request, Save, LookUp, Upsert, RemoveOld, Enqueue, SubmitRead,
                            ReviewRead, LookForLicence, accountVars
  <2> QED
    BY <2>1, <2>2, <2>3, <2>4, <2>5
<1>4. ASSUME NEW id \in SubmissionIds, ConsoleApprove(id) \/ ConsoleReject(id)
      PROVE  OnlyConsoleStrands'
  <2>1. submission'[id] \in Submission /\ submission'[id].by = "console"
    BY <1>4 DEF ConsoleApprove, ConsoleReject, Decides, Submission
  <2>2. FromConsole(id)'
    BY <2>1, NothingAssumption DEF FromConsole
  <2> QED
    BY <1>2, <2>2
<1>5. CASE AnalysisRead \/ AnalysisMark \/ AnalysisOpen \/ AnalysisWrite \/ AnalysisDies
  BY <1>1, <1>5 DEF AnalysisRead, AnalysisMark, AnalysisOpen, AnalysisWrite, AnalysisDies,
                    accountVars
<1>6. CASE ConsoleVerify \/ Restart \/ UNCHANGED identityVars
  BY <1>1, <1>6 DEF ConsoleVerify, Restart, identityVars, accountVars
<1> QED
  BY <1>3, <1>4, <1>5, <1>6 DEF IdentityNext

\* However many reviewers decide at once on however many submissions of one person,
\* a closed form has a submission to wait for unless the console rejected one.
THEOREM ConsoleStrands == IdentitySpec => []OnlyConsoleStrands
<1>1. IdentityInit => Shape /\ OnlyConsoleStrands
  BY ShapeInit DEF IdentityInit, OnlyConsoleStrands, NotStuck
<1>2. Shape /\ OnlyConsoleStrands /\ [IdentityNext]_identityVars
        => (Shape /\ OnlyConsoleStrands)'
  BY ShapeStep, ConsoleStep
<1> QED
  BY <1>1, <1>2, PTL DEF IdentitySpec

=============================================================================
