---------------------------- MODULE Credentials ----------------------------
(***************************************************************************)
(* TrustChain: credentials that institutions sign, filed one after another  *)
(* in a chain of hashes (IssuingService), and the checks that tell a reader *)
(* whether a row, or the whole ledger, is as it was filed                   *)
(* (CredentialsService).                                                    *)
(*                                                                         *)
(* SHA-256 is taken as injective: a hash is the record of what was hashed.  *)
(* The time of issue, which is hashed too, tells nothing apart here. An     *)
(* append runs at serializable isolation: it works on the head it read and  *)
(* fails if another append committed since.                                 *)
(*                                                                         *)
(* An operator Name_Slip above Name is Name with a slip a programmer could  *)
(* make; nothing uses it.                                                   *)
(***************************************************************************)
EXTENDS Naturals, Sequences

CONSTANTS
  Subjects,     \* people credentials are about
  Issuers,      \* registered institutions, each with its key
  Approved,     \* those an administrator has confirmed
  Contents,     \* what they attest to: whom, to what, with which claims
  Filings,      \* calls of the two services at once
  MaxLength,    \* bound: credentials ever filed
  Genesis, NoRow, NoFiling

ASSUME IssuersAssumption == Approved \subseteq Issuers
ASSUME MaxLengthAssumption == MaxLength \in Nat

VARIABLES
  ledger,    \* the credentials table by index, from 1 here and from 0 in the code
  filing,    \* what each call has read so far
  listing    \* the last list of a person's credentials that was answered

credentialVars == <<ledger, filing, listing>>

-----------------------------------------------------------------------------
(* What is signed, hashed and stored.                                      *)

\* Of the claims only the order of their keys matters here: sorted as jsonb
\* keeps them, or not.
Content == [subject : Subjects, issuer : Issuers, claims : {"none", "sorted", "unsorted"}]

ASSUME ContentsAssumption == Contents \subseteq Content

\* The claims column is jsonb, which keeps no order of keys but its own.
FromJsonb(content) ==
  IF content.claims = "unsorted" THEN [content EXCEPT !.claims = "sorted"] ELSE content

ContentHash(content) == [hashed |-> content]
LedgerHash(contentHash, index, prevHash) ==
  [content |-> contentHash, index |-> index, prev |-> prevHash]

Sign(issuer, content) == [key |-> issuer, over |-> ContentHash(content)]
SignatureHolds(signature, contentHash, issuer) ==
  signature.key = issuer /\ signature.over = contentHash

\* The row that follows a ledger of n rows whose last hash is prevHash.
NewRow(content, signature, n, prevHash) ==
  [content |-> FromJsonb(content), contentHash |-> ContentHash(content),
   index |-> n, prevHash |-> prevHash,
   hash |-> LedgerHash(ContentHash(content), n, prevHash),
   signature |-> signature, revoked |-> FALSE]

HeadHash(L, n) == IF n = 0 THEN Genesis ELSE L[n].hash

\* hashesHold: both fingerprints again, from the row as it reads now.
HashesHold(row) ==
  /\ ContentHash(row.content) = row.contentHash
  /\ LedgerHash(row.contentHash, row.index, row.prevHash) = row.hash

\* checkLedger: the first row out of place, mislinked, altered or not signed.
BrokenRows(L) ==
  {i \in DOMAIN L :
     \/ L[i].index # i - 1
     \/ L[i].prevHash # HeadHash(L, i - 1)
     \/ ~HashesHold(L[i])
     \/ ~SignatureHolds(L[i].signature, L[i].contentHash, L[i].content.issuer)}

CheckLedger(L) ==
  IF BrokenRows(L) = {} THEN NoRow
  ELSE CHOOSE i \in BrokenRows(L) : \A j \in BrokenRows(L) : i <= j

\* check: the five lines shown under a credential, the row before it as read.
\* A row whose contents were altered is not asked for its signature.
Checked(row, before) ==
  [index |-> row.index,
   hash |-> HashesHold(row),
   signature |-> /\ ContentHash(row.content) = row.contentHash
                 /\ SignatureHolds(row.signature, row.contentHash, row.content.issuer),
   issuer |-> row.content.issuer \in Approved,
   chain |-> IF row.index = 0 THEN row.prevHash = Genesis ELSE row.prevHash = before,
   kept |-> ~row.revoked]

Valid(line) == line.hash /\ line.signature /\ line.issuer /\ line.chain /\ line.kept

-----------------------------------------------------------------------------
(* The calls.                                                              *)

\* issue: the signature has to verify; then the transaction reads the head.
AskIssue(f, content, key) ==
  /\ filing[f] = NoFiling
  /\ Len(ledger) < MaxLength
  /\ SignatureHolds(Sign(key, content), ContentHash(content), content.issuer)
  /\ filing' = [filing EXCEPT ![f] =
       [op |-> "issue", content |-> content, signature |-> Sign(key, content),
        head |-> Len(ledger)]]
  /\ UNCHANGED <<ledger, listing>>

\* It commits if the head it read is the head still, ...
File_AnyHead(f) ==
  /\ filing[f] # NoFiling /\ filing[f].op = "issue"
  /\ Len(ledger) < MaxLength
  /\ ledger' = Append(ledger,
       NewRow(filing[f].content, filing[f].signature,
              filing[f].head, HeadHash(ledger, filing[f].head)))
  /\ filing' = [filing EXCEPT ![f] = NoFiling]
  /\ UNCHANGED listing
File(f) ==
  /\ filing[f] # NoFiling /\ filing[f].op = "issue"
  /\ filing[f].head = Len(ledger)
  /\ ledger' = Append(ledger,
       NewRow(filing[f].content, filing[f].signature,
              filing[f].head, HeadHash(ledger, filing[f].head)))
  /\ filing' = [filing EXCEPT ![f] = NoFiling]
  /\ UNCHANGED listing

\* ... and fails otherwise: "Serializable makes the loser fail outright". Any call
\* may fail before it is done.
DropFiling(f) ==
  /\ filing[f] # NoFiling
  /\ filing' = [filing EXCEPT ![f] = NoFiling]
  /\ UNCHANGED <<ledger, listing>>

\* revoke reads the row: its issuer's own, and not withdrawn yet; ...
AskRevoke(f, issuer, i) ==
  /\ filing[f] = NoFiling
  /\ ledger[i].content.issuer = issuer /\ ~ledger[i].revoked
  /\ filing' = [filing EXCEPT ![f] = [op |-> "revoke", at |-> i]]
  /\ UNCHANGED <<ledger, listing>>

\* ... and marks it, never deletes it.
Mark(f) ==
  /\ filing[f] # NoFiling /\ filing[f].op = "revoke"
  /\ ledger' = [ledger EXCEPT ![filing[f].at].revoked = TRUE]
  /\ filing' = [filing EXCEPT ![f] = NoFiling]
  /\ UNCHANGED listing

\* listFor reads a person's rows, ...
AskList(f, subject) ==
  /\ filing[f] = NoFiling
  /\ filing' = [filing EXCEPT ![f] =
       [op |-> "list",
        rows |-> [i \in {j \in DOMAIN ledger : ledger[j].content.subject = subject} |->
                    ledger[i]]]]
  /\ UNCHANGED <<ledger, listing>>

\* ... then, in a query of its own, the hashes of the rows before them.
Answer(f) ==
  /\ filing[f] # NoFiling /\ filing[f].op = "list"
  /\ LET rows == filing[f].rows
     IN  listing' = {Checked(rows[i], HeadHash(ledger, i - 1)) : i \in DOMAIN rows}
  /\ filing' = [filing EXCEPT ![f] = NoFiling]
  /\ UNCHANGED ledger

CredentialsInit ==
  /\ ledger = <<>>
  /\ filing = [f \in Filings |-> NoFiling]
  /\ listing = {}

CredentialsNext ==
  \/ \E f \in Filings, content \in Contents, key \in Issuers : AskIssue(f, content, key)
  \/ \E f \in Filings : File(f) \/ DropFiling(f) \/ Mark(f) \/ Answer(f)
  \/ \E f \in Filings, issuer \in Issuers, i \in DOMAIN ledger : AskRevoke(f, issuer, i)
  \/ \E f \in Filings, subject \in Subjects : AskList(f, subject)

CredentialsSpec == CredentialsInit /\ [][CredentialsNext]_credentialVars

-----------------------------------------------------------------------------
(* Properties.                                                             *)

\* Every variable has its shape; the hashes, which nest as deep as the chain is
\* long, are LedgerLinked's.
RowOK(row) ==
  /\ row.content \in Content /\ row.index \in 0..MaxLength /\ row.revoked \in BOOLEAN
  /\ \E c \in Contents :
       row.contentHash = ContentHash(c) /\ row.signature = Sign(c.issuer, c)

CredentialsTypeOK ==
  /\ Len(ledger) <= MaxLength
  /\ \A i \in DOMAIN ledger : RowOK(ledger[i])
  /\ \A f \in Filings :
       \/ filing[f] = NoFiling
       \/ /\ filing[f].op = "issue" /\ filing[f].content \in Contents
          /\ filing[f].signature = Sign(filing[f].content.issuer, filing[f].content)
          /\ filing[f].head \in 0..Len(ledger)
       \/ filing[f].op = "revoke" /\ filing[f].at \in DOMAIN ledger
       \/ /\ filing[f].op = "list" /\ DOMAIN filing[f].rows \subseteq DOMAIN ledger
          /\ \A i \in DOMAIN filing[f].rows : RowOK(filing[f].rows[i])

\* "An append-only record that races is not append-only": however issues run
\* into each other, every row sits at its own index and names the hash of the
\* row before it, which still is that row's hash.
LedgerLinked ==
  \A i \in DOMAIN ledger :
    /\ ledger[i].index = i - 1
    /\ ledger[i].prevHash = HeadHash(ledger, i - 1)
    /\ ledger[i].hash = LedgerHash(ledger[i].contentHash, i - 1, ledger[i].prevHash)

\* "Marked, never deleted": nothing a row attests to or links by changes after
\* it was filed, no row goes, and a withdrawal is not taken back.
AppendOnly ==
  [][\A i \in DOMAIN ledger :
       /\ i \in DOMAIN ledger'
       /\ ledger'[i] \in {ledger[i], [ledger[i] EXCEPT !.revoked = TRUE]}]_credentialVars

\* A list read while others file shows no break that is not there: the link of
\* every row holds, and a row fails its own checks only over the order of its
\* claims, its issuer's standing or its withdrawal.
ListingTrue ==
  \A line \in listing :
    /\ line.chain
    /\ LET row == ledger[line.index + 1]
       IN  /\ Valid(line) =>
                row.content.issuer \in Approved /\ HashesHold(row)
           /\ ~line.kept => row.revoked
           /\ line.hash = line.signature

\* "Tampering is not merely detectable but loud": a ledger nobody has edited
\* checks out from end to end.
UneditedChecksOut == CheckLedger(ledger) = NoRow
=============================================================================
