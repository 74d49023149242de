---------------------------- MODULE Parts_proofs ----------------------------
(***************************************************************************)
(* The parts side by side, as they are run: in every behaviour each part   *)
(* behaves as its own specification says, so what is proved of it by       *)
(* itself, for every value of the constants, holds of it there.            *)
(***************************************************************************)
EXTENDS MCParts, WalletLedger_proofs, Access_proofs, Bookings_proofs

\* A step is one of one part, in which every other stands still.
LEMMA OneMoves ==
  ASSUME [PartsNext]_PartsVars
  PROVE  /\ [Next]_ledgerVars
         /\ [SessionsNext]_sessionVars
         /\ [CredentialsNext]_credentialVars
         /\ [IdentityNext]_identityVars
         /\ [PlansNext]_planVars
         /\ [InterviewsNext]_interviewVars
         /\ [MeetingsNext]_meetingVars
<1>1. [Next]_ledgerVars
  BY DEF PartsNext, Rest, PartsVars
<1>2. [SessionsNext]_sessionVars
  BY DEF PartsNext, Rest, PartsVars
<1>3. [CredentialsNext]_credentialVars
  BY DEF PartsNext, Rest, PartsVars
<1>4. [IdentityNext]_identityVars
  BY DEF PartsNext, Rest, PartsVars
<1>5. [PlansNext]_planVars
  BY DEF PartsNext, Rest, PartsVars
<1>6. [InterviewsNext]_interviewVars
  BY DEF PartsNext, Rest, PartsVars
<1>7. [MeetingsNext]_meetingVars
  BY DEF PartsNext, Rest, PartsVars
<1> QED
  BY <1>1, <1>2, <1>3, <1>4, <1>5, <1>6, <1>7

\* The run that works through the parts one after another tries nothing that a
\* part's own specification does not allow: the constants they share, and what
\* PartsInit asks of the parts at rest, ask nothing more of them.
THEOREM PartsImplement ==
  PartsSpec => /\ Spec /\ SessionsSpec /\ CredentialsSpec /\ IdentitySpec
               /\ PlansSpec /\ InterviewsSpec /\ MeetingsSpec
<1>1. PartsInit => /\ Init /\ SessionsInit /\ CredentialsInit /\ IdentityInit
                   /\ PlansInit /\ InterviewsInit /\ MeetingsInit
  BY DEF PartsInit
<1>2. [PartsNext]_PartsVars =>
        /\ [Next]_ledgerVars /\ [SessionsNext]_sessionVars
        /\ [CredentialsNext]_credentialVars /\ [IdentityNext]_identityVars
        /\ [PlansNext]_planVars /\ [InterviewsNext]_interviewVars
        /\ [MeetingsNext]_meetingVars
  BY OneMoves
<1> QED
  BY <1>1, <1>2, PTL
  DEF PartsSpec, Spec, SessionsSpec, CredentialsSpec, IdentitySpec, PlansSpec,
      InterviewsSpec, MeetingsSpec

\* Every variable of every part keeps its shape, whichever of them moves.
THEOREM PartsTyping == PartsSpec => []TypesOK
<1>1. TypeOK /\ SessionsTypeOK /\ CredentialsTypeOK /\ IdentityTypeOK
        /\ PlansTypeOK /\ InterviewsTypeOK /\ MeetingsTypeOK => TypesOK
  BY DEF TypesOK
<1> QED
  BY <1>1, PartsImplement, Typing, SessionTyping, CredentialsTyping, IdentityTyping,
     PlansTyping, InterviewsTyping, MeetingsTyping, PTL

\* And all that the run asks of the parts holds of them there, however large the
\* instance.
THEOREM PartsKeep ==
  PartsSpec =>
    /\ [](LedgerRule /\ StatementsTrue /\ MoneyAccountedFor)
    /\ []SessionHolds /\ NoFalseTheft /\ []LedgerLinked
    /\ [](FileKept /\ ReportFollowsFile /\ OnlyConsoleStrands)
    /\ [](PlansAccountedFor /\ TimeAgreed /\ RoomSharedByCrossing /\ ShownIsThere)
<1>1. PartsSpec => [](LedgerRule /\ StatementsTrue /\ MoneyAccountedFor)
  BY PartsImplement, Legality, StatementsHold, MoneyHolds, PTL
<1>2. PartsSpec => []SessionHolds /\ NoFalseTheft /\ []LedgerLinked
  BY PartsImplement, SessionsHold, TheftNeverFalse, ChainHolds, PTL
<1>3. PartsSpec => [](FileKept /\ ReportFollowsFile /\ OnlyConsoleStrands)
  BY PartsImplement, FilesKept, ReportsFollow, ConsoleStrands, PTL
<1>4. PartsSpec =>
        [](PlansAccountedFor /\ TimeAgreed /\ RoomSharedByCrossing /\ ShownIsThere)
  BY PartsImplement, PlansReconcile, TimesAgreed, RoomSharedOnlyByCrossing, ShownAreThere, PTL
<1> QED
  BY <1>1, <1>2, <1>3, <1>4

=============================================================================
