--------------------------- MODULE CardMountProofs ---------------------------
(***************************************************************************)
(* CardMount for any set of paths, any volumes and any operations of the   *)
(* user.  First, what the firmware remembers about the card is true: every *)
(* handler that touches the card's registers or the remembered word        *)
(* settles g_dm_prog in the same call, so the invariant is inductive as it *)
(* stands.  Second, the card shows the mounted volume, which needs to know *)
(* how a volume may be lost.                                               *)
(***************************************************************************)
EXTENDS CardMount, TLAPS

\* dmmc_program leaves the belief true, whatever was believed before: with a
\* lost word it does not claim the card.
LEMMA ProgramStep ==
    ASSUME NEW o, NEW v, dmmc_program(o, v)
    PROVE  BeliefMatchesFabric'
<1> DEFINE new == [in |-> TRUE, cap |-> RoundUp(v.secs), wp |-> ~card_write_ok(o, v)]
<1>1. prog' = FALSE \/ (prog' = TRUE /\ ctl' = new /\ card' = new)
  BY Zenon DEF dmmc_program
<1>2. CASE prog' = FALSE
  BY <1>2 DEF BeliefMatchesFabric
<1>3. CASE prog' = TRUE /\ ctl' = new /\ card' = new
  <2>1. new.in = TRUE
    OBVIOUS
  <2> HIDE DEF new
  <2> QED BY <1>3, <2>1 DEF BeliefMatchesFabric
<1> QED BY <1>1, <1>2, <1>3

\* A handler that leaves the card and what is remembered alone.
LEMMA UntouchedStep ==
    ASSUME BeliefMatchesFabric, UNCHANGED <<prog, card, ctl>>
    PROVE  BeliefMatchesFabric'
  BY DEF BeliefMatchesFabric

LEMMA UserStep ==
    ASSUME BeliefMatchesFabric, User
    PROVE  BeliefMatchesFabric'
<1>1. CASE SwitchOff
  BY <1>1, UntouchedStep DEF SwitchOff, Behind
<1>2. ASSUME NEW p \in DOMAIN Paths, SwitchOn(p) \/ ChoosePath(p)
      PROVE  BeliefMatchesFabric'
  <2>1. CASE ChoosePath(p)
    BY <2>1, UntouchedStep DEF ChoosePath, Unprogrammed
  <2>2. CASE SwitchOn(p) /\ Opened(p) = NoVolume
    BY <2>2, UntouchedStep DEF SwitchOn, Behind
  <2>3. CASE SwitchOn(p) /\ Opened(p) # NoVolume
    <3>1. dmmc_program(opt', vol')
      BY <2>3 DEF SwitchOn
    <3> QED BY <3>1, ProgramStep
  <2> QED BY <1>2, <2>1, <2>2, <2>3
<1>3. ASSUME NEW on \in BOOLEAN, apply_zc(on)
      PROVE  BeliefMatchesFabric'
  <2>1. CASE on /\ Opened(opt.zcpath) = NoVolume
    BY <1>3, <2>1, UntouchedStep DEF apply_zc, Behind
  <2>2. CASE ~(on /\ Opened(opt.zcpath) = NoVolume)
    <3>1. dmmc_program(opt', vol')
      BY <1>3, <2>2 DEF apply_zc
    <3> QED BY <3>1, ProgramStep
  <2> QED BY <2>1, <2>2
<1>4. CASE Eject
  <2>1. dmmc_program(opt', vol')
    BY <1>4 DEF Eject
  <2> QED BY <2>1, ProgramStep
<1>5. CASE apply_cardwr
  BY <1>5 DEF apply_cardwr, BeliefMatchesFabric
<1>6. ASSUME NEW p \in DOMAIN Paths, divmmc_mount(p)
      PROVE  BeliefMatchesFabric'
  BY <1>6, UntouchedStep DEF divmmc_mount, Behind
<1>7. CASE mp_load
  BY <1>7, UntouchedStep DEF mp_load, Behind
<1>8. CASE OtherOption
  BY <1>8, UntouchedStep DEF OtherOption, Unprogrammed
<1>9. CASE WriteIntoFolder
  BY <1>9, UntouchedStep DEF WriteIntoFolder
<1>10. CASE fabric_reinit_after_reload
  BY <1>10 DEF fabric_reinit_after_reload, BeliefMatchesFabric
<1> QED
  BY <1>1, <1>2, <1>3, <1>4, <1>5, <1>6, <1>7, <1>8, <1>9, <1>10 DEF User

LEMMA ServiceStep ==
    ASSUME BeliefMatchesFabric, divmmc_service
    PROVE  BeliefMatchesFabric'
<1>1. CASE NobodyNeedsIt
  BY <1>1 DEF NobodyNeedsIt, BeliefMatchesFabric
<1>2. CASE RebuildDirty
  <2>1. CASE vol' # NoVolume
    <3>1. dmmc_program(opt, vol')
      BY <1>2, <2>1 DEF RebuildDirty
    <3> QED BY <3>1, ProgramStep
  <2>2. CASE vol' = NoVolume
    BY <1>2, <2>2, UntouchedStep DEF RebuildDirty, Behind
  <2> QED BY <2>1, <2>2
<1>3. CASE Program
  <2>1. dmmc_program(opt, vol)
    BY <1>3 DEF Program
  <2> QED BY <2>1, ProgramStep
<1>4. CASE FirstRestart
  BY <1>4, UntouchedStep DEF FirstRestart
<1>5. CASE Retry
  BY <1>5, UntouchedStep DEF Retry
<1> QED
  BY <1>1, <1>2, <1>3, <1>4, <1>5 DEF divmmc_service

\* g_dm_prog is true: while the firmware takes the card for programmed, the
\* fabric's registers hold exactly the size and the protection it wrote last,
\* through reloads of the core, lost words and every order of the handlers.
THEOREM BeliefAlways == Spec => []BeliefMatchesFabric
<1>1. Init => BeliefMatchesFabric
  BY DEF Init, BeliefMatchesFabric
<1>2. BeliefMatchesFabric /\ [Next]_vars => BeliefMatchesFabric'
  <2> SUFFICES ASSUME BeliefMatchesFabric, [Next]_vars
               PROVE  BeliefMatchesFabric'
    OBVIOUS
  <2>1. CASE User
    BY <2>1, UserStep
  <2>2. CASE divmmc_service
    BY <2>2, ServiceStep
  <2>3. CASE UNCHANGED vars
    BY <2>3, UntouchedStep DEF vars
  <2> QED BY <2>1, <2>2, <2>3 DEF Next
<1> QED BY <1>1, <1>2, PTL DEF Spec

-----------------------------------------------------------------------------
\* The card as the service keeps it: options and volume are what they should be,
\* and a card that is programmed, with nothing changed behind its back, shows a
\* volume that is mounted.
Options == [divmmc : BOOLEAN, zc : BOOLEAN, dmwr : BOOLEAN, zcwr : BOOLEAN,
            dmpath : DOMAIN Paths, zcpath : DOMAIN Paths]

Typed == opt \in Options /\ vol \in Volume \cup {NoVolume}

Shown == prog /\ ~untold => /\ ready
                            /\ card.cap >= vol.secs
                            /\ card.wp \/ card_write_ok(opt, vol)

\* The card is rounded up to the grain, never below the volume.
LEMMA RoundUpCovers ==
    ASSUME NEW n \in Nat
    PROVE  RoundUp(n) >= n
<1> DEFINE a == n + GRAIN - 1
<1>1. GRAIN \in Nat /\ GRAIN > 0
  BY CardMountAssumption
<1>2. a \in Nat
  BY <1>1
<1>3. a \div GRAIN \in Nat /\ a - GRAIN < (a \div GRAIN) * GRAIN
  BY <1>1, <1>2
<1>4. (a \div GRAIN) * GRAIN \in Nat
  BY <1>1, <1>3
<1> QED BY <1>1, <1>2, <1>3, <1>4 DEF RoundUp

LEMMA OpenedIsVolume ==
    ASSUME NEW p \in DOMAIN Paths
    PROVE  Opened(p) \in Volume \cup {NoVolume}
  BY CardMountAssumption DEF Opened

LEMMA MediaIsVolume ==
    ASSUME Typed
    PROVE  dm_media_open(opt) \in Volume \cup {NoVolume}
  BY OpenedIsVolume DEF Typed, Options, dm_media_open

\* A programmed card shows the volume it was programmed for.
LEMMA ProgramShows ==
    ASSUME vol' \in Volume \cup {NoVolume}, dmmc_program(opt', vol')
    PROVE  Shown'
<1> DEFINE new == [in |-> TRUE, cap |-> RoundUp(vol'.secs), wp |-> ~card_write_ok(opt', vol')]
<1>1. prog' = FALSE \/ (vol' # NoVolume /\ card' = new)
  BY Zenon DEF dmmc_program
<1>2. CASE prog' = FALSE
  BY <1>2 DEF Shown
<1>3. CASE vol' # NoVolume /\ card' = new
  <2>1. vol'.secs \in Nat
    BY <1>3 DEF Volume
  <2>2. card'.cap >= vol'.secs
    BY <1>3, <2>1, RoundUpCovers
  <2>3. card'.wp \/ card_write_ok(opt', vol')
    <3>1. card'.wp = ~card_write_ok(opt', vol')
      BY <1>3
    <3> QED BY <3>1
  <2> QED BY <1>3, <2>2, <2>3 DEF Shown, ready, card_write_ok
<1> QED BY <1>1, <1>2, <1>3

\* A handler that leaves the card to the service says so.
LEMMA BehindShows ==
    ASSUME Behind
    PROVE  Shown'
  BY DEF Behind, Shown

\* Nothing of what Shown speaks of has changed.
LEMMA SameShows ==
    ASSUME Shown, UNCHANGED <<prog, untold, card, vol>>,
           opt'.divmmc = opt.divmmc, opt'.zc = opt.zc,
           opt'.dmwr = opt.dmwr, opt'.zcwr = opt.zcwr
    PROVE  Shown'
  BY DEF Shown, ready, card_write_ok

LEMMA UserKeepsTyped ==
    ASSUME Typed, User
    PROVE  Typed'
<1> USE DEF Typed, Options
<1>1. CASE SwitchOff
  BY <1>1 DEF SwitchOff
<1>2. ASSUME NEW p \in DOMAIN Paths, SwitchOn(p) \/ ChoosePath(p)
      PROVE  Typed'
  BY <1>2, OpenedIsVolume DEF SwitchOn, ChoosePath
<1>3. ASSUME NEW on \in BOOLEAN, apply_zc(on)
      PROVE  Typed'
  BY <1>3, OpenedIsVolume DEF apply_zc
<1>4. CASE Eject
  BY <1>4 DEF Eject
<1>5. CASE apply_cardwr
  BY <1>5 DEF apply_cardwr
<1>6. ASSUME NEW p \in DOMAIN Paths, divmmc_mount(p)
      PROVE  Typed'
  BY <1>6, OpenedIsVolume DEF divmmc_mount
<1>7. CASE mp_load
  BY <1>7 DEF mp_load
<1>8. CASE OtherOption \/ WriteIntoFolder \/ fabric_reinit_after_reload
  BY <1>8 DEF OtherOption, WriteIntoFolder, fabric_reinit_after_reload
<1> QED
  BY <1>1, <1>2, <1>3, <1>4, <1>5, <1>6, <1>7, <1>8 DEF User

LEMMA ServiceKeepsTyped ==
    ASSUME Typed, divmmc_service
    PROVE  Typed'
<1>1. opt' = opt
  BY DEF divmmc_service, NobodyNeedsIt, RebuildDirty, Program, FirstRestart, Retry
<1>2. vol' \in {vol, NoVolume, dm_media_open(opt)}
  BY DEF divmmc_service, NobodyNeedsIt, RebuildDirty, Program, FirstRestart, Retry
<1> QED BY <1>1, <1>2, MediaIsVolume DEF Typed

LEMMA UserShows ==
    ASSUME Typed, Shown, User
    PROVE  Shown'
<1> USE DEF Typed, Options
<1>0. vol' \in Volume \cup {NoVolume}
  BY UserKeepsTyped
<1>1. CASE SwitchOff
  BY <1>1, BehindShows DEF SwitchOff
<1>2. ASSUME NEW p \in DOMAIN Paths, SwitchOn(p) \/ ChoosePath(p)
      PROVE  Shown'
  <2>1. CASE ChoosePath(p)
    BY <2>1, SameShows DEF ChoosePath, Unprogrammed
  <2>2. CASE SwitchOn(p)
    BY <1>0, <2>2, BehindShows, ProgramShows DEF SwitchOn
  <2> QED BY <1>2, <2>1, <2>2
<1>3. ASSUME NEW on \in BOOLEAN, apply_zc(on)
      PROVE  Shown'
  BY <1>0, <1>3, BehindShows, ProgramShows DEF apply_zc
<1>4. CASE Eject
  BY <1>0, <1>4, ProgramShows DEF Eject
<1>5. CASE apply_cardwr
  BY <1>5 DEF apply_cardwr, Shown
<1>6. ASSUME NEW p \in DOMAIN Paths, divmmc_mount(p)
      PROVE  Shown'
  BY <1>6, BehindShows DEF divmmc_mount
<1>7. CASE mp_load
  BY <1>7, BehindShows DEF mp_load
<1>8. CASE OtherOption
  BY <1>8, SameShows DEF OtherOption, Unprogrammed
<1>9. CASE WriteIntoFolder
  BY <1>9, SameShows DEF WriteIntoFolder
<1>10. CASE fabric_reinit_after_reload
  BY <1>10 DEF fabric_reinit_after_reload, Shown
<1> QED
  BY <1>1, <1>2, <1>3, <1>4, <1>5, <1>6, <1>7, <1>8, <1>9, <1>10 DEF User

LEMMA ServiceShows ==
    ASSUME Typed, Shown, divmmc_service
    PROVE  Shown'
<1>0. vol' \in Volume \cup {NoVolume}
  BY ServiceKeepsTyped DEF Typed
<1>1. CASE NobodyNeedsIt
  BY <1>1 DEF NobodyNeedsIt, Shown
<1>2. CASE RebuildDirty
  <2>1. CASE vol' # NoVolume
    <3>1. dmmc_program(opt', vol')
      BY <1>2, <2>1 DEF RebuildDirty
    <3> QED BY <1>0, <3>1, ProgramShows
  <2>2. CASE vol' = NoVolume
    BY <1>2, <2>2, BehindShows DEF RebuildDirty
  <2> QED BY <2>1, <2>2
<1>3. CASE Program
  <2>1. dmmc_program(opt', vol')
    BY <1>3 DEF Program
  <2> QED BY <1>0, <2>1, ProgramShows
<1>4. CASE FirstRestart
  BY <1>4, SameShows DEF FirstRestart
<1>5. CASE Retry
  BY <1>5 DEF Retry, Shown
<1> QED
  BY <1>1, <1>2, <1>3, <1>4, <1>5 DEF divmmc_service

\* The card in the machine shows the mounted volume, unless a handler has changed
\* one of them and left the card to the service: at least as large (g_dm_cap),
\* and writable only if the medium takes a write.  What carries the proof is that
\* a volume is lost either together with g_dm_prog or behind the card's back;
\* otherwise Retry would put another volume under a card that is still in.
THEOREM CardShowsVolumeAlways == Spec => []CardShowsVolume
<1>1. Init => Typed /\ Shown
  BY DEF Init, Typed, Options, Shown
<1>2. Typed /\ Shown /\ [Next]_vars => (Typed /\ Shown)'
  <2> SUFFICES ASSUME Typed, Shown, [Next]_vars
               PROVE  Typed' /\ Shown'
    OBVIOUS
  <2>1. CASE User
    BY <2>1, UserKeepsTyped, UserShows
  <2>2. CASE divmmc_service
    BY <2>2, ServiceKeepsTyped, ServiceShows
  <2>3. CASE UNCHANGED vars
    BY <2>3, SameShows DEF vars, Typed
  <2> QED BY <2>1, <2>2, <2>3 DEF Next
<1>3. Typed /\ Shown => CardShowsVolume
  BY DEF Shown, CardShowsVolume
<1> QED BY <1>1, <1>2, <1>3, PTL DEF Spec
=============================================================================
