----------------------------- MODULE CardMount -----------------------------
(***************************************************************************)
(* Which volume the firmware has mounted, and what the card in the fabric  *)
(* says about it.  There is one card for two transports, DivMMC and        *)
(* Z-Controller, each with a switch, a path and a write switch of its own. *)
(* The firmware mounts a folder or an image (dm_media_open, divmmc_mount), *)
(* tells the fabric the card's size and write protection (dmmc_program),   *)
(* remembers that it did (g_dm_prog), and a service in the main loop       *)
(* repairs what the menus, the file manager and a reload of the fabric     *)
(* have left behind (divmmc_service).  Everything runs in the main loop:   *)
(* one action is one handler.                                              *)
(*                                                                         *)
(* A path stands for what is found there; folder or image is the path's    *)
(* own property, so a mode the path does not fit is a path that does not   *)
(* open.  A core with the card has the ROM port (LOAD_CAPS_SEL).  Out of   *)
(* the model: the texts, the CID, the rest of MACHINE_CFG.                  *)
(***************************************************************************)
EXTENDS Naturals

CONSTANTS Paths,       \* Paths[p]: the volume at p, NoVolume if p does not open
          GRAIN,       \* the card's size is a multiple of it, 1024 in the code
          UserOps,     \* the handlers the user's behaviour may use
          MaxActs,     \* bound on the user's actions
          StrobesLost  \* dm_wrbuf may fail

Volume   == [kind : {"folder", "image"}, secs : Nat \ {0}, rw : BOOLEAN]
NoVolume == [kind |-> "none", secs |-> 0, rw |-> FALSE]

ASSUME CardMountAssumption ==
    /\ \A p \in DOMAIN Paths : Paths[p] \in Volume \cup {NoVolume}
    /\ GRAIN \in Nat \ {0} /\ MaxActs \in Nat /\ StrobesLost \in BOOLEAN

VARIABLES opt,          \* the options: divmmc, zc, dmwr, zcwr, dmpath, zcpath
          vol,          \* the mounted volume; g_dm_ready is vol # NoVolume
          prog, cap_ok, \* g_dm_prog; g_dm_cap_ok is "new", "yes" or "no"
          ctl,          \* g_dm_cap and the WP bit of g_dm_ctl
          card,         \* the fabric's registers: in (EN), cap, wp
          core,         \* the loaded core has the card
          en,           \* MACHINE_CFG in the fabric enables a transport
          dirty, first_ready,
          untold,       \* the options or the volume changed behind the card's back
          fresh,        \* the machine was restarted after the card came in
          acts          \* the user's actions so far

vars == <<opt, vol, prog, cap_ok, ctl, card, core, en, dirty, first_ready, untold, fresh, acts>>

NoCard == [in |-> FALSE, cap |-> 0, wp |-> FALSE]

ready == vol # NoVolume
dm_media_needed == opt.divmmc \/ opt.zc

\* Its bits 17 and 19.
machine_cfg_word(o, has) == has /\ (o.divmmc \/ o.zc)

\* The card is on the machine's bus.
attached == en /\ card.in

card_write_ok(o, v) ==
    /\ o.divmmc \/ o.zc
    /\ (o.divmmc => o.dmwr) /\ (o.zc => o.zcwr)
    /\ v.kind = "image" /\ v.rw

RoundUpDown(n) == (n \div GRAIN) * GRAIN

\* The card is at least as large as the volume.
RoundUp(n) == ((n + GRAIN - 1) \div GRAIN) * GRAIN

\* The fabric forgets the EN bit but keeps the size it latched last.
CardOut == [card EXCEPT !.in = FALSE, !.wp = FALSE]

Init ==
    /\ opt \in [divmmc : BOOLEAN, zc : BOOLEAN, dmwr : {FALSE}, zcwr : {FALSE},
                dmpath : DOMAIN Paths, zcpath : DOMAIN Paths]
    /\ vol = NoVolume
    /\ prog = FALSE /\ cap_ok = "new" /\ core \in BOOLEAN
    /\ ctl = NoCard /\ card = NoCard /\ en = machine_cfg_word(opt, core)
    /\ dirty = FALSE /\ first_ready = TRUE /\ untold = FALSE /\ fresh = FALSE
    /\ acts = 0

-----------------------------------------------------------------------------
(* The shared pieces, on the options o and the volume v they leave behind. *)

\* divmmc_open, zc_open: the old volume is closed first, whatever comes next.
Opened(p) == Paths[p]

dm_media_open(o) ==
    IF o.divmmc THEN Opened(o.dmpath) ELSE IF o.zc THEN Opened(o.zcpath) ELSE vol

\* The card is taken out; with a volume it comes back with the volume's size
\* and protection, unless a word for its buffers got lost on the way.
dmmc_program(o, v) ==
    LET has == IF cap_ok = "new" THEN core ELSE cap_ok = "yes"
        new == [in |-> TRUE, cap |-> RoundUp(v.secs), wp |-> ~card_write_ok(o, v)]
    IN  /\ cap_ok' = (IF has THEN "yes" ELSE "no") /\ untold' = FALSE
        /\ CASE ~has -> prog' = FALSE /\ UNCHANGED <<ctl, card>>
             [] has /\ (~(o.divmmc \/ o.zc) \/ v = NoVolume) ->
                    prog' = FALSE /\ card' = CardOut /\ ctl' = ctl
             [] OTHER ->
                    /\ ctl' = new
                    /\ \/ prog' = TRUE /\ card' = new
                       \/ StrobesLost /\ prog' = FALSE /\ card' = CardOut

Unprogrammed == UNCHANGED <<prog, cap_ok, ctl, card, untold>>

\* What has changed is left to the service to find out.
Behind == untold' = TRUE /\ UNCHANGED <<prog, cap_ok, ctl, card>>

-----------------------------------------------------------------------------
(* The user's handlers *)

\* apply_divmmc with the switch off: the volume goes, the card is left to the
\* service, the machine is reset.
SwitchOff ==
    /\ opt.divmmc
    /\ opt' = [opt EXCEPT !.divmmc = FALSE] /\ vol' = NoVolume
    /\ en' = machine_cfg_word(opt', core) /\ fresh' = card.in
    /\ Behind /\ UNCHANGED <<core, dirty, first_ready>>

\* apply_divmmc with the switch on (the menu, or a new mode or format of a
\* switched-on card): a path that does not open switches it off again.
SwitchOn(p) ==
    /\ p = opt.dmpath \/ opt.divmmc
    /\ IF Opened(p) = NoVolume
       THEN /\ opt' = [opt EXCEPT !.divmmc = FALSE, !.dmpath = p] /\ vol' = NoVolume
            /\ Behind /\ UNCHANGED <<en, fresh>>
       ELSE /\ opt' = [opt EXCEPT !.divmmc = TRUE, !.dmpath = p] /\ vol' = Opened(p)
            /\ dmmc_program(opt', vol')
            /\ en' = machine_cfg_word(opt', core) /\ fresh' = card'.in
    /\ UNCHANGED <<core, dirty, first_ready>>

\* apply_dmmode while the card is off.
ChoosePath(p) ==
    /\ ~opt.divmmc /\ opt' = [opt EXCEPT !.dmpath = p]
    /\ Unprogrammed /\ UNCHANGED <<vol, core, en, dirty, first_ready, fresh>>

\* apply_zc: the card is programmed in any case, the machine is not reset.
apply_zc(on) ==
    /\ IF on /\ Opened(opt.zcpath) = NoVolume
       THEN /\ opt' = [opt EXCEPT !.zc = FALSE] /\ vol' = NoVolume
            /\ Behind /\ UNCHANGED <<en, fresh>>
       ELSE /\ opt' = [opt EXCEPT !.zc = on]
            /\ vol' = IF on THEN Opened(opt.zcpath)
                      ELSE IF opt.divmmc THEN vol ELSE NoVolume
            /\ dmmc_program(opt', vol')
            /\ en' = machine_cfg_word(opt', core) /\ fresh' = FALSE
    /\ UNCHANGED <<core, dirty, first_ready>>

\* The eject button of the card's window: both transports off.
Eject ==
    /\ opt' = [opt EXCEPT !.divmmc = FALSE, !.zc = FALSE] /\ vol' = NoVolume
    /\ dmmc_program(opt', vol')
    /\ en' = machine_cfg_word(opt', core) /\ fresh' = FALSE
    /\ UNCHANGED <<core, dirty, first_ready>>

\* apply_cardwr: a write switch is thrown; the service will program the card.
apply_cardwr ==
    /\ \E d, z \in BOOLEAN : opt' = [opt EXCEPT !.dmwr = d, !.zcwr = z]
    /\ prog' = FALSE
    /\ UNCHANGED <<vol, cap_ok, ctl, card, core, en, dirty, first_ready, untold, fresh>>

\* divmmc_mount of a path that exists: if it does not open, the one before is
\* opened again, if the profile names it.
divmmc_mount(p) ==
    /\ IF Opened(p) # NoVolume
       THEN /\ opt' = [opt EXCEPT !.divmmc = TRUE, !.dmpath = p]
            /\ vol' = Opened(p)
       ELSE opt' = opt /\ vol' \in {Opened(opt.dmpath), NoVolume}
    /\ Behind /\ UNCHANGED <<core, en, dirty, first_ready, fresh>>

\* mp_load: another machine's profile, with its own switches and paths.
mp_load ==
    /\ \E d, z \in BOOLEAN, p, q \in DOMAIN Paths :
           opt' = [opt EXCEPT !.divmmc = d, !.zc = z, !.dmpath = p, !.zcpath = q]
    /\ vol' = NoVolume
    /\ en' = machine_cfg_word(opt', core) /\ fresh' = FALSE
    /\ Behind /\ UNCHANGED <<core, dirty, first_ready>>

\* apply_snow, apply_pff, apply_kj: another option pushes the machine word.
OtherOption ==
    /\ en' = machine_cfg_word(opt, core)
    /\ Unprogrammed /\ UNCHANGED <<opt, vol, core, dirty, first_ready, fresh>>

\* fs_service: a file of the DivMMC folder is written from outside.
WriteIntoFolder ==
    /\ Paths[opt.dmpath].kind = "folder"
    /\ dirty' = TRUE
    /\ UNCHANGED <<opt, vol, prog, cap_ok, ctl, card, core, en, first_ready, untold, fresh>>

fabric_reinit_after_reloadKeepsProg ==
    /\ core' \in BOOLEAN /\ card' = NoCard /\ en' = machine_cfg_word(opt, core')
    /\ cap_ok' = "new"
    /\ fresh' = FALSE
    /\ UNCHANGED <<opt, vol, prog, ctl, dirty, first_ready, untold>>

\* A core is loaded: the fabric comes up blank.
fabric_reinit_after_reload ==
    /\ core' \in BOOLEAN /\ card' = NoCard /\ en' = machine_cfg_word(opt, core')
    /\ prog' = FALSE /\ cap_ok' = "new"
    /\ fresh' = FALSE
    /\ UNCHANGED <<opt, vol, ctl, dirty, first_ready, untold>>

-----------------------------------------------------------------------------
(* divmmc_service, one disjunct per early return *)

NobodyNeedsItForgetsCard ==
    /\ ~dm_media_needed /\ ready
    /\ vol' = NoVolume /\ UNCHANGED <<prog, card>>
    /\ UNCHANGED <<opt, cap_ok, ctl, core, en, dirty, first_ready, untold, fresh>>

NobodyNeedsIt ==
    /\ ~dm_media_needed /\ (ready \/ prog)
    /\ vol' = NoVolume /\ prog' = FALSE
    /\ card' = IF prog THEN CardOut ELSE card
    /\ UNCHANGED <<opt, cap_ok, ctl, core, en, dirty, first_ready, untold, fresh>>

RebuildDirty ==
    /\ dm_media_needed /\ dirty /\ ready
    /\ dirty' = FALSE
    /\ vol' = dm_media_open(opt)
    /\ IF vol' # NoVolume THEN dmmc_program(opt, vol') /\ fresh' = card'.in
                          ELSE Behind /\ fresh' = fresh
    /\ UNCHANGED <<opt, core, en, first_ready>>

\* A volume without a programmed card; the first one restarts the machine.
Program ==
    /\ dm_media_needed /\ ready /\ ~dirty /\ ~prog
    /\ dmmc_program(opt, vol)
    /\ fresh' = (first_ready /\ prog') /\ first_ready' = (first_ready /\ ~prog')
    /\ UNCHANGED <<opt, vol, core, en, dirty>>

FirstRestartForgets ==
    /\ dm_media_needed /\ ready /\ ~dirty /\ prog /\ first_ready
    /\ first_ready' = FALSE
    /\ UNCHANGED <<opt, vol, prog, cap_ok, ctl, card, core, en, dirty, untold, fresh>>

FirstRestart ==
    /\ dm_media_needed /\ ready /\ ~dirty /\ prog /\ first_ready
    /\ first_ready' = FALSE /\ fresh' = TRUE
    /\ UNCHANGED <<opt, vol, prog, cap_ok, ctl, card, core, en, dirty, untold>>

\* No volume: tried again every DM_RETRY_S seconds.
Retry ==
    /\ dm_media_needed /\ ~ready
    /\ vol' = dm_media_open(opt)
    /\ UNCHANGED <<opt, prog, cap_ok, ctl, card, core, en, dirty, first_ready, untold, fresh>>

divmmc_service == NobodyNeedsIt \/ RebuildDirty \/ Program \/ FirstRestart \/ Retry

User ==
    \/ "off" \in UserOps /\ SwitchOff
    \/ "on" \in UserOps /\ \E p \in DOMAIN Paths : SwitchOn(p) \/ ChoosePath(p)
    \/ "zc" \in UserOps /\ \E on \in BOOLEAN : apply_zc(on)
    \/ "eject" \in UserOps /\ Eject
    \/ "write" \in UserOps /\ apply_cardwr
    \/ "mount" \in UserOps /\ \E p \in DOMAIN Paths : divmmc_mount(p)
    \/ "profile" \in UserOps /\ mp_load
    \/ "other" \in UserOps /\ OtherOption
    \/ "file" \in UserOps /\ WriteIntoFolder
    \/ "reload" \in UserOps /\ fabric_reinit_after_reload

Next ==
    \/ acts < MaxActs /\ User /\ acts' = acts + 1
    \/ divmmc_service /\ acts' = acts

Spec == Init /\ [][Next]_vars

\* The main loop comes round to the service, and not every word gets lost.
FairSpec == Spec /\ WF_vars(divmmc_service /\ acts' = acts)
                 /\ WF_vars(Program /\ prog' /\ acts' = acts)

-----------------------------------------------------------------------------
\* What the firmware believes about the card is what the fabric's registers
\* say, through every reload of the fabric and every lost word.
BeliefMatchesFabric == prog => card.in /\ card = ctl

\* Unless a handler has changed the volume or the options behind the card's
\* back, the card shows the mounted volume: it is never smaller (the comment over
\* g_dm_cap), and its write protection is off only when the medium will really
\* accept a write (the comment in dmmc_program).
CardShowsVolume ==
    prog /\ ready /\ ~untold => card.cap >= vol.secs /\ (card.wp \/ card_write_ok(opt, vol))

\* When neither transport wants the card any longer, it leaves the machine,
\* unless a write switch is thrown first: then the firmware no longer knows that
\* it is in (g_dm_prog), and leaves it there.
UnwantedCardLeaves ==
    (~dm_media_needed /\ attached /\ prog) ~> (dm_media_needed \/ ~attached \/ ~prog)

\* A wanted volume in a core that has the card reaches the machine, if the
\* machine has the transport enabled: a reload that blanks the fabric, or a
\* volume that comes back, does not leave it without its card.
MountedCardComesBack ==
    (dm_media_needed /\ ready /\ core /\ en /\ cap_ok # "no")
        ~> (attached \/ ~(dm_media_needed /\ ready /\ core /\ en))

\* The first card of a session gives the machine a clean start: esxDOS looks
\* for its card only then.
FirstCardStartsMachine == (card.in /\ prog /\ first_ready) ~> (fresh \/ ~prog \/ ~ready)

=============================================================================
