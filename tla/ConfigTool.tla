----------------------------- MODULE ConfigTool -----------------------------
(***************************************************************************)
(* ad9176-config (software/ad9176_config/ad9176_config.c) on the board:    *)
(* one command after another, with any arguments, each killed between any  *)
(* two of its accesses, on cards that come and go.  What a command leaves  *)
(* in the registers, the SPI master and the converter, the next one finds. *)
(***************************************************************************)
EXTENDS Bringup, CommandLine

CONSTANT Line           \* the command lines that are given

VARIABLES
  swapped,              \* history: card pulled since the last bring-up began
  up                    \* history: the last bring-up has succeeded, and
                        \* nothing was poked since

history == <<swapped, up>>
vars == <<card_vars, process, polled, history>>

Init ==
  /\ CardInit
  /\ job = NoJob
  /\ pc = 0 /\ sent = FALSE /\ polls = 0 /\ ids = {} /\ result = "none"
  /\ fmc_ready = FALSE /\ link_locked = FALSE
  /\ swapped = FALSE /\ up = FALSE
-----------------------------------------------------------------------------
\* Dispatch as a table.
JobOf == [argv \in {a \in Line : ~Unopened(a)} |-> Dispatch(argv)]

\* The device is opened and the command known.
Begin(argv) ==
  /\ ~Unopened(argv) /\ JobOf[argv] # Refused
  /\ job' = JobOf[argv]
  /\ pc' = 1 /\ ids' = {} /\ result' = "none"
  /\ IF job'.cmd = "bringup"
     THEN swapped' = FALSE /\ chip' = [chip EXCEPT !.fresh = FALSE]
     ELSE UNCHANGED <<swapped, chip>>
  /\ up' = (up /\ job'.cmd \notin {"bringup", "poke"})

\* main returns without an access: a usage message, or ad9176_open that has
\* given back what it had taken when calloc, open or mmap failed.
GiveUp(argv) ==
  /\ \/ Unopened(argv) /\ result' = IF argv = <<>> THEN "failed" ELSE "ok"
     \/ ~Unopened(argv) /\ result' = "failed"
  /\ UNCHANGED <<job, pc, ids, chip, history>>

Start ==
  /\ pc = 0
  /\ \E argv \in Line : Begin(argv) \/ GiveUp(argv)
  /\ UNCHANGED <<spi_master, card, csr, sent, polls, polled>>

Work ==
  /\ Run
  /\ up' = (up \/ (job.cmd = "bringup" /\ result' = "ok"))
  /\ UNCHANGED swapped

Kill ==
  /\ pc # 0
  /\ Crash
  /\ UNCHANGED <<card_vars, ids, polled, history>>
-----------------------------------------------------------------------------
Hardware ==
  /\ \/ Shifted /\ UNCHANGED <<polled, swapped>>
     \/ /\ Pull \/ \E kind \in Kind : Plug(kind)
        /\ fmc_ready' = FALSE /\ swapped' = TRUE
        /\ UNCHANGED <<spi_master, csr, link_locked>>
     \/ /\ fmc_ready' \in {FALSE, card # "none"}       \* see FmcHandshake
        /\ UNCHANGED <<card_vars, link_locked, swapped>>
     \/ /\ link_locked' = ~link_locked
        /\ UNCHANGED <<card_vars, fmc_ready, swapped>>
  /\ UNCHANGED <<process, up>>

Next == Work \/ Start \/ Kill \/ Hardware

Spec == Init /\ [][Next]_vars

\* The process is scheduled.  Nothing is asked of the hardware.
FairSpec == Spec /\ WF_vars(Work)
-----------------------------------------------------------------------------
\* A transfer takes up the answer to its own word, whatever words an earlier
\* run that was killed or gave up has left in the SPI master.
AnswerIsOwn ==
  [][(pc # 0 /\ Receive /\ Finished) => rxdata.reg = Step.reg]_vars

\* What the sequence writes after the identification.
Settings ==
  {<<"DACPLL_CTRL", 1>>, <<"INTERP_CTRL", 4>>, <<"JESD_L_CTRL", 3>>,
   <<"JESD_K_CTRL", 31>>, <<"JESD_M_CTRL", 3>>, <<"JESD_MISC_CTRL", 160>>,
   <<"LINK_CTRL0", 1>>}

\* A bring-up that reports success has left a converter of the right kind,
\* reset since the run began and completely configured, and its outputs on.
\* No later command but a poke takes any of it back, and none that is killed,
\* unless the card is changed.
SuccessMeansConfigured ==
  up /\ ~swapped =>
    /\ card = "ad9176" /\ chip.fresh /\ chip.sdo
    /\ chip.settings = Settings
    /\ csr["spi_en"] = 1 /\ csr["pe_ctrl"] = 1
    /\ csr["SINE_CTRL"] = 31 /\ csr["tx_en"] = 3

\* What a bring-up sets, it sets on a card that has identified itself as an
\* AD9176, unless the card was changed since it began.
NeverBlind ==
  chip.fresh /\ chip.settings # {} /\ ~swapped => card = "ad9176"

\* No state of the hardware, a dead SPI master or an absent card included,
\* hangs the tool.
RunEnds == [](pc # 0 => <>(pc = 0))

Healthy ==
  card = "ad9176" /\ fmc_ready /\ link_locked /\ polls + 1 < PollLimit

\* On a board that is in order bring-ups succeed, whatever commands and cards
\* came before.
HealthyComesUp ==
  <>[](Healthy /\ result # "killed") /\ []<>(job.cmd = "bringup") => []<>up

\* Whatever tone command is given next, it does what its options say: the
\* last value given for an option counts, its default stands if there is none,
\* and a wrong word anywhere refuses the command before it has any effect.
\* (A last word without a partner is not read.)
ParsedAsGiven == pc = 0 => ReadAsMeant
=============================================================================
