# Verification of the DAC subsystem

TLA+ models, model checks and proofs for the firmware and RTL that drive an
AD9176 DAC from an Agilex 5 development board.  Paths of the form `x.vhd` are
under `ip/dac_controller_0/src/`, C files under `software/ad9176_config/`.
`PROJECT.json` lists every run, the definition-by-definition map to the source,
the mutants that show each property can fail, and the hazards the properties
are for.

## 1. Inventory

### 1.1 The system

Linux on the HPS runs `ad9176-config`, which maps the CSR window of the FPGA
into its address space.  An access goes through the lightweight HPS bridge
(AXI4) to `AxiToAvmm` and `RegBank`.  The registers configure a tone generator,
a source multiplexer and a synchronisation controller in a second clock, the
JESD204B link clock, which feed two links to the converter.

    ad9176-config --AXI--> AxiToAvmm --> RegBank            control clock, 100 MHz
                                           |   ^
               p_cdc_sine, sync_csr,       |   |  p_cdc_status
               error-clear toggle          v   |
      SineWaveGen --> DataSrcMux --> JesdTxManager --> links   link clock, 312.5 MHz
                 DcFifo --^   ^                         |
                              |  LMFC boundary          v
                       JesdSyncController <-- tx_frame_ready of the links

| component | state | operations | promise |
|---|---|---|---|
| JesdSyncController | LMFC counter, a state and a release flag per group, sticky flag per link | link clock edge; inputs: link ready, mode, error clear | data released only on an LMFC boundary with every required link up, withdrawn at once, re-synchronised in bounded time; every drop on record |
| DataSrcMux | shadow, pending, active source | link clock edge; inputs: select, boundary, fill level | switches deliberately, on a boundary, to the FIFO only when filled |
| DcFifo | memory, binary and Gray pointers, synchronisers | write edge, read edge, resets of both | a bounded queue |
| AxiToAvmm | state, latched address, data, id, channel flags | control clock edge | one register access per AXI access, answered with its own id |
| RegBank | registers, one-clock error-clear pulse | write, read, reset | a register file |
| SineWaveGen | phase accumulator, table and output registers, valid pipeline | link clock edge | a valid pair is the next pair of the tone |
| JesdTxManager | packed word, valid | link clock edge | passes pairs on, zero while invalid |
| dac_controller_0 | synchronisers and toggles between the clocks, reset synchroniser, JESD reset counter | edges of both clocks | settings arrive whole, clears arrive once, a lock that is read is a lock; the JESD core starts last |
| fmc_handshake | two synchronisers, hold-off counter | clock edge | transceivers stay in reset until the card has been steady |
| ad9176-config | none that outlives a run (registers, SPI master and converter keep it) | `bringup`, `tone`, `status`, `peek`, `poke` | identifies and configures the converter, brings the links up, reports what it did, always ends; re-tunes the tone |
| Reference driver | none | `ad9176_nco_enable`, `ad9176_nco_disable`, `ad9176_jesd_wait_lock`, `ad9176_init` | a tone is played as asked, whatever was played before |
| Clocks and resets of the board | a reset synchroniser | PLL lock, processor reset | one reset for gate and controller, long enough for both clocks |
| Board top level, sysref_capture, debounce, jesd_stub, AxiLiteToAvmm, gpio_interrupt | wiring, single synchronisers, stubs, superseded or sample code | | |

### 1.2 What is hard

* Two clocks without phase relation: pointers, settings and pulses are sampled
  while they change, in any interleaving of edges.
* Links drop and return for single clocks, at any state of the controller.
* Software acts at any time: modes, sources, clears and tone settings change
  while the hardware is using them.
* Resets reach the two clocks at different times.
* The tool can be killed or time out between any two of its accesses and be
  started again; the converter, the SPI master and the card outlive it.
* AXI gives no order between the address, data and read channels.
* The tool is not the only possible software: what hardware guarantees
  unconditionally and what it guarantees only to disciplined software must be
  told apart.

The list of hazards, each at its line, is in `PROJECT.json`.

## 2. Modules

A clock domain is modelled by its edges: one action is one rising edge, in
which every clocked process of the domain steps from the values before the
edge.  Inputs from outside the domain change between edges.

| module | models | notes |
|---|---|---|
| `LinkRelease` | abstract | the release gate: what the sync controller promises, without states, counter or links |
| `JesdSync` | jesd_sync_controller.vhd | groups and links are parameters (two groups of two links in the source) |
| `JesdSyncTiming` | the same, observed | history variables for latency, for phase and for whether the mode was left alone |
| `DataSrcMux` | data_src_mux.vhd | one disjunct per branch of `p_switch` |
| `SrcSwitching` | DataSrcMux, observed | a boundary and a fill level that come and go; history variable for how long a request stood |
| `LinkControl` | `p_cdc_sync_csr`, SrcSwitching and ErrClrCdc under one reset and one link clock | what software does to a running path |
| `FifoQueue` | abstract | a bounded queue with a reset |
| `DcFifo`, `FifoCrossing` | dc_fifo.vhd and its instance | the second adds the resets of `dac_controller_0` |
| `TxlinkReset` | `p_txlink_rst` of dac_controller_0.vhd | shared by the crossing models |
| `RegFile` | abstract | registers accessed one at a time |
| `AxiToAvmm`, `RegBank`, `CsrPort` | axi_to_avmm.vhd, reg_bank.vhd and an AXI master | the master is external: any behaviour the AXI rules allow |
| `CsrCdc` | `p_cdc_sine` | Gray-less crossing of the tone settings, with torn samples and disciplined software |
| `ReferenceDriver` | the tone calls of reference/ad9176_fmc_ebz.c, on `CsrCdc` | one register write at a time, between other disciplined software |
| `ToneTool` | `dac_subsys_set_nco_tone` on `CsrCdc` | the shipped tool, without the discipline |
| `ErrClrCdc` | error-clear toggle and its synchroniser | one bit; the four are independent |
| `SineWaveGen`, `SineRef`, `ToneWave` | sine_wave_gen.vhd; a reference wave; the check of one against the other | one of the four identical converters |
| `TxPath` | the link-clock part of dac_controller_0.vhd, jesd_tx_manager.vhd | composes JesdSync, DataSrcMux, SineWaveGen |
| `FmcHandshake` | fmc_handshake.sv | |
| `BoardStatus` | clocks_and_resets.sv, `p_jesd_rst`, `p_cdc_status`; composes `FmcHandshake`, `TxlinkReset`, `JesdSync` | one reset and two clocks, from the card to what software reads |
| `FmcCard` | external: SPI master (a word shifted, a word waiting, the last answer), card and converter | as far as the tool relies on them: three-wire SPI after a reset, settings lost with power |
| `Bringup` | ad9176_init.c, the transport of ad9176_fmc_ebz.c | every command is a list of accesses, one operator per C function; the actions are the kinds of access |
| `CommandLine` | `main` and `parse_u32` of ad9176_config.c | arguments in, a job or a refusal out; no state |
| `ConfigTool` | ad9176_config.c as a whole | composes the three: commands one after another, killed anywhere, on cards that come and go |
| `MC*` | | values of the constants for TLC |
| `*_proofs` | | theorems about the module of that name and those it composes |

Definitions keep the names of the source: a register `grp0_state` is
`grp_state[g]`, a process `p_pack` the operator of that name.  Where a process
is one conjunct of an edge, its operator gives the values of its registers
after the edge.

### What the models abstract from

* A flip-flop that samples a changing vector catches each changed bit before or
  after the change.  A metastable bit settles by the next edge, which is what
  the two-stage synchronisers of the source are for.
* The FIFO has 2 or 4 entries instead of 512.  Data are members of a small set.
* The registers of `RegBank` are grouped by what an access does to them.
* Sample, phase and table widths are parameters, given as the sizes of the ranges
  they span (`LutDepth`, `StepWidth`, `Half`, `WordRange`); the arithmetic is that
  of the vectors, with its wrap.
* `wstrb`, `awlen` and `wlast` are left out: the source does not look at them,
  and the master of `CsrPort` makes single accesses.

### Assumptions on what is outside

* A reset, once asserted, lasts until the link clock side has seen it
  (`ResetHeld`, and the argument of `ReleaseSink`).  `BoardStatus` has no such
  assumption: there the three flip-flops of clocks_and_resets.sv hold the reset.
* In `BoardStatus` the link clock runs and at least one of its edges falls
  between two of the control clock (three do).  It comes from the card through
  the transceiver: if it stopped, the status would keep its last value.
* Register writes are at least three control clocks apart (three states of
  `p_fsm`), longer than the same number of link clocks: `Gap` link edges between
  writes in `CsrCdc`, one in `ErrClrCdc` (`seen`).  The models use less than the
  clocks of the board give.
* The AXI master keeps the AXI rules, makes single accesses and is reset
  together with the port.
* In `CsrCdc` software writes the settings while `SINE_CTRL(0)` is low, as the
  header of `p_cdc_sine` demands; `ReferenceDriver_proofs` shows that the
  reference driver does.  `ToneTool` shows what the shipped tool does.  That
  settings take effect needs this discipline; that they never tear and never
  move under a tone does not, as `FreeSpec` (any write at any time) shows.
* Link ready is a free input of the sync controller, as its interface has it.  On
  the present board `jesd_stub` ties the two used links high (ISSUE-020).
* The SPI master takes a second word while one is shifted, sets TMT when both are
  out and lets a new answer replace the last.  A card is not plugged in during
  the microsecond of a word.  One process uses the master at a time.
* The mapped window is device memory: an access across words faults.  A `poke`
  reaches the registers the other commands use, not those of the SPI master.
  A division by 0 answers 0 or stops the process.
* `ValidIsTone` and `StreamContinuous` are stated for amplitudes up to `Half`
  (0x8000), where a full-scale sample still fits its 16 bits; the tools write 0x7fff.
  Above it the models go on and wrap, as the code does.
* The multiplexer's multiframe boundary and fill level in `LinkControl`, and the
  inputs of `ToneWave` and `TxPath`, change at most between edges; that they
  come through synchronisers is covered by the models of those.

## 3. Runs

| run | config | distinct states | what it shows |
|---|---|---|---|
| `sync` | `JesdSyncTiming` | 288 k | the controller refines `LinkRelease`; release and state agree; at most period + 2 edges to release; running groups at one phase; flags for every link that stopped a running group and for no other; groups in lockstep in all-four mode; ready links are released for good |
| `link_control` | `LinkControl` | 27 k | no switch without a request that stood two edges; status honest; FIFO filled; a selection that stays takes effect; error clears are neither lost nor invented, and arrive |
| `fifo` | `FifoCrossing` | 291 k | the FIFO is a queue; the level never overstates; nobody is shut out |
| `csr_port` | `CsrPort` | 208 k | the port is a register file for any timing of the channels, a clear lasting one clock; accesses are answered |
| `tone_cdc` | `ReferenceDriver` | 264 k | tone settings arrive whole, stay still while used, and take effect; the last call of the driver is what plays |
| `tone_wave` | `ToneWave` | 105 k | valid samples are the tone, bit for bit |
| `tx_path` | `TxPath` | 189 k | words on the lanes are consecutive pairs; links are fed for good |
| `board_status` | `BoardStatus` | 767 k | a whole hold-off before ready, and ready comes; a lock that is read is fresh, and is reported; the JESD core starts last |
| `config_tool` | `ConfigTool` | 571 k | options mean what they say; answers belong to their words; success means identified, reset and configured, and lasts; no blind settings; commands end; healthy boards come up |
| `sync_clear_active` | `JesdSyncErrClr` | violated | see below, 1 |
| `tone_retune` | `ToneTool` | violated | see below, 2 |
| `tx_path_continuous` | `TxPathContinuous` | violated | see below, 3 |

Bounds, and why they are enough:

* `sync`: one group of two links, so that a link can drop alone or with its
  partner, and one of a single link, so that either group can be hit without
  the other; a period of 6 (16 on the board), more than the edges any path from
  a drop back to the boundary wait takes, so that the boundary can fall before,
  in and after each of them.  Lockstep and the drop record are stated for a mode
  that was left alone since the last reset (`mode_kept`), which is what the tool
  does; everything else holds while the mode changes at any time.  The proofs
  hold for every period and every grouping.
* `link_control`: the level of the FIFO below, at and above the threshold; one
  clear bit, since the four are independent; up to three clears under way, one
  for each flip-flop of the crossing.
* FIFO of 4 entries for safety: pointers of 3 bits wrap, and between two
  samples of one side the other may move any distance, so every pair of Gray
  words meets.
* `CsrPort`: one written register with a reset value that is not zero and the
  clear register, two values, two outstanding writes: a third would wait where
  the second does, since the bridge looks at one.
* `ReferenceDriver`: one field in a register of its own, with three values so
  that a torn sample differs from both, and the one that shares `SINE_CTRL`, with
  the two values any software of the repository writes; two link edges between
  writes instead of nine.  The proofs hold for every set of fields and values.
* `BoardStatus`: hold-off of 2, multiframe of 2, JESD reset count of 4: more than
  the flip-flops that each of them has to outlast, with a reset or a bounce
  possible before, during and after each count.  The multiframe is short because
  its phase is the subject of `sync`; power good is tied high, as on the board.
* `ToneWave`: all 16 phases with a table of two entries per quarter: every
  quadrant, both mirror ends, frequencies that alias and wrap, amplitudes below,
  at and above the sign bit.
* `TxPath`: a tone of eight samples in which all pairs differ, so a repeated,
  skipped or blank pair shows.  The FIFO is tied off as on the board.  Error
  clears are not driven: they touch nothing but the flags.
* `config_tool`: every poll loop gives up after 3 looks instead of 1000 to 10000,
  so that each wait can end at once, after a retry and not at all.  Commands are
  killed and started again without limit; the lines include each command, a
  refusal in every place where one can be, a division by 0, an access across
  words and a poke that undoes what the bring-up did.  Register values are the
  ones written; a second kind of card answers the type and one half of the
  product number right.  Numbers have 3 bits, 13 being one that is cut; for
  `ParsedAsGiven` every sequence of up to five option words is read, which is two
  pairs and a word without a partner.

Fairness: only that the clock (in `board_status`: both clocks) of the part in
question runs, for `config_tool` that the process is scheduled; for `csr_port` also
that the AXI master presents what it issued and takes its answers, which AXI
requires; for `ToneTool` that a started command completes.  Nothing is asked of
links, software or the card: their good behaviour appears as a premise (`<>[]`)
of the property.

### Where documents and code differ

Three runs check a sentence of a document against the code and TLC finds it
violated; `PROJECT.json` ("findings") quotes them.

1. `sync_clear_active`: a sticky flag can be cleared while its link is down.
2. `tone_retune`: `ad9176-config tone` after a bring-up changes nothing that is
   played.
3. `tx_path_continuous`: links operate without valid data from release to the
   tone's enable, in the order of the bring-up.

Also noticed, but not the subject of a run:

* After a switch to all-four mode that finds one group still waiting for the
  boundary, a drop of one of its links stops the other, running group with no
  flag: `p_err` blames a link only if its own group was running.  `Lockstep` and
  `DropRecorded` are stated for a mode left alone for this reason.
* `axi_to_avmm.vhd` takes one data beat per address and never looks at `wlast`,
  so the further beats of a burst would become the data of the next writes;
  ISSUE-007 says they are dropped.  The HPS bridge is not expected to burst.
* The usage message gives `--freq HZ` of `tone` without brackets, as if it were
  required; the code takes the default.  A last option without a value is not
  read, and a number beyond 32 bits is cut, both without a message.
* A repeated bring-up resets the converter with `tx_en` still 3 from the run
  before, and a failed or killed run leaves every output as it was.
* `agilex5_devkit.sv` drives bit 0 of the DAC status word high when a card is
  present; `dac_subsys_regs.h` and the `status` command call that bit `prsnt_n`,
  active low.
* `doc/jesd_bringup_sequence.md` writes 1 to `JESD_SYNC_CTRL`, the code 0 (and
  explains why); it expects the PLL lock bit to be tested, the code only prints
  it.

## 4. Proofs

Checked by TLAPS for every value of the constants that meets their assumptions.
Every invariant and every safety property of a step that a passing run checks is
stated by a theorem, and so are all the refinements.

* `TxPath_proofs`, sync controller.  Types; `ReleaseMatchesState`, inductive with
  the types; `GateRefined`, refinement of `LinkRelease` step by step, which needs
  `ReleaseMatchesState` because the gate is the release register and the guard
  is the state; `FlagsCorrect`, for the same reason: a flag is set from the state
  and the property speaks of the gate.  `Lockstep` and `DropRecorded` hold for
  software that leaves the mode alone: there the induction is on the equality of
  all group states, which a reset restores and a mode change gives up.
  `BoundedLatency` and `SamePhase` hold for every period: the invariant for the
  first ties the number of ready edges to the state and to the distance to the
  next boundary, the one for the second ties the age of a running group to the
  multiframe counter, which makes any two ages equal.
* `ToneWave_proofs`.  `ValidIsTone` for every size and contents of the table, all
  widths and all settings.  The table read forwards and backwards and with either
  sign is the whole wave; a product with an amplitude up to `Half` does not leave
  its register; phase accumulator and sample count both wrap, at the same
  turn, so the phase is the count times the frequency for good.  The invariant
  (`PipeInv`) says that the table register is one pair ahead of the output and
  the accumulator two.
* `TxPath_proofs`, stream.  `StreamContinuous` for every tone and all behaviour of
  links, mode, select and reset.  What an edge does inside the generator is taken
  from the lemmas of `ToneWave_proofs`, whose assumptions follow from those of
  `TxPath`.  `StreamInv` says that the generator is in step with
  the tone while it is on and starts from a clean accumulator when it was off, and
  that a valid word came from a valid pair; the FIFO, tied off, brings
  no valid samples.
* `TxPath_proofs`, composition.  The path implements the specification of the
  controller by itself (`PathControlled`), so all of the above holds on it, the
  refinement of the gate included (`PathGated`).
* `LinkControl_proofs`.  The three properties of the switch from one invariant
  (`AskedInv`): what the number of edges a request stood says of shadow and
  pending.  From the same, a standing request is carried out at the first boundary at
  which it may be (`SwitchPrompt`).  `NoClearLost` and `NoSpuriousClear` from another (`OwedInv`): the clears
  still owed are the flips of the toggle that are under way in its three flip-flops.
  While a reset is on its way only the flips count that the level of the
  reset cannot have reached yet, for it may throw back the toggle and so make a
  flip, or undo one.  `SpacedInv` is where the distance of two register writes
  is needed.  `ClearsBounded`: with each edge the clears under way are one
  flip-flop further, so three edges after the last write nothing is owed.
* `FifoCrossing_proofs`.  `FillNeverOverstated` and the refinement of `FifoQueue`,
  for every power of two as depth, with samples that catch each changed bit or
  not.  First the codes: one step of a pointer changes one bit of its Gray code,
  also where it wraps; a code determines its pointer and is decoded by `gray2bin`;
  the test of `full_i` means half a turn.  Then the pointers: each of the eight
  copies gets a position on one line, on which they stand in a fixed order (the
  read side's, from what the write side knows of it up to the read pointer
  itself; then the write side's, likewise) and no further apart than the depth
  (`RunInv`).  A sample that catches one changed bit or none is then a position
  between the old copy and the pointer.  A reset reaches the two sides at different
  edges: `StopInv` and `HeldInv` say what is left of the order until it
  has, and that the read side is at zero when the write side starts again.
  `LagBounded`: each edge of a side leaves it less far behind the other, and a
  side that is not behind sees the level, or full, as it is.
* `ReferenceDriver_proofs`, crossing.  `ToneIsWhole` and `ToneFrozen` for every
  set of fields and values: the invariant says, for each position of the enable
  bit in its flip-flops, whether the bank has been still since it was set.  That
  rests on the distance of two writes alone: an enable is through the two
  flip-flops before the next write can come, and from then on nothing is sampled.
  So both hold whatever software writes (`FreeToneWhole`, `FreeToneStands`), and
  for the `tone` command of the shipped tool (`ToolToneWhole`), whose new settings
  are not played but never spoil what is.  The discipline is needed for settings
  to take effect: with it, what was asked is generated three link edges after
  the last write (`ToneInForce`).  That one says something of `Gap` from 3 on; the
  board has nine edges.
* `ReferenceDriver_proofs`, driver.  The driver between other software implements
  `CsrCdc`: the first write of a call takes the enable bit down, and it stays
  down until the last one, over resets too.  `ToneIsWhole`, `ToneFrozen` and the
  bound of `ToneInForce` follow.
* `CsrPort_proofs`.  `AnswersMatch`, and the refinement of `RegFile`, for any
  number of outstanding writes and every set of registers.  The invariant says
  where the oldest write is in each state of the bridge: address and data are
  taken together and not before the last answer, so at most one of the writes
  has left the master.  The refinement marks that one as done from the edge at
  which its answer is offered; a few lemmas carry the mark over `Append` and
  `Tail`.  It assumes that `NotYet` is no register value and `NoRead` no read.
* `BoardStatus_proofs`.  `ReadyWasHeld`, for the gate alone and on the board, and
  for any pattern of the two contacts: the hold-off counter is the length of the
  run of good samples, seen through the delay of the synchronisers.  As it is
  exactly that, ready comes no later than it may, either (`GateReports`,
  `ReadyReported`).
  `CoreComesLast` and `LockIsFresh` hold for every JESD reset count of at least
  three.  The invariant counts link edges by control edges: of as many control
  edges as have passed since an event, all but one have had a link edge before
  them.  It tells a release of this life of the board, which is as old as its
  last link edge, from one of the life before, which the next link edge ends
  before software can see it.
* `ConfigTool_proofs`, for every number of polls and all command lines.
  `AnswerIsOwn`: the invariant follows the word in hand through the SPI master,
  behind a word of an earlier run, being shifted, or answered.
  `SuccessMeansConfigured` and `NeverBlind` (`BringInv`): the settings of the
  converter are those of the steps whose words are out (`ChipInv`), because
  words that an earlier, killed run left in the master come out before the
  reset this run makes (`WordInv`); the converter has identified itself once
  its product number was read, since the answer is its own and no other card
  gives it; when the bring-up ends, no word is left that could change anything, which
  is why a success lasts until a poke (`UpInv`).  Runs in which the card was
  changed are exempt, as the properties say.
  `RunsBounded`, whatever the hardware answers: no run makes more than
  52 * `PollLimit` accesses.  The measure (`Left`) allows `PollLimit` of them for either
  half, word and answer, of each of the 26 steps, and every access takes from it.
  `ParsedAsGiven`, for any number of words: an induction over the pairs the loop of
  `main` has read shows that an option is what its last mention made it.

Induction over data is done where it is needed with one lemma on subsets of Nat
(`Induction`, from the well-foundedness of `<`): no operator as a parameter, so the
provers can use it, and what the loop of `main` and the codes of the
FIFO come to is proved and not only checked for small sizes.  Recursion is
written as recursive functions for that reason.

Not proved, but model-checked: all liveness (`GroupComesUp`, `SelectTakesEffect`,
`ClearsArrive`, `EventuallyVisible`, `AccessesAnswered`, `ToneTakesEffect`,
`PlaysAsAsked`, `LinksFed`, `ReadyComes`, `LockIsSeen`, `RunEnds`,
`HealthyComesUp`), since fairness and ENABLED are out of reach of the provers; and
the three violated properties, each refuted by one behaviour.  For seven of
them the part that is safety is proved, as a bound on the steps it takes once the
clock or the process runs: `BoundedLatency` (of `GroupComesUp`), `SwitchPrompt`
(`SelectTakesEffect`), `ClearsBounded` (`ClearsArrive`), `LagBounded`
(`EventuallyVisible`), `ToneInForce` (`ToneTakesEffect`), `ReadyReported`
(`ReadyComes`), `RunsBounded` (`RunEnds`).

## 5. Not modelled, and the plan

Not modelled: generated Platform Designer systems, Quartus, Yocto and
simulation scripts; `jesd_stub`, `AxiLiteToAvmm` (superseded); `sysref_capture`,
`debounce`; the GTS JESD204B IP and its reset gate (its ready outputs are free
inputs here); the GPIO sample driver; printing; `ad9176_init` of the reference
driver with its bit-banged SPI, whose pins and addresses its header calls
placeholders, and the reference sequence for the iq_router, whose SPI bridge is
not in the repository.  Two processes that share the SPI master are not modelled
either: the tool takes no lock, and nothing says that they may.

What is left of the plan:

1. Proofs: the bounds that are left (an access at the CSR port, a lock on its way
   to the status registers), and one module with the arithmetic (division,
   remainders, induction) that FIFO, tone and command line now each bring along.
2. The GTS IP, once `jesd_stub` is replaced by it: its handshake with
   `p_jesd_rst`, and `sysref_capture`.
