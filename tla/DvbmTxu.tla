------------------------------- MODULE DvbmTxu -------------------------------
(***************************************************************************)
(* The DVB Master III Tx driver of src/quad/src/dvbm_txu.c: the PCI probe  *)
(* with its error paths, and the interrupt handler against a board that    *)
(* completes DMA descriptors and latches FIFO-underrun (TXUIS) and data    *)
(* (TXDIS) status bits in the write-one-to-clear ICSR register.            *)
(*                                                                         *)
(* A probe runs to completion in process context before the interrupt     *)
(* line is requested, so Probe is one action whose input is where, if      *)
(* anywhere, it fails.  The handler runs in steps, one per register access *)
(* the board can act between.  dvbm_txu_pci_remove is defined outside the  *)
(* file: the model takes it to free what drvdata points to, if anything,   *)
(* and to leave drvdata as it is, which is what the comment of line 76     *)
(* guards against.                                                         *)
(***************************************************************************)
EXTENDS Naturals, FiniteSets

CONSTANTS
    DeviceIds,      \* pdev->device values: "TXU", "TXE" or another id
    Versions,       \* firmware versions read from the CSR
    MaxProbes,      \* bound on probe calls; card n is the one probe n allocates
    ChainLen        \* descriptors of the DMA chain the board runs

ASSUME MaxProbes \in Nat \ {0} /\ ChainLen \in Nat \ {0} /\ Versions \subseteq Nat

NULL == 0
Cards == 1..MaxProbes

(* Where a probe fails: dvbm_pci_probe_generic, kzalloc, dvbm_register,   *)
(* device_create_file of 'uid', asi_register_iface, or nowhere.           *)
Failures == {"generic", "kzalloc", "register", "uidfile", "iface", "none"}

IcsrBits == {"TXUIS", "TXDIS"}

(* Mutant of EventOf: the status bit itself is set in iface->events. *)
EventOfRaw == [b \in IcsrBits |-> b]

(* The iface->events bit each ICSR status bit sets. *)
EventOf == [b \in IcsrBits |-> IF b = "TXUIS" THEN "FIFO" ELSE "DATA"]

VARIABLES
    drvdata,    \* pci_get_drvdata(pdev): NULL or a card
    cards,      \* per card: "none", "live" or "freed", and its capabilities
    bound,      \* the last probe succeeded and no remove followed
    probes,     \* probe calls so far
    doubleFree, \* ghost: kfree of a card already freed
    dmaLatch,   \* INTCSR DMA0INT active
    done,       \* DMACSR0 channel done
    icsr,       \* status bits latched in ICSR
    completions,\* descriptors completed by the board
    advances,   \* mdma_advance calls
    hpc,        \* where the handler is: "idle", "dma", "dmaclr", "local", "localwb", "ret"
    intcsr,     \* the handler's read of INTCSR: [dma, local]
    dstatus,    \* the handler's read of DMACSR0: channel done
    lstatus,    \* the handler's read of ICSR
    events,     \* iface->events
    dmaDone,    \* bit 0 of iface->dma_done
    pending     \* ghost: ICSR bits raised whose event is not yet set

vars == <<drvdata, cards, bound, probes, doubleFree, dmaLatch, done, icsr,
          completions, advances, hpc, intcsr, dstatus, lstatus, events, dmaDone, pending>>

hw == <<dmaLatch, done, icsr, completions, advances, hpc, intcsr, dstatus,
        lstatus, events, dmaDone, pending>>

Card == [state : {"none", "live", "freed"}, uid : BOOLEAN, ptimestamps : BOOLEAN]

TypeOK ==
    /\ drvdata \in {NULL} \cup Cards
    /\ cards \in [Cards -> Card]
    /\ bound \in BOOLEAN /\ probes \in 0..MaxProbes /\ doubleFree \in BOOLEAN
    /\ dmaLatch \in BOOLEAN /\ done \in BOOLEAN /\ icsr \subseteq IcsrBits
    /\ completions \in 0..ChainLen /\ advances \in Nat
    /\ hpc \in {"idle", "dma", "dmaclr", "local", "localwb", "ret"}
    /\ intcsr \in [dma : BOOLEAN, local : BOOLEAN]
    /\ dstatus \in BOOLEAN /\ lstatus \subseteq IcsrBits
    /\ events \subseteq {"BUFFER", "FIFO", "DATA"} /\ dmaDone \in BOOLEAN
    /\ pending \subseteq IcsrBits

Init ==
    /\ drvdata = NULL
    /\ cards = [c \in Cards |-> [state |-> "none", uid |-> FALSE, ptimestamps |-> FALSE]]
    /\ bound = FALSE /\ probes = 0 /\ doubleFree = FALSE
    /\ dmaLatch = FALSE /\ done = FALSE /\ icsr = {} /\ completions = 0 /\ advances = 0
    /\ hpc = "idle" /\ intcsr = [dma |-> FALSE, local |-> FALSE]
    /\ dstatus = FALSE /\ lstatus = {} /\ events = {} /\ dmaDone = FALSE /\ pending = {}

-----------------------------------------------------------------------------
(* dvbm_txu_pci_remove as the model takes it: the card drvdata points to  *)
(* is freed; kfree(NULL) does nothing.                                     *)
Release(d) ==
    /\ cards' = IF d = NULL THEN cards ELSE [cards EXCEPT ![d].state = "freed"]
    /\ doubleFree' = (doubleFree \/ (d /= NULL /\ cards[d].state = "freed"))

(* Lines 123 to 139: the FPGA and the PCI 9056 are reset, which clears   *)
(* the board's latches, and the bridge's interrupts are enabled; the      *)
(* interface that will be registered starts with no events.               *)
HwReset ==
    /\ dmaLatch' = FALSE /\ done' = FALSE /\ icsr' = {}
    /\ completions' = 0 /\ advances' = 0
    /\ events' = {} /\ dmaDone' = FALSE /\ pending' = {}
    /\ UNCHANGED <<hpc, intcsr, dstatus, lstatus>>

(* The card a probe that gets past kzalloc builds: the UID capability for *)
(* a DVB Master III Tx E only (the default case is the plain Tx), and     *)
(* ASI_CAP_TX_PTIMESTAMPS from firmware 0x0E07 on.                         *)
NewCard(dev, ver) ==
    [state |-> "live", uid |-> dev = "TXE", ptimestamps |-> ver >= 3591]

(* Mutant of Probe: drvdata is not set to NULL before kzalloc. *)
ProbeNoDrvdataReset(dev, ver, fail) ==
    LET c == probes + 1
        d == IF fail \in {"generic", "kzalloc"} THEN drvdata ELSE c
    IN  /\ ~bound /\ probes < MaxProbes /\ hpc = "idle"
        /\ fail = "uidfile" => dev = "TXE"
        /\ probes' = c
        /\ drvdata' = d
        /\ bound' = (fail \in {"none", "uidfile"})
        /\ IF fail \in {"generic", "none", "uidfile"}
             THEN /\ cards' = IF fail = "generic" THEN cards ELSE [cards EXCEPT ![c] = NewCard(dev, ver)]
                  /\ UNCHANGED doubleFree
             ELSE Release(d)
        /\ IF fail \in {"generic", "kzalloc"} THEN UNCHANGED hw ELSE HwReset

(* Mutant of Probe: a failed asi_register_iface returns without          *)
(* dvbm_txu_pci_remove.                                                    *)
ProbeNoRemoveOnIface(dev, ver, fail) ==
    LET c == probes + 1
        d == CASE fail = "generic" -> drvdata
               [] fail = "kzalloc" -> NULL
               [] OTHER            -> c
    IN  /\ ~bound /\ probes < MaxProbes /\ hpc = "idle"
        /\ fail = "uidfile" => dev = "TXE"
        /\ probes' = c
        /\ drvdata' = d
        /\ bound' = (fail \in {"none", "uidfile"})
        /\ IF fail \in {"generic", "none", "uidfile", "iface"}
             THEN /\ cards' = IF fail = "generic" THEN cards ELSE [cards EXCEPT ![c] = NewCard(dev, ver)]
                  /\ UNCHANGED doubleFree
             ELSE Release(d)
        /\ IF fail \in {"generic", "kzalloc"} THEN UNCHANGED hw ELSE HwReset

(* dvbm_txu_pci_probe.  A failure of dvbm_pci_probe_generic returns at    *)
(* once; every later failure goes through dvbm_txu_pci_remove, which sees *)
(* NULL if kzalloc failed and the new card otherwise.  A failure to      *)
(* create the 'uid' file is only a warning.                               *)
Probe(dev, ver, fail) ==
    LET c == probes + 1
        d == CASE fail = "generic" -> drvdata
               [] fail = "kzalloc" -> NULL
               [] OTHER            -> c
    IN  /\ ~bound /\ probes < MaxProbes /\ hpc = "idle"
        /\ fail = "uidfile" => dev = "TXE"
        /\ probes' = c
        /\ drvdata' = d
        /\ bound' = (fail \in {"none", "uidfile"})
        /\ IF fail \in {"generic", "none", "uidfile"}
             THEN /\ cards' = IF fail = "generic" THEN cards ELSE [cards EXCEPT ![c] = NewCard(dev, ver)]
                  /\ UNCHANGED doubleFree
             ELSE Release(d)
        /\ IF fail \in {"generic", "kzalloc"} THEN UNCHANGED hw ELSE HwReset

(* The device is unbound: free_irq has waited for a running handler. *)
Remove ==
    /\ bound /\ hpc = "idle"
    /\ Release(drvdata)
    /\ bound' = FALSE
    /\ UNCHANGED <<drvdata, probes>> /\ UNCHANGED hw
-----------------------------------------------------------------------------
(* The board, while the device is bound.                                   *)

(* A descriptor of the chain completes: the DMA interrupt is latched, and *)
(* the last descriptor also sets the channel-done status.                 *)
DmaComplete ==
    /\ bound /\ completions < ChainLen
    /\ completions' = completions + 1
    /\ dmaLatch' = TRUE
    /\ done' = (completions + 1 = ChainLen)
    /\ UNCHANGED <<drvdata, cards, bound, probes, doubleFree, icsr, advances, hpc,
                   intcsr, dstatus, lstatus, events, dmaDone, pending>>

(* The transmitter latches a FIFO-underrun or data status bit in ICSR. *)
IcsrRaise(b) ==
    /\ bound /\ b \notin pending
    /\ icsr' = icsr \cup {b}
    /\ pending' = pending \cup {b}
    /\ UNCHANGED <<drvdata, cards, bound, probes, doubleFree, dmaLatch, done,
                   completions, advances, hpc, intcsr, dstatus, lstatus, events, dmaDone>>

-----------------------------------------------------------------------------
(* dvbm_txu_irq_handler, one step per register access.  The line may be   *)
(* shared, so the handler may also run when the board asserts nothing.    *)

(* Mutant of IrqEnter: the DMA test masks INTCSR with both interrupt bits. *)
IrqEnterWrongMask ==
    /\ bound /\ hpc = "idle"
    /\ intcsr' = [dma |-> dmaLatch \/ icsr /= {}, local |-> icsr /= {}]
    /\ hpc' = CASE dmaLatch \/ icsr /= {} -> "dma"
               [] OTHER                  -> "ret"
    /\ UNCHANGED <<drvdata, cards, bound, probes, doubleFree, dmaLatch, done, icsr,
                   completions, advances, dstatus, lstatus, events, dmaDone, pending>>

(* Mutant of IrqEnter: the PCI local interrupt bit is never tested. *)
IrqEnterNoLocal ==
    /\ bound /\ hpc = "idle"
    /\ intcsr' = [dma |-> dmaLatch, local |-> FALSE]
    /\ hpc' = IF dmaLatch THEN "dma" ELSE "ret"
    /\ UNCHANGED <<drvdata, cards, bound, probes, doubleFree, dmaLatch, done, icsr,
                   completions, advances, dstatus, lstatus, events, dmaDone, pending>>

(* readl(PLX_INTCSR) *)
IrqEnter ==
    /\ bound /\ hpc = "idle"
    /\ intcsr' = [dma |-> dmaLatch, local |-> icsr /= {}]
    /\ hpc' = CASE dmaLatch     -> "dma"
               [] icsr /= {}     -> "local"
               [] OTHER          -> "ret"
    /\ UNCHANGED <<drvdata, cards, bound, probes, doubleFree, dmaLatch, done, icsr,
                   completions, advances, dstatus, lstatus, events, dmaDone, pending>>

(* readb(PLX_DMACSR0) *)
IrqDmaRead ==
    /\ hpc = "dma"
    /\ dstatus' = done
    /\ hpc' = "dmaclr"
    /\ UNCHANGED <<drvdata, cards, bound, probes, doubleFree, dmaLatch, done, icsr,
                   completions, advances, intcsr, lstatus, events, dmaDone, pending>>

(* writeb(ENABLE | CLINT) clears the DMA interrupt; mdma_advance; on      *)
(* channel done the buffer event and dma_done are set.                    *)
IrqDmaClear ==
    /\ hpc = "dmaclr"
    /\ dmaLatch' = FALSE
    /\ advances' = advances + 1
    /\ events' = IF dstatus THEN events \cup {"BUFFER"} ELSE events
    /\ dmaDone' = (dmaDone \/ dstatus)
    /\ hpc' = IF intcsr.local THEN "local" ELSE "ret"
    /\ UNCHANGED <<drvdata, cards, bound, probes, doubleFree, done, icsr,
                   completions, intcsr, dstatus, lstatus, pending>>

(* spin_lock(irq_lock); status = master_inl(ICSR) *)
IrqLocalRead ==
    /\ hpc = "local"
    /\ lstatus' = icsr
    /\ hpc' = "localwb"
    /\ UNCHANGED <<drvdata, cards, bound, probes, doubleFree, dmaLatch, done, icsr,
                   completions, advances, intcsr, dstatus, events, dmaDone, pending>>

(* Mutant of IrqLocalWrite: every status bit is written back, not only    *)
(* the ones read.                                                          *)
IrqLocalWriteAll ==
    /\ hpc = "localwb"
    /\ icsr' = {}
    /\ events' = events \cup {EventOf[b] : b \in lstatus}
    /\ pending' = pending \ lstatus
    /\ lstatus' = {}
    /\ hpc' = "ret"
    /\ UNCHANGED <<drvdata, cards, bound, probes, doubleFree, dmaLatch, done,
                   completions, advances, intcsr, dstatus, dmaDone>>

(* master_outl(ICSR, status) clears exactly the bits read; unlock; the    *)
(* FIFO and data events are set for the bits read.                        *)
IrqLocalWrite ==
    /\ hpc = "localwb"
    /\ icsr' = icsr \ lstatus
    /\ events' = events \cup {EventOf[b] : b \in lstatus}
    /\ pending' = pending \ lstatus
    /\ lstatus' = {}
    /\ hpc' = "ret"
    /\ UNCHANGED <<drvdata, cards, bound, probes, doubleFree, dmaLatch, done,
                   completions, advances, intcsr, dstatus, dmaDone>>

(* The flushing readb, wake_up, and IRQ_HANDLED or IRQ_NONE. *)
IrqReturn ==
    /\ hpc = "ret"
    /\ hpc' = "idle"
    /\ intcsr' = [dma |-> FALSE, local |-> FALSE]
    /\ dstatus' = FALSE
    /\ UNCHANGED <<drvdata, cards, bound, probes, doubleFree, dmaLatch, done, icsr,
                   completions, advances, lstatus, events, dmaDone, pending>>

(* A reader of the interface takes an event (test_and_clear_bit). *)
TakeEvent(e) ==
    /\ e \in events
    /\ events' = events \ {e}
    /\ UNCHANGED <<drvdata, cards, bound, probes, doubleFree, dmaLatch, done, icsr,
                   completions, advances, hpc, intcsr, dstatus, lstatus, dmaDone, pending>>

(* Nothing is left to do: every probe was made and the device is unbound. *)
Done ==
    /\ ~bound /\ probes = MaxProbes
    /\ UNCHANGED vars

Next ==
    \/ \E dev \in DeviceIds, ver \in Versions, fail \in Failures : Probe(dev, ver, fail)
    \/ Remove
    \/ DmaComplete
    \/ \E b \in IcsrBits : IcsrRaise(b)
    \/ IrqEnter \/ IrqDmaRead \/ IrqDmaClear \/ IrqLocalRead \/ IrqLocalWrite \/ IrqReturn
    \/ \E e \in events : TakeEvent(e)
    \/ Done

Spec == Init /\ [][Next]_vars

(* The bridge asserts its interrupt line while the DMA interrupt or a     *)
(* status bit of ICSR is latched.                                          *)
Asserted == dmaLatch \/ icsr /= {}

(* The line is level-triggered: while it is asserted the kernel keeps     *)
(* calling the handler, and a handler that started runs to its return.    *)
(* Nothing is assumed of the board, the reader or the probes and removes. *)
FairSpec ==
    /\ Spec
    /\ WF_vars(IrqEnter /\ Asserted)
    /\ WF_vars(IrqDmaRead) /\ WF_vars(IrqDmaClear) /\ WF_vars(IrqLocalRead)
    /\ WF_vars(IrqLocalWrite) /\ WF_vars(IrqReturn)

-----------------------------------------------------------------------------
(* Properties                                                              *)

(* The comment of line 76: a probe that fails never makes                 *)
(* dvbm_txu_pci_remove free a card again, also when the pdev still holds  *)
(* the card of an earlier probe that was removed.                         *)
NoStaleFree == ~doubleFree

(* Every card allocated and not freed belongs to the bound device: each   *)
(* error path after kzalloc goes through dvbm_txu_pci_remove.            *)
CardOwned == \A c \in Cards : cards[c].state = "live" => bound /\ drvdata = c

(* The write-back of ICSR loses no status bit: a bit the board raised    *)
(* whose event is not yet set is still latched in ICSR or in the          *)
(* handler's read, whenever the board raises it relative to the read and  *)
(* the write of the handler.                                              *)
IcsrEventNotLost == pending \subseteq icsr \cup lstatus

(* mdma_advance never runs ahead of the board: the handler advances the   *)
(* descriptor pointer at most once per descriptor completed.              *)
AdvanceNotAhead == advances <= completions

(* Every FIFO-underrun or data status bit the board latches in ICSR is     *)
(* eventually turned into its iface->events bit for the reader, unless     *)
(* the device is unbound first: the handler tests the local interrupt in   *)
(* INTCSR, and a bit it did not read stays latched and keeps the line up.  *)
IcsrEventDelivered ==
    \A b \in IcsrBits : b \in pending ~> (b \notin pending \/ ~bound)
=============================================================================
