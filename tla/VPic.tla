-------------------------------- MODULE VPic --------------------------------
(***************************************************************************)
(* The two cascaded virtual 8259 PICs of a VM (vpic.c) and the interrupt   *)
(* part of the vCPU's entry and exit path (vmx.c): devices raise lines on  *)
(* any CPU, the guest writes the PIC ports, and on every VM entry the vCPU *)
(* asks the PICs for an interrupt to inject.                               *)
(*                                                                         *)
(* Every vpic function is one step under vpic->lock.  irr, isr and imr are *)
(* sets of lines 0 .. 7; port values are bytes.  die_reason is called with *)
(* the lock held, so nothing happens on the vPIC after it.  sub_device_map *)
(* and sub_device_id are written but never used, and left out.             *)
(***************************************************************************)
EXTENDS Integers, FiniteSets, FiniteSetsExt

CONSTANTS
    Lines,        \* interrupt lines 0 .. 15 that devices raise
    CmdBytes,     \* values the guest writes to a command port (A0 = 0)
    DataBytes,    \* values the guest writes to a data port (A0 = 1)
    Restarts      \* how often the guest may start an init sequence

ASSUME VPicAssumption ==
    /\ Lines \subseteq 0 .. 15 /\ 2 \notin Lines     \* line 2 is the cascade
    /\ CmdBytes \subseteq 0 .. 255 /\ DataBytes \subseteq 0 .. 255
    /\ Restarts \in Nat

Chip == {1, 2}          \* vpic1 (master) and vpic2 (slave)
Cascade == 2
None == -1

Bits(byte) == {i \in 0 .. 7 : (byte \div 2^i) % 2 = 1}

VARIABLES
    pic,        \* per chip: its struct __vpic
    pc,         \* the vCPU: in the "guest", on "entry", between the two calls, or "dead"
    guest,      \* "running", or what the exit found: interrupts "open", "closed", or "halted"
    window,     \* interrupt-window exiting is set in the VMCS
    injected,   \* vector injected by the last VM entry, or None
    extint,     \* LINT0 of the guest's local APIC is unmasked and in ExtINT mode
    restarts    \* init sequences started

vars == <<pic, pc, guest, window, injected, extint, restarts>>

\* allocate_vpic, and reset_vlapic_state for LINT0 (masked); the guest boots with
\* IF clear.
Init ==
    /\ pic = [d \in Chip |-> [state |-> "UNINITIALIZED", imr |-> {}, irr |-> {}, isr |-> {},
                              offset |-> 0, read_mode |-> "IRR"]]
    /\ pc = "entry"
    /\ guest = "closed"
    /\ window = FALSE
    /\ injected = None
    /\ extint = FALSE
    /\ restarts = 0
-----------------------------------------------------------------------------
in_init_sequence(p) == p.state \notin {"UNINITIALIZED", "INITIALIZED"}

get_next_init_state(s) ==
    CASE s \in {"ICW2", "ICW3", "ICW4"} -> "INITIALIZED"
      [] s = "ICW2_ICW3" -> "ICW3"
      [] s \in {"ICW2_ICW4", "ICW3_ICW4"} -> "ICW4"
      [] s = "ICW2_ICW3_ICW4" -> "ICW3_ICW4"

get_init_state_from_icw1(icw1) ==
    LET ic4 == 0 \in Bits(icw1)
        sngl == 1 \in Bits(icw1)
    IN  CASE ~ic4 /\ sngl -> "ICW2"
          [] ic4 /\ ~sngl -> "ICW2_ICW3_ICW4"
          [] ~ic4 /\ ~sngl -> "ICW2_ICW3"
          [] ic4 /\ sngl -> "ICW2_ICW4"

\* Mutant: a new init sequence drops the pending requests.
StartInitClearsIrr(p, icw1) ==
    [p EXCEPT !.state = get_init_state_from_icw1(icw1), !.imr = {}, !.irr = {},
              !.read_mode = "IRR"]

\* irr and isr survive a new init sequence.
start_init_sequence(p, icw1) ==
    [p EXCEPT !.state = get_init_state_from_icw1(icw1), !.imr = {}, !.read_mode = "IRR"]

handle_init_step(p, val) ==
    [p EXCEPT !.offset = IF p.state \in {"ICW2", "ICW2_ICW3", "ICW2_ICW4", "ICW2_ICW3_ICW4"}
                         THEN val - (val % 8) ELSE @,
              !.state = get_next_init_state(@)]

ICW4_UNSUPPORTED(val) == Bits(val) \cap {1, 3, 4} # {}
OCW2_UNSUPPORTED(val) == 7 \in Bits(val) \/ 5 \notin Bits(val)
OCW3_UNSUPPORTED(val) == Bits(val) \cap {2, 5, 6} # {}

\* Non-specific EOI resets the highest-priority line in service; the specific
\* one the line in the two low bits of the command.
handle_ocw2_write(p, ocw2) ==
    [p EXCEPT !.isr = IF ocw2 \div 32 = 1
                      THEN (IF @ = {} THEN {} ELSE @ \ {Min(@)})
                      ELSE @ \ {ocw2 % 4}]

handle_ocw3_write(p, ocw3) ==
    [p EXCEPT !.read_mode = IF 1 \notin Bits(ocw3) THEN "NO_ACTION"
                            ELSE IF 0 \in Bits(ocw3) THEN "ISR" ELSE "IRR"]

\* The port writes that end in die_reason.
Unsupported(p, a0, val) ==
    IF a0 THEN p.state = "ICW4" /\ ICW4_UNSUPPORTED(val)
    ELSE /\ 4 \notin Bits(val) /\ ~in_init_sequence(p)
         /\ IF 3 \in Bits(val) THEN OCW3_UNSUPPORTED(val) ELSE OCW2_UNSUPPORTED(val)

\* vpic_write of a supported value.
vpic_write(p, a0, val) ==
    CASE ~a0 /\ 4 \in Bits(val) -> start_init_sequence(p, val)
      [] a0 /\ in_init_sequence(p) -> handle_init_step(p, val)
      [] a0 /\ ~in_init_sequence(p) -> [p EXCEPT !.imr = Bits(val)]
      [] ~a0 /\ 4 \notin Bits(val) ->
            IF in_init_sequence(p) THEN p          \* ignored
            ELSE IF 3 \in Bits(val) THEN handle_ocw3_write(p, val)
            ELSE handle_ocw2_write(p, val)
-----------------------------------------------------------------------------
vpic_get_priority(lines) == IF lines = {} THEN 8 ELSE Min(lines)

\* Mutant: a request is pending whatever is in service.
PendingIgnoresIsr(p) ==
    LET pending == vpic_get_priority(p.irr \ p.imr)
    IN  IF pending # 8 THEN pending ELSE None

__vpic_get_pending_irq(p) ==
    LET pending == vpic_get_priority(p.irr \ p.imr)
    IN  IF pending # 8 /\ pending < vpic_get_priority(p.isr) THEN pending ELSE None

irq1 == __vpic_get_pending_irq(pic[1])
irq2 == __vpic_get_pending_irq(pic[2])

\* Mutant: with both chips pending, only a quiet master lets the slave through.
FromSlaveOnly == irq2 # None /\ irq1 = None /\ vpic_get_priority(pic[1].isr) > Cascade

\* The slave's interrupt goes first, unless the master's matters more.
FromSlave == /\ irq2 # None
             /\ irq1 = None \/ irq1 > Cascade
             /\ vpic_get_priority(pic[1].isr) > Cascade
FromMaster == irq2 = None /\ irq1 # None

vpic_has_pending_irq == FromSlave \/ FromMaster

__vpic_ack(p, line) == [p EXCEPT !.irr = @ \ {line}, !.isr = @ \cup {line}]

\* vpic_raise_external_irq, on any CPU; no kick is sent.
Raise(line) ==
    LET d == IF line >= 8 THEN 2 ELSE 1
    IN  /\ pc # "dead"
        /\ pic[d].state = "INITIALIZED"
        /\ pic' = [pic EXCEPT ![d].irr = @ \cup {line % 8}]
        /\ UNCHANGED <<pc, guest, window, injected, extint, restarts>>

\* An exit that a guest instruction causes, and back to the entry path; whether
\* the guest takes interrupts then is up to the guest.
GuestExits ==
    /\ pc = "guest" /\ guest = "running"
    /\ guest' \in {"open", "closed"}
    /\ pc' = "entry"
    /\ injected' = None

\* An exit for a write to a PIC port.
ExitWrite(d, a0, val) ==
    LET restart == ~a0 /\ 4 \in Bits(val)
    IN  /\ GuestExits
        /\ ~Unsupported(pic[d], a0, val)
        /\ restart => restarts < Restarts
        /\ restarts' = IF restart THEN restarts + 1 ELSE restarts
        /\ pic' = [pic EXCEPT ![d] = vpic_write(@, a0, val)]
        /\ UNCHANGED <<window, extint>>

ExitUnsupported(d, a0, val) ==
    /\ pc = "guest" /\ guest = "running"
    /\ Unsupported(pic[d], a0, val)
    /\ pc' = "dead"
    /\ UNCHANGED <<pic, guest, window, injected, extint, restarts>>

\* An exit for a write to LVT LINT0 (guest_apic_register_write, not in src/).
ExitLint0 ==
    /\ GuestExits
    /\ extint' = ~extint
    /\ UNCHANGED <<pic, window, restarts>>

\* EXIT_REASON_INTR_WINDOW, which clears the control: the processor exits as
\* soon as the guest takes interrupts.
ExitWindow ==
    /\ pc = "guest" /\ window
    /\ window' = FALSE
    /\ guest' \in IF guest = "halted" THEN {"halted"} ELSE {"open", "halted"}
    /\ pc' = "entry"
    /\ injected' = None
    /\ UNCHANGED <<pic, extint, restarts>>

\* EXIT_REASON_EXT_INTR, and the exits that concern neither PIC nor local APIC.
\* HLT is not intercepted, and what is not injected wakes no halted guest.
ExitOther ==
    /\ pc = "guest"
    /\ guest' \in IF guest = "halted" THEN {"halted"} ELSE {"open", "closed", "halted"}
    /\ pc' = "entry"
    /\ injected' = None
    /\ UNCHANGED <<pic, window, extint, restarts>>

\* The local APIC stays enabled, as init_vlapic leaves it.
vlapic_accept_pic_irq == extint

\* What the entry path asks first; vcpu_has_external_irq (not in src/) is what
\* vlapic_accept_pic_irq says.
Deliverable == vlapic_accept_pic_irq /\ vpic_has_pending_irq

\* IF is set, the activity state is active, nothing blocks interrupts.
Interruptible == guest = "open"

EnterGuest ==
    /\ pc' = "guest"
    /\ guest' = IF guest = "halted" THEN "halted" ELSE "running"

\* Mutant: interrupt-window exiting is not requested.
EntryNoWindow ==
    /\ pc = "entry"
    /\ IF Deliverable /\ Interruptible THEN pc' = "checked" /\ UNCHANGED guest ELSE EnterGuest
    /\ UNCHANGED <<pic, window, injected, extint, restarts>>

\* vmx_external_irqs_entry_helper up to the call of vcpu_get_external_irq.
EntryCheck ==
    /\ pc = "entry"
    /\ IF Deliverable /\ Interruptible THEN pc' = "checked" /\ UNCHANGED guest ELSE EnterGuest
    /\ window' = (window \/ (Deliverable /\ ~Interruptible))
    /\ UNCHANGED <<pic, injected, extint, restarts>>

\* vcpu_get_external_irq (vpic_get_pending_irq), and the injection.
EntryInject ==
    /\ pc = "checked"
    /\ pic' = IF FromSlave THEN [pic EXCEPT ![1] = __vpic_ack(@, Cascade),
                                            ![2] = __vpic_ack(@, irq2)]
              ELSE IF FromMaster THEN [pic EXCEPT ![1] = __vpic_ack(@, irq1)]
              ELSE pic
    /\ injected' = (IF FromSlave THEN irq2 + pic[2].offset
                    ELSE IF FromMaster THEN irq1 + pic[1].offset ELSE -1) % 256
    /\ EnterGuest
    /\ UNCHANGED <<window, extint, restarts>>

Entry == EntryCheck \/ EntryInject

Next ==
    \/ \E line \in Lines : Raise(line)
    \/ \E d \in Chip, val \in CmdBytes : ExitWrite(d, FALSE, val) \/ ExitUnsupported(d, FALSE, val)
    \/ \E d \in Chip, val \in DataBytes : ExitWrite(d, TRUE, val) \/ ExitUnsupported(d, TRUE, val)
    \/ ExitLint0 \/ ExitWindow \/ ExitOther
    \/ Entry

\* The CPU goes through the entry path, and a guest whose interrupt window is
\* asked for does not keep interrupts disabled for ever.  Nothing makes a device
\* raise a line or the guest exit for another reason.
Spec == Init /\ [][Next]_vars /\ WF_vars(Entry) /\ SF_vars(ExitWindow)
-----------------------------------------------------------------------------
\* A request is never lost: it leaves irr only when its vector is injected, and
\* a line comes into service only by that, also across new init sequences.
RequestsKept ==
    [][\A d \in Chip, l \in 0 .. 7 :
          (l \in pic[d].irr /\ l \notin pic'[d].irr) \/ (l \notin pic[d].isr /\ l \in pic'[d].isr)
          => /\ pc = "checked"
             /\ injected' = pic[d].offset + l \/ (d = 1 /\ l = Cascade)]_vars

\* On each chip, interrupts nest by priority: a line goes into service only if
\* it is requested, not masked, and ahead of every line in service there.  The
\* cascade line goes into service on the master exactly when the slave delivers,
\* and never under a line of the master that matters more.
NestedByPriority ==
    [][LET served(d) == pic'[d].isr \ pic[d].isr IN
       /\ \A d \in Chip : \A l \in served(d) :
             /\ \A s \in pic[d].isr : l < s
             /\ (d = 1 /\ l = Cascade) \/ l \in pic[d].irr \ pic[d].imr
       /\ Cascade \in served(1) <=> served(2) # {}]_vars

\* An interrupt that an entry finds deliverable but the guest not ready for is
\* tried again: whatever exits come in between, the interrupt window brings the
\* vCPU back to inject one, unless none is deliverable by then.  A guest that has
\* halted is the exception: vmx_external_irqs_entry_helper turns every activity
\* state but active away, asks for the window at each entry and never injects.
TriedAgain ==
    (pc = "entry" /\ Deliverable) ~> (pc = "checked" \/ ~Deliverable \/ guest = "halted" \/ pc = "dead")

\* vpic.c, vpic_get_pending_irq: "Returns the pending IRQ number (or -1)".
\* With an interrupt of the master pending, there is one to return.
PendingIsReported == irq1 # None => vpic_has_pending_irq

\* What vpic_has_pending_irq announced is still there when the entry path
\* fetches it in a second lock section, so that -1 is not injected (as vector
\* 255); only a new request on line 0 or 1 of the master can take it away.
AnnouncedIsFetched == pc = "checked" => vpic_has_pending_irq \/ irq1 \in {0, 1}
=============================================================================
