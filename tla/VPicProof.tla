------------------------------ MODULE VPicProof ------------------------------
(***************************************************************************)
(* Proofs of the properties of VPic, for every set of lines that devices   *)
(* raise and every set of bytes that the guest writes to the ports.        *)
(***************************************************************************)
EXTENDS VPic, TLAPS

States == {"UNINITIALIZED", "INITIALIZED", "ICW2", "ICW3", "ICW4", "ICW2_ICW3",
           "ICW2_ICW4", "ICW3_ICW4", "ICW2_ICW3_ICW4"}

Bases == {o \in 0 .. 255 : o % 8 = 0}

Vpic == [state : States, imr : SUBSET (0 .. 7), irr : SUBSET (0 .. 7), isr : SUBSET (0 .. 7),
         offset : Bases, read_mode : {"IRR", "ISR", "NO_ACTION"}]

\* Vector bases are multiples of eight, and no device raises the line of the
\* master that the slave is wired to.
PicsOK ==
    /\ pic \in [Chip -> Vpic]
    /\ Cascade \notin pic[1].irr
    /\ pc \in {"guest", "entry", "checked", "dead"}

VPicInv == PicsOK /\ AnnouncedIsFetched
-----------------------------------------------------------------------------
\* vpic_get_priority finds the lowest line of a register, and 8 if there is none.
LEMMA Priority ==
    ASSUME NEW S, S \subseteq 0 .. 7
    PROVE  /\ S = {} => vpic_get_priority(S) = 8
           /\ S # {} => vpic_get_priority(S) \in S
           /\ \A x \in S : vpic_get_priority(S) <= x
<1>1. CASE S = {}
  BY <1>1, Zenon DEF vpic_get_priority
<1>2. CASE S # {}
  <2>1. \E x \in S : \A y \in S : x <= y
    <3>1. SUFFICES ASSUME \A x \in S : \E y \in S : y < x  PROVE FALSE
      BY SMT
    <3>2. 0 \notin S /\ 1 \notin S
      BY <3>1
    <3>3. 2 \notin S /\ 3 \notin S
      BY <3>1, <3>2
    <3>4. 4 \notin S /\ 5 \notin S
      BY <3>1, <3>2, <3>3
    <3>5. 6 \notin S /\ 7 \notin S
      BY <3>1, <3>2, <3>3, <3>4
    <3>6. PICK x \in S : TRUE
      BY <1>2, Zenon
    <3>7. x \in 0 .. 7
      BY <3>6, Zenon
    <3>. QED  BY <3>2, <3>3, <3>4, <3>5, <3>6, <3>7
  <2>2. Min(S) \in S /\ \A y \in S : Min(S) <= y
    BY <2>1, Zenon DEF Min
  <2>. QED  BY <2>2, <1>2, Zenon DEF vpic_get_priority
<1>. QED  BY <1>1, <1>2, Zenon

\* __vpic_get_pending_irq reports the lowest unmasked request, and only if it is
\* ahead of every line in service.
LEMMA Pending ==
    ASSUME NEW p \in Vpic
    PROVE  LET q == __vpic_get_pending_irq(p) IN
           \/ /\ q \in p.irr \ p.imr
              /\ \A x \in p.irr \ p.imr : q <= x
              /\ \A x \in p.isr : q < x
              /\ q < vpic_get_priority(p.isr)
           \/ /\ q = None
              /\ \A x \in p.irr \ p.imr : vpic_get_priority(p.isr) <= x
<1> DEFINE w == p.irr \ p.imr
<1>1. w \subseteq 0 .. 7 /\ p.isr \subseteq 0 .. 7
  BY Zenon DEF Vpic
<1>2. vpic_get_priority(w) \in 0 .. 8 /\ vpic_get_priority(p.isr) \in 0 .. 8
  BY <1>1, Priority
<1>3. /\ w = {} => vpic_get_priority(w) = 8
      /\ w # {} => vpic_get_priority(w) \in w
      /\ \A x \in w : vpic_get_priority(w) <= x
  BY <1>1, Priority, Zenon
<1>4. \A x \in p.isr : vpic_get_priority(p.isr) <= x
  BY <1>1, Priority, Zenon
<1>5. __vpic_get_pending_irq(p) =
        IF vpic_get_priority(w) # 8 /\ vpic_get_priority(w) < vpic_get_priority(p.isr)
        THEN vpic_get_priority(w) ELSE None
  BY Zenon DEF __vpic_get_pending_irq
<1> HIDE DEF w
<1>6. QED
  <2>1. CASE vpic_get_priority(w) # 8 /\ vpic_get_priority(w) < vpic_get_priority(p.isr)
    BY <2>1, <1>1, <1>2, <1>3, <1>4, <1>5 DEF w
  <2>2. CASE ~(vpic_get_priority(w) # 8 /\ vpic_get_priority(w) < vpic_get_priority(p.isr))
    BY <2>2, <1>1, <1>2, <1>3, <1>4, <1>5 DEF w
  <2>. QED  BY <2>1, <2>2, Zenon
-----------------------------------------------------------------------------
\* A port write keeps a chip well-formed, leaves its requests alone and takes
\* lines out of service only.
LEMMA Write ==
    ASSUME NEW p \in Vpic, NEW a0, NEW val \in 0 .. 255
    PROVE  /\ vpic_write(p, a0, val) \in Vpic
           /\ vpic_write(p, a0, val).irr = p.irr
           /\ vpic_write(p, a0, val).isr \subseteq p.isr
<1>1. Bits(val) \subseteq 0 .. 7
  BY Zenon DEF Bits
<1>2. CASE ~a0 /\ 4 \in Bits(val)
  <2>1. get_init_state_from_icw1(val) \in States
    BY Zenon DEF get_init_state_from_icw1, States
  <2>2. vpic_write(p, a0, val) = start_init_sequence(p, val)
    BY <1>2, Zenon DEF vpic_write
  <2>. QED  BY <2>1, <2>2, Zenon DEF start_init_sequence, Vpic
<1>3. CASE a0 /\ in_init_sequence(p)
  <2>1. get_next_init_state(p.state) \in States
    BY <1>3, Zenon DEF get_next_init_state, in_init_sequence, States, Vpic
  <2>2. val - (val % 8) \in Bases
    BY DEF Bases
  <2>3. PICK o \in Bases :
          vpic_write(p, a0, val) = [p EXCEPT !.offset = o, !.state = get_next_init_state(p.state)]
    BY <1>3, <2>2, Zenon DEF vpic_write, handle_init_step, Vpic
  <2>. QED  BY <2>1, <2>3, Zenon DEF Vpic
<1>4. CASE a0 /\ ~in_init_sequence(p)
  <2>1. vpic_write(p, a0, val) = [p EXCEPT !.imr = Bits(val)]
    BY <1>4, Zenon DEF vpic_write
  <2>. QED  BY <1>1, <2>1 DEF Vpic
<1>5. CASE ~a0 /\ 4 \notin Bits(val)
  <2>1. \/ vpic_write(p, a0, val) = p
        \/ vpic_write(p, a0, val) = handle_ocw3_write(p, val)
        \/ vpic_write(p, a0, val) = handle_ocw2_write(p, val)
    BY <1>5, Zenon DEF vpic_write
  <2>2. /\ handle_ocw3_write(p, val) \in Vpic
        /\ handle_ocw3_write(p, val).irr = p.irr /\ handle_ocw3_write(p, val).isr = p.isr
    BY Zenon DEF handle_ocw3_write, Vpic
  <2>3. /\ handle_ocw2_write(p, val) \in Vpic
        /\ handle_ocw2_write(p, val).irr = p.irr /\ handle_ocw2_write(p, val).isr \subseteq p.isr
    BY Zenon DEF handle_ocw2_write, Vpic
  <2>. QED  BY <2>1, <2>2, <2>3, Zenon
<1>. QED  BY <1>2, <1>3, <1>4, <1>5, Zenon
-----------------------------------------------------------------------------
\* The fetch of an interrupt (vpic_get_pending_irq) puts one line of one chip in
\* service, and the cascade line of the master along with one of the slave.
Fetched(d, l) ==
    /\ l \in pic[d].irr \ pic[d].imr
    /\ \A s \in pic[d].isr : l < s
    /\ pic'[d] = __vpic_ack(pic[d], l)
    /\ injected' = pic[d].offset + l

\* What EntryInject does, in the terms of the lines it moves.
LEMMA InjectStep ==
    ASSUME PicsOK, EntryInject
    PROVE  /\ PicsOK'
           /\ \/ pic' = pic
              \/ \E l \in 0 .. 7 : /\ Fetched(2, l)
                                   /\ pic'[1] = __vpic_ack(pic[1], Cascade)
                                   /\ \A s \in pic[1].isr : Cascade < s
              \/ \E l \in 0 .. 7 : Fetched(1, l) /\ l # Cascade /\ pic'[2] = pic[2]
<1>1. pic[1] \in Vpic /\ pic[2] \in Vpic /\ 1 \in Chip /\ 2 \in Chip
  BY Zenon DEF PicsOK, Chip
<1>2. ASSUME NEW d \in Chip, NEW l \in 0 .. 7
      PROVE  __vpic_ack(pic[d], l) \in Vpic /\ (l + pic[d].offset) % 256 = pic[d].offset + l
  <2>1. pic[d] \in Vpic
    BY Zenon DEF PicsOK
  <2>2. __vpic_ack(pic[d], l) \in Vpic
    BY <2>1, Zenon DEF __vpic_ack, Vpic
  <2>3. \A o \in Bases : (l + o) % 256 = o + l
    BY DEF Bases
  <2>. QED  BY <2>1, <2>2, <2>3, Zenon DEF Vpic
<1>3. /\ \A d \in Chip : pic[d].irr \subseteq 0 .. 7 /\ pic[d].isr \subseteq 0 .. 7
      /\ None \notin 0 .. 7
      /\ Cascade \in 0 .. 7
  BY DEF Vpic, PicsOK, None, Cascade
<1>4. CASE FromSlave
  <2>1. /\ irq2 \in pic[2].irr \ pic[2].imr
        /\ \A x \in pic[2].isr : irq2 < x
    BY <1>1, <1>3, <1>4, Pending, Zenon DEF FromSlave, irq2
  <2>2. \A x \in pic[1].isr : Cascade < x
    BY <1>3, <1>4, Priority, <1>1 DEF FromSlave, Cascade
  <2>3. /\ pic' = [pic EXCEPT ![1] = __vpic_ack(@, Cascade), ![2] = __vpic_ack(@, irq2)]
        /\ injected' = (irq2 + pic[2].offset) % 256
        /\ pc' = "guest"
    BY <1>4, Zenon DEF EntryInject, EnterGuest
  <2>4. irq2 \in 0 .. 7
    BY <2>1, <1>3, <1>1, Zenon
  <2>5. /\ pic'[1] = __vpic_ack(pic[1], Cascade) /\ pic'[2] = __vpic_ack(pic[2], irq2)
        /\ pic' \in [Chip -> Vpic]
    BY <2>3, <2>4, <1>1, <1>2, <1>3 DEF PicsOK, Chip
  <2>6. Cascade \notin pic'[1].irr
    BY <2>5, <1>1 DEF __vpic_ack, Vpic, PicsOK
  <2>7. Fetched(2, irq2)
    BY <2>1, <2>3, <2>4, <2>5, <1>1, <1>2, Zenon DEF Fetched
  <2>. QED  BY <2>2, <2>3, <2>4, <2>5, <2>6, <2>7, Zenon DEF PicsOK
<1>5. CASE ~FromSlave /\ FromMaster
  <2>1. /\ irq1 \in pic[1].irr \ pic[1].imr
        /\ \A x \in pic[1].isr : irq1 < x
    BY <1>1, <1>3, <1>5, Pending, Zenon DEF FromMaster, irq1
  <2>2. irq1 # Cascade
    BY <2>1, Zenon DEF PicsOK
  <2>3. /\ pic' = [pic EXCEPT ![1] = __vpic_ack(@, irq1)]
        /\ injected' = (irq1 + pic[1].offset) % 256
        /\ pc' = "guest"
    BY <1>5, Zenon DEF EntryInject, EnterGuest
  <2>4. irq1 \in 0 .. 7
    BY <2>1, <1>3, <1>1, Zenon
  <2>5. /\ pic'[1] = __vpic_ack(pic[1], irq1) /\ pic'[2] = pic[2]
        /\ pic' \in [Chip -> Vpic]
    BY <2>3, <2>4, <1>1, <1>2, <1>3 DEF PicsOK, Chip
  <2>6. Cascade \notin pic'[1].irr
    BY <2>5, <1>1 DEF __vpic_ack, Vpic, PicsOK
  <2>7. Fetched(1, irq1)
    BY <2>1, <2>3, <2>4, <2>5, <1>1, <1>2 DEF Fetched
  <2>. QED  BY <2>2, <2>3, <2>4, <2>5, <2>6, <2>7, Zenon DEF PicsOK
<1>6. CASE ~FromSlave /\ ~FromMaster
  BY <1>6, Zenon DEF EntryInject, EnterGuest, PicsOK
<1>. QED  BY <1>4, <1>5, <1>6, Zenon

\* No other step takes a request away or puts a line in service.
LEMMA OtherStep ==
    ASSUME VPicAssumption, PicsOK, [Next]_vars, ~EntryInject
    PROVE  /\ PicsOK'
           /\ \A d \in Chip : pic[d].irr \subseteq pic'[d].irr /\ pic'[d].isr \subseteq pic[d].isr
<1>1. CASE UNCHANGED pic /\ pc' \in {"guest", "entry", "checked", "dead"}
  BY <1>1, Zenon DEF PicsOK
<1>2. ASSUME NEW line \in Lines, Raise(line)
      PROVE  /\ PicsOK'
             /\ \A d \in Chip : pic[d].irr \subseteq pic'[d].irr /\ pic'[d].isr \subseteq pic[d].isr
  <2> DEFINE c == IF line >= 8 THEN 2 ELSE 1
  <2>1. /\ c \in Chip /\ line % 8 \in 0 .. 7
        /\ c = 1 => line % 8 # Cascade
    BY VPicAssumption DEF VPicAssumption, Chip, Cascade
  <2>2. pic' = [pic EXCEPT ![c].irr = @ \cup {line % 8}] /\ pc' = pc
    BY <1>2, Zenon DEF Raise
  <2> HIDE DEF c
  <2>3. pic' \in [Chip -> Vpic]
    BY <2>1, <2>2 DEF PicsOK, Vpic
  <2>4. \A d \in Chip : pic[d].irr \subseteq pic'[d].irr /\ pic'[d].isr \subseteq pic[d].isr
    BY <2>1, <2>2 DEF PicsOK, Vpic
  <2>5. Cascade \notin pic'[1].irr
    BY <2>1, <2>2 DEF PicsOK, Vpic, Chip
  <2>. QED  BY <2>2, <2>3, <2>4, <2>5, Zenon DEF PicsOK
<1>3. ASSUME NEW c \in Chip, NEW a0, NEW val \in 0 .. 255, ExitWrite(c, a0, val)
      PROVE  /\ PicsOK'
             /\ \A d \in Chip : pic[d].irr \subseteq pic'[d].irr /\ pic'[d].isr \subseteq pic[d].isr
  <2>1. /\ vpic_write(pic[c], a0, val) \in Vpic
        /\ vpic_write(pic[c], a0, val).irr = pic[c].irr
        /\ vpic_write(pic[c], a0, val).isr \subseteq pic[c].isr
    <3>1. pic[c] \in Vpic
      BY Zenon DEF PicsOK
    <3>. QED  BY <3>1, Write, Zenon
  <2>2. pic' = [pic EXCEPT ![c] = vpic_write(pic[c], a0, val)] /\ pc' = "entry"
    BY <1>3, Zenon DEF ExitWrite, GuestExits
  <2>3. pic' \in [Chip -> Vpic]
    BY <2>1, <2>2, Zenon DEF PicsOK
  <2>4. \A d \in Chip : pic[d].irr = pic'[d].irr /\ pic'[d].isr \subseteq pic[d].isr
    BY <2>1, <2>2, Zenon DEF PicsOK
  <2>. QED  BY <2>2, <2>3, <2>4 DEF PicsOK, Chip
<1>4. ASSUME NEW c \in Chip, NEW a0, NEW val \in 0 .. 255, ExitUnsupported(c, a0, val)
      PROVE  UNCHANGED pic /\ pc' \in {"guest", "entry", "checked", "dead"}
  BY <1>4, Zenon DEF ExitUnsupported
<1>5. CASE ExitLint0
  BY <1>5, <1>1, Zenon DEF ExitLint0, GuestExits
<1>6. CASE ExitWindow \/ ExitOther
  BY <1>6, <1>1, Zenon DEF ExitWindow, ExitOther
<1>7. CASE EntryCheck
  BY <1>7, <1>1, Zenon DEF EntryCheck, EnterGuest
<1>8. CASE UNCHANGED vars
  BY <1>8, <1>1, Zenon DEF vars, PicsOK
<1>9. CmdBytes \subseteq 0 .. 255 /\ DataBytes \subseteq 0 .. 255
  BY VPicAssumption, Zenon DEF VPicAssumption
<1>10. CASE \E d \in Chip, val \in CmdBytes : ExitWrite(d, FALSE, val) \/ ExitUnsupported(d, FALSE, val)
  <2>1. PICK d \in Chip, val \in CmdBytes : ExitWrite(d, FALSE, val) \/ ExitUnsupported(d, FALSE, val)
    BY <1>10, Zenon
  <2>2. val \in 0 .. 255
    BY <1>9
  <2>3. CASE ExitWrite(d, FALSE, val)
    BY <1>3, <2>2, <2>3, Zenon
  <2>4. CASE ExitUnsupported(d, FALSE, val)
    BY <1>1, <1>4, <2>2, <2>4
  <2>. QED  BY <2>1, <2>3, <2>4, Zenon
<1>11. CASE \E d \in Chip, val \in DataBytes : ExitWrite(d, TRUE, val) \/ ExitUnsupported(d, TRUE, val)
  <2>1. PICK d \in Chip, val \in DataBytes : ExitWrite(d, TRUE, val) \/ ExitUnsupported(d, TRUE, val)
    BY <1>11, Zenon
  <2>2. val \in 0 .. 255
    BY <1>9
  <2>3. CASE ExitWrite(d, TRUE, val)
    BY <1>3, <2>2, <2>3, Zenon
  <2>4. CASE ExitUnsupported(d, TRUE, val)
    BY <1>1, <1>4, <2>2, <2>4
  <2>. QED  BY <2>1, <2>3, <2>4, Zenon
<1>. QED  BY <1>2, <1>5, <1>6, <1>7, <1>8, <1>10, <1>11, Zenon DEF Next, Entry
-----------------------------------------------------------------------------
\* A new request on a chip does not take its pending interrupt away, and can only
\* put a more important one in its place.
LEMMA MoreRequests ==
    ASSUME NEW p \in Vpic, NEW q \in Vpic,
           p.irr \subseteq q.irr, q.imr = p.imr, q.isr = p.isr,
           __vpic_get_pending_irq(p) # None
    PROVE  /\ __vpic_get_pending_irq(q) \in 0 .. 7
           /\ __vpic_get_pending_irq(q) <= __vpic_get_pending_irq(p)
<1> DEFINE a == __vpic_get_pending_irq(p)
           b == __vpic_get_pending_irq(q)
           top == vpic_get_priority(p.isr)
<1>1. /\ p.isr \subseteq 0 .. 7 /\ p.irr \subseteq 0 .. 7 /\ q.irr \subseteq 0 .. 7
  BY Zenon DEF Vpic
<1>2. top \in 0 .. 8
  BY <1>1, Priority
<1>3. a \in p.irr \ p.imr /\ a < top
  BY Pending, Zenon
<1>4. \/ b \in q.irr \ q.imr /\ \A x \in q.irr \ q.imr : b <= x
      \/ \A x \in q.irr \ q.imr : top <= x
  BY Pending, Zenon
<1>5. a \in q.irr \ q.imr
  BY <1>3, Zenon
<1> HIDE DEF a, b, top
<1>6. b \in 0 .. 7 /\ b <= a
  BY <1>1, <1>2, <1>3, <1>4, <1>5
<1>. QED  BY <1>6, Zenon DEF a, b

\* While the vCPU is between its two calls, a request raised on another CPU
\* leaves an interrupt to fetch, except for one on line 0 or 1 of the master.
LEMMA RaiseKeepsAnnounced ==
    ASSUME VPicAssumption, VPicInv, NEW line \in Lines, Raise(line), PicsOK'
    PROVE  AnnouncedIsFetched'
<1> DEFINE c == IF line >= 8 THEN 2 ELSE 1
<1>1. SUFFICES ASSUME pc' = "checked"
               PROVE  (vpic_has_pending_irq \/ irq1 \in {0, 1})'
  BY Zenon DEF AnnouncedIsFetched
<1>2. vpic_has_pending_irq \/ irq1 \in {0, 1}
  BY <1>1, Zenon DEF VPicInv, AnnouncedIsFetched, Raise
<1>3. c \in Chip /\ pic' = [pic EXCEPT ![c].irr = @ \cup {line % 8}]
  BY Zenon DEF Raise, Chip
<1> HIDE DEF c
<1>4. /\ pic[1] \in Vpic /\ pic[2] \in Vpic /\ pic'[1] \in Vpic /\ pic'[2] \in Vpic
      /\ Cascade \notin pic'[1].irr
  BY Zenon DEF VPicInv, PicsOK, Chip
<1>5. \A d \in Chip : /\ pic[d].irr \subseteq pic'[d].irr
                      /\ pic'[d].imr = pic[d].imr /\ pic'[d].isr = pic[d].isr
  BY <1>3, <1>4 DEF VPicInv, PicsOK, Vpic
<1>6. \/ pic'[1] = pic[1]
      \/ pic'[2] = pic[2]
  BY <1>3, <1>4 DEF VPicInv, PicsOK, Chip
<1>7. irq1 # None => irq1' \in 0 .. 7 /\ irq1' <= irq1
  BY <1>4, <1>5, MoreRequests, 1 \in Chip, Zenon DEF irq1, Chip
<1>8. irq2 # None => irq2' \in 0 .. 7
  BY <1>4, <1>5, MoreRequests, 2 \in Chip DEF irq2, Chip
<1>9. None \notin 0 .. 7 /\ Cascade = 2
  BY DEF None, Cascade
<1>10. vpic_get_priority(pic[1].isr) \in 0 .. 8
  BY <1>4, Priority DEF Vpic
<1>11. /\ irq1 = None \/ (irq1 \in 0 .. 7 /\ irq1 < vpic_get_priority(pic[1].isr))
       /\ irq1' = None \/ (irq1' \in 0 .. 7 /\ irq1' # Cascade)
  <2>1. irq1 = None \/ (irq1 \in pic[1].irr /\ irq1 < vpic_get_priority(pic[1].isr))
    BY <1>4, Pending, Zenon DEF irq1
  <2>2. irq1' = None \/ irq1' \in pic'[1].irr
    BY <1>4, Pending, Zenon DEF irq1
  <2>. QED  BY <2>1, <2>2, <1>4 DEF Vpic
<1>12. vpic_get_priority(pic'[1].isr) = vpic_get_priority(pic[1].isr)
  BY <1>5, Zenon DEF Chip
<1>13. CASE irq1 \in {0, 1}
  BY <1>7, <1>9, <1>13
<1>14. CASE FromSlave /\ irq1' \notin {0, 1}
  <2>1. FromSlave'
    BY <1>8, <1>9, <1>11, <1>12, <1>14 DEF FromSlave
  <2>. QED  BY <2>1, Zenon DEF vpic_has_pending_irq
<1>15. CASE FromMaster /\ irq1 \notin {0, 1} /\ irq1' \notin {0, 1}
  <2>1. CASE irq2' = None
    BY <2>1, <1>7, <1>9, <1>15 DEF FromMaster, vpic_has_pending_irq
  <2>2. CASE irq2' # None
    <3>1. irq1' = irq1
      BY <1>6, <2>2, <1>15, Zenon DEF irq1, irq2, FromMaster
    <3>2. irq1 > Cascade /\ vpic_get_priority(pic[1].isr) > Cascade
      BY <3>1, <1>9, <1>10, <1>11, <1>15 DEF FromMaster
    <3>. QED  BY <3>1, <3>2, <2>2, <1>12, Zenon DEF FromSlave, vpic_has_pending_irq
  <2>. QED  BY <2>1, <2>2, Zenon
<1>. QED  BY <1>2, <1>13, <1>14, <1>15, Zenon DEF vpic_has_pending_irq

\* The invariant holds at first and is preserved by every step.
LEMMA VPicInvariance == Spec => []VPicInv
<1>1. Init => VPicInv
  BY DEF Init, VPicInv, PicsOK, Vpic, States, Bases, Chip, AnnouncedIsFetched
<1>2. ASSUME VPicAssumption, VPicInv, [Next]_vars  PROVE VPicInv'
  <2>1. PicsOK /\ AnnouncedIsFetched
    BY <1>2, Zenon DEF VPicInv
  <2>2. PicsOK'
    BY <1>2, <2>1, InjectStep, OtherStep, Zenon
  <2>3. AnnouncedIsFetched'
    <3>1. ASSUME NEW line \in Lines, Raise(line)  PROVE AnnouncedIsFetched'
      BY <1>2, <2>2, <3>1, RaiseKeepsAnnounced, Zenon
    <3>2. CASE UNCHANGED <<pic, pc>>
      BY <2>1, <3>2, Zenon DEF AnnouncedIsFetched, vpic_has_pending_irq, FromSlave, FromMaster, irq1, irq2
    <3>3. CASE pc' # "checked"
      BY <3>3, Zenon DEF AnnouncedIsFetched
    <3>4. CASE EntryCheck /\ pc' = "checked"
      <4>1. vpic_has_pending_irq /\ pic' = pic
        BY <3>4, Zenon DEF EntryCheck, EnterGuest, Deliverable
      <4>. QED  BY <4>1, Zenon DEF AnnouncedIsFetched, vpic_has_pending_irq, FromSlave, FromMaster,
                                  irq1, irq2
    <3>5. ASSUME NEW d, NEW a0, NEW val, ExitWrite(d, a0, val) \/ ExitUnsupported(d, a0, val)
          PROVE  pc' # "checked"
      BY <3>5, Zenon DEF ExitWrite, ExitUnsupported, GuestExits
    <3>6. CASE ExitLint0 \/ ExitWindow \/ ExitOther \/ EntryInject
      BY <3>3, <3>6, Zenon DEF ExitLint0, GuestExits, ExitWindow, ExitOther, EntryInject, EnterGuest
    <3>7. CASE UNCHANGED vars
      BY <3>2, <3>7, Zenon DEF vars
    <3>. QED  BY <1>2, <3>1, <3>3, <3>4, <3>5, <3>6, <3>7, Zenon DEF Next, Entry
  <2>. QED  BY <2>2, <2>3, Zenon DEF VPicInv
<1>. QED  BY <1>1, <1>2, VPicAssumption, PTL DEF Spec

\* The vCPU never asks for an interrupt that has gone since it was announced
\* (vmx_external_irqs_entry_helper), unless line 0 or 1 of the master came in.
THEOREM AnnouncementsHold == Spec => []AnnouncedIsFetched
<1>1. VPicInv => AnnouncedIsFetched
  BY Zenon DEF VPicInv
<1>. QED  BY <1>1, VPicInvariance, PTL

\* No request is dropped and none is served without its vector being injected,
\* whatever the guest writes to the ports and whenever the devices raise lines.
THEOREM NoRequestIsLost == Spec => RequestsKept
<1> DEFINE Kept(d, l) ==
             (l \in pic[d].irr /\ l \notin pic'[d].irr) \/ (l \notin pic[d].isr /\ l \in pic'[d].isr)
             => /\ pc = "checked"
                /\ injected' = pic[d].offset + l \/ (d = 1 /\ l = Cascade)
<1>1. ASSUME VPicAssumption, VPicInv, [Next]_vars, NEW d \in Chip, NEW l \in 0 .. 7
      PROVE  Kept(d, l)
  <2>1. PicsOK /\ pic[1] \in Vpic /\ pic[2] \in Vpic /\ (d = 1 \/ d = 2)
    BY <1>1, Zenon DEF VPicInv, PicsOK, Chip
  <2>2. CASE ~EntryInject
    BY <1>1, <2>1, <2>2, OtherStep, Zenon
  <2>3. CASE EntryInject
    <3>1. pc = "checked"
      BY <2>3, Zenon DEF EntryInject, EnterGuest
    <3>2. CASE pic' = pic
      BY <3>2, Zenon
    <3>3. ASSUME NEW k \in 0 .. 7, Fetched(2, k), pic'[1] = __vpic_ack(pic[1], Cascade)
          PROVE  Kept(d, l)
      <4>1. /\ injected' = pic[2].offset + k
            /\ pic'[2].irr = pic[2].irr \ {k} /\ pic'[2].isr = pic[2].isr \cup {k}
        BY <2>1, <3>3, Zenon DEF Fetched, __vpic_ack, Vpic
      <4>2. pic'[1].irr = pic[1].irr \ {Cascade} /\ pic'[1].isr = pic[1].isr \cup {Cascade}
        BY <2>1, <3>3, Zenon DEF __vpic_ack, Vpic
      <4>. QED  BY <3>1, <4>1, <4>2, <2>1, Zenon
    <3>4. ASSUME NEW k \in 0 .. 7, Fetched(1, k), pic'[2] = pic[2]
          PROVE  Kept(d, l)
      <4>1. /\ injected' = pic[1].offset + k
            /\ pic'[1].irr = pic[1].irr \ {k} /\ pic'[1].isr = pic[1].isr \cup {k}
        BY <2>1, <3>4, Zenon DEF Fetched, __vpic_ack, Vpic
      <4>2. CASE d = 1
        BY <3>1, <4>1, <4>2, Zenon
      <4>3. CASE d = 2
        BY <3>4, <4>3, Zenon
      <4>. QED  BY <2>1, <4>2, <4>3, Zenon
    <3>. QED  BY <2>1, <2>3, <3>2, <3>3, <3>4, InjectStep, Zenon
  <2>. QED  BY <2>2, <2>3, Zenon
<1>2. VPicAssumption /\ VPicInv /\ [Next]_vars
      => [\A d \in Chip, l \in 0 .. 7 : Kept(d, l)]_vars
  BY <1>1, Zenon
<1>. QED  BY <1>2, VPicInvariance, VPicAssumption, PTL DEF Spec, RequestsKept

\* On both chips, interrupts nest by priority, and the cascade line is in
\* service for the slave's interrupts and for nothing else.
THEOREM InterruptsNest == Spec => NestedByPriority
<1> DEFINE served(d) == pic'[d].isr \ pic[d].isr
           Nested == /\ \A d \in Chip : \A l \in served(d) :
                           /\ \A s \in pic[d].isr : l < s
                           /\ (d = 1 /\ l = Cascade) \/ l \in pic[d].irr \ pic[d].imr
                     /\ Cascade \in served(1) <=> served(2) # {}
<1>1. ASSUME VPicAssumption, VPicInv, [Next]_vars  PROVE Nested
  <2>1. PicsOK /\ pic[1] \in Vpic /\ pic[2] \in Vpic
    BY <1>1, Zenon DEF VPicInv, PicsOK, Chip
  <2>2. CASE served(1) = {} /\ served(2) = {}
    BY <2>2, Zenon DEF Chip
  <2>3. CASE ~EntryInject
    BY <1>1, <2>1, <2>2, <2>3, OtherStep, Zenon DEF Chip
  <2>4. CASE EntryInject
    <3>1. CASE pic' = pic
      BY <2>2, <3>1, Zenon
    <3>2. ASSUME NEW k \in 0 .. 7, Fetched(2, k), pic'[1] = __vpic_ack(pic[1], Cascade),
                 \A s \in pic[1].isr : Cascade < s
          PROVE  Nested
      <4>1. served(2) = {k} /\ served(1) = {Cascade}
        BY <2>1, <3>2 DEF Fetched, __vpic_ack, Vpic, Cascade
      <4>. QED  BY <4>1, <3>2 DEF Fetched, Chip
    <3>3. ASSUME NEW k \in 0 .. 7, Fetched(1, k), k # Cascade, pic'[2] = pic[2]
          PROVE  Nested
      <4>1. served(1) = {k} /\ served(2) = {}
        BY <2>1, <3>3 DEF Fetched, __vpic_ack, Vpic, Cascade
      <4>. QED  BY <4>1, <3>3, Zenon DEF Fetched, Chip
    <3>. QED  BY <2>1, <2>4, <3>1, <3>2, <3>3, InjectStep, Zenon
  <2>. QED  BY <2>3, <2>4, Zenon
<1>2. VPicAssumption /\ VPicInv /\ [Next]_vars => [Nested]_vars
  BY <1>1, Zenon
<1>. QED  BY <1>2, VPicInvariance, VPicAssumption, PTL DEF Spec, NestedByPriority
=============================================================================
