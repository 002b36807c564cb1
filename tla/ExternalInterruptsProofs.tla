---------------------- MODULE ExternalInterruptsProofs ----------------------
(***************************************************************************)
(* Proofs about ExternalInterrupts, for any number of harts and resets, any *)
(* trigger levels and thresholds, and any order of the devices on the bus.  *)
(***************************************************************************)
EXTENDS ExternalInterrupts, TLAPS

(* A hart's handler works for a context whose bit is set; a claim a reset   *)
(* left behind has none.                                                    *)
HandlerInv ==
  \A h \in Harts : guest[h].pc # "main" => <<h, guest[h].mode>> \in eip

OrphansInv == orphaned \cap eip = {}

ClaimInv == ClaimsAreAnnounced /\ HandlerInv /\ OrphansInv

(* The rules the guest keeps for priorities and enable bits.                *)
RulesInv ==
  /\ priority[Uart] = priority[Blk]
  /\ \A c \in Contexts : enable[c] \in {{}, Devices}

(* A scan works for a context without a claim; once it has a device to      *)
(* claim, every device would be claimed, so it is the last pending one.     *)
LastPending(h) ==
  scan[h].claim # None =>
    /\ scan[h].claim = scan[h].source
    /\ scan[h].priority = priority[Uart]
    /\ enable[Context(h)] = Devices

ScanInv ==
  \A h \in Harts :
    /\ scan[h].at # 0
    /\ scan[h].stage # "off" => scan[h].mode \in Modes
    /\ IF scan[h].stage = "visit" THEN claim[Context(h)] = None
       ELSE scan[h].claim = None
    /\ LastPending(h)

IInv == ExtTypeOK /\ ClaimInv /\ RulesInv /\ ScanInv

-----------------------------------------------------------------------------

(* Every step keeps the types.                                              *)
LEMMA Typing ==
  ASSUME IInv, [Next]_vars
  PROVE  ExtTypeOK'
<1> USE DEF IInv, ExtTypeOK, vars, uartVars, plicVars, blkVars, boundVars
<1>1. ASSUME NEW h \in Harts, NEW mode \in Modes,
             PollBegin(h, mode)
      PROVE  ExtTypeOK'
  <2>1. scan' \in [Harts -> Scans]
    BY CoreAssumption, <1>1 DEF PollBegin, Off, Scans
  <2>2. QED
    BY <2>1, <1>1 DEF PollBegin
<1>2. ASSUME NEW h \in Harts, recv_byte(h)
      PROVE  ExtTypeOK'
  <2>1. fifo' \in 0 .. BufferSize /\ received' \in Nat
    BY BoundAssumption, <1>2 DEF recv_byte, Full
  <2>2. flag' \in [Devices -> BOOLEAN]
    BY <1>2 DEF recv_byte, Devices
  <2>3. ready' \in BOOLEAN /\ announced' \in BOOLEAN
    BY <1>2 DEF recv_byte
  <2>4. QED
    BY <2>1, <2>2, <2>3, <1>2 DEF recv_byte
<1>3. ASSUME NEW h \in Harts, ScanBegin(h)
      PROVE  ExtTypeOK'
  <2>1. Context(h) \in Contexts /\ scan[h].stage = "update"
    BY <1>3 DEF ScanBegin, ScanInv, Context, Contexts
  <2>2. threshold[Context(h)] \in Nat /\ Off \in Scans
    BY <2>1, <1>3 DEF ScanBegin, Off, Scans
  <2>3. scan' \in [Harts -> Scans]
    BY <2>1, <2>2, <1>3 DEF ScanBegin, Scans
  <2>4. QED
    BY <2>1, <2>2, <2>3, <1>3 DEF ScanBegin
<1>4. ASSUME NEW h \in Harts, ScanVisit(h)
      PROVE  ExtTypeOK'
  <2>1. /\ scan[h].at \in Nat \ {0} /\ scan[h] \in Scans
         /\ scan[h].at + 1 \in Nat
    BY <1>4 DEF ScanVisit, NewSource, Scans, ScanInv
  <2>2. BusOrder[scan[h].at] \in Devices
    BY DeviceAssumption, <2>1, <1>4 DEF ScanVisit, NewSource
  <2>3. priority[BusOrder[scan[h].at]] \in Nat
    BY <2>2, <1>4 DEF ScanVisit, NewSource
  <2>4. scan' \in [Harts -> Scans]
    BY <2>1, <2>2, <2>3, <1>4 DEF ScanVisit, NewSource, Scans
  <2>5. QED
    BY <2>1, <2>2, <2>3, <2>4, <1>4 DEF ScanVisit, NewSource
<1>5. ASSUME NEW h \in Harts, ScanEnd(h)
      PROVE  ExtTypeOK'
  <2>1. scan' \in [Harts -> Scans]
    BY <1>5 DEF ScanEnd, Off, Scans
  <2>2. scan[h].claim \in Devices \cup {None} /\ scan[h].stage = "visit"
    BY <1>5 DEF ScanEnd, Scans
  <2>3. Context(h) \in Contexts
    BY <2>2, <1>5 DEF ScanEnd, ScanInv, Context, Contexts
  <2>4. claim' \in [Contexts -> Devices \cup {None}]
    BY <2>2, <2>3, <1>5 DEF ScanEnd
  <2>5. flag' \in [Devices -> BOOLEAN] /\ eip' \subseteq Contexts
    BY <2>2, <2>3, <1>5 DEF ScanEnd
  <2>6. QED
    BY <2>1, <2>2, <2>3, <2>4, <2>5, <1>5 DEF ScanEnd
<1>6. ASSUME NEW h \in Harts, NEW p \in Priorities,
             WritePriorities(h, p)
      PROVE  ExtTypeOK'
  BY RegisterAssumption, <1>6 DEF WritePriorities, Configures
<1>7. ASSUME NEW h \in Harts, NEW mode \in Modes,
             NEW sources \in {{}, Devices},
             WriteEnable(h, mode, sources)
      PROVE  ExtTypeOK'
  <2>1. enable' \in [Contexts -> SUBSET Devices]
    BY <1>7 DEF WriteEnable
  <2>2. writes' \in Nat
    BY <1>7 DEF WriteEnable, Configures
  <2>3. QED
    BY <2>1, <2>2, <1>7 DEF WriteEnable
<1>8. ASSUME NEW h \in Harts, NEW mode \in Modes, NEW t \in Thresholds,
             WriteThreshold(h, mode, t)
      PROVE  ExtTypeOK'
  <2>1. threshold' \in [Contexts -> Nat]
    BY RegisterAssumption, <1>8 DEF WriteThreshold
  <2>2. writes' \in Nat
    BY <1>8 DEF WriteThreshold, Configures
  <2>3. QED
    BY <2>1, <2>2, <1>8 DEF WriteThreshold
<1>9. ASSUME NEW h \in Harts, NEW value \in BOOLEAN,
             WriteIer(h, value)
      PROVE  ExtTypeOK'
  BY <1>9 DEF WriteIer, Configures
<1>10. ASSUME NEW h \in Harts, NEW level \in Triggers,
             NEW clear \in BOOLEAN,
             WriteFcr(h, level, clear)
      PROVE  ExtTypeOK'
  <2>1. fifo' \in 0 .. BufferSize /\ trigger' \in Nat \ {0} /\ writes' \in Nat
    BY RegisterAssumption, BoundAssumption, <1>10 DEF WriteFcr, Configures
  <2>2. ready' \in BOOLEAN /\ announced' \in BOOLEAN
    BY <1>10 DEF WriteFcr
  <2>3. QED
    BY <2>1, <2>2, <1>10 DEF WriteFcr
<1>11. ASSUME NEW h \in Harts, NEW mode \in Modes,
             TakeInterrupt(h, mode)
      PROVE  ExtTypeOK'
  <2>1. guest' \in [Harts -> Guests]
    BY CoreAssumption, <1>11 DEF TakeInterrupt, Guests, Contexts
  <2>2. QED
    BY <2>1, <1>11 DEF TakeInterrupt
<1>12. ASSUME NEW h \in Harts, ReadByte(h)
      PROVE  ExtTypeOK'
  <2>1. fifo' \in 0 .. BufferSize
    BY BoundAssumption, <1>12 DEF ReadByte
  <2>2. ready' \in BOOLEAN /\ announced' \in BOOLEAN
    BY <1>12 DEF ReadByte, ReadyAfter
  <2>3. QED
    BY <2>1, <2>2, <1>12 DEF ReadByte
<1>13. ASSUME NEW h \in Harts, UartHandled(h)
      PROVE  ExtTypeOK'
  <2>1. guest' \in [Harts -> Guests]
    BY <1>13 DEF UartHandled, Guests, GotoComplete
  <2>2. QED
    BY <2>1, <1>13 DEF UartHandled
<1>14. ASSUME NEW h \in Harts, BlkHandled(h)
      PROVE  ExtTypeOK'
  <2>1. guest' \in [Harts -> Guests]
    BY <1>14 DEF BlkHandled, Guests, GotoComplete
  <2>2. QED
    BY <2>1, <1>14 DEF BlkHandled
<1>15. ASSUME NEW h \in Harts, Complete(h)
      PROVE  ExtTypeOK'
  <2>1. guest' \in [Harts -> Guests]
    BY <1>15 DEF Complete, Guests, Main
  <2>2. QED
    BY <2>1, <1>15 DEF Complete
<1>16. ASSUME NEW h \in Harts, notify_queue(h)
      PROVE  ExtTypeOK'
  BY <1>16 DEF notify_queue, Devices
<1>17. ASSUME putch
      PROVE  ExtTypeOK'
  <2>1. fifo' \in 0 .. BufferSize /\ received' \in Nat
    BY BoundAssumption, <1>17 DEF putch, Full
  <2>2. ready' \in BOOLEAN
    BY <1>17 DEF putch
  <2>3. QED
    BY <2>1, <2>2, <1>17 DEF putch
<1>18. ASSUME reset
      PROVE  ExtTypeOK'
  <2>1. guest' \in [Harts -> Guests]
    BY <1>18 DEF reset, Guests, Main
  <2>2. QED
    BY <2>1, <1>18 DEF reset
<1>19. CASE UNCHANGED vars
  BY <1>19
<1>20. QED
  BY <1>1, <1>2, <1>3, <1>4, <1>5, <1>6, <1>7, <1>8, <1>9, <1>10,
     <1>11, <1>12, <1>13, <1>14, <1>15, <1>16, <1>17, <1>18,
     <1>19
     DEF Next, Poll, scan_and_set_interrupt, Configuration, Handler

(* Only the guest's writes touch the priorities and the enable bits.        *)
LEMMA Rules ==
  ASSUME IInv, [Next]_vars
  PROVE  RulesInv'
<1>1. ASSUME NEW h \in Harts, NEW p \in Priorities, WritePriorities(h, p)
      PROVE  RulesInv'
  BY <1>1 DEF IInv, ExtTypeOK, RulesInv, WritePriorities, Devices
<1>2. ASSUME NEW h \in Harts, NEW mode \in Modes,
             NEW sources \in {{}, Devices}, WriteEnable(h, mode, sources)
      PROVE  RulesInv'
  BY <1>2 DEF IInv, ExtTypeOK, RulesInv, WriteEnable
<1>3. CASE UNCHANGED <<priority, enable>>
  BY <1>3 DEF IInv, RulesInv
<1>4. QED
  BY <1>1, <1>2, <1>3
     DEF Next, Poll, scan_and_set_interrupt, Configuration, Handler, PollBegin,
         recv_byte, ScanBegin, ScanVisit, NewSource, ScanEnd, WriteThreshold, WriteIer,
         WriteFcr, TakeInterrupt, ReadByte, UartHandled, BlkHandled, Complete,
         notify_queue, putch, reset, vars, plicVars

(* A claim made by a scan comes with its bit, a handler ends both, and a    *)
(* reset files the claims it leaves behind.                                 *)
LEMMA Claims ==
  ASSUME IInv, [Next]_vars
  PROVE  ClaimInv'
<1>1. ASSUME NEW h \in Harts, ScanEnd(h)
      PROVE  ClaimInv'
  <2>1. Context(h) \in Contexts /\ claim[Context(h)] = None
    BY <1>1 DEF IInv, ExtTypeOK, ScanInv, ScanEnd, Context, Contexts
  <2>2. CASE scan[h].claim = None
    BY <1>1, <2>2 DEF IInv, ClaimInv, ClaimsAreAnnounced, HandlerInv,
                      OrphansInv, ScanEnd, boundVars
  <2>3. CASE scan[h].claim # None
    <3>1. /\ claim' = [claim EXCEPT ![Context(h)] = scan[h].claim]
          /\ eip' = eip \cup {Context(h)}
          /\ UNCHANGED <<orphaned, guest>>
      BY <1>1, <2>3 DEF ScanEnd, boundVars
    <3>2. Context(h) \notin orphaned
      BY <2>1 DEF IInv, ClaimInv, ClaimsAreAnnounced
    <3>3. claim \in [Contexts -> Devices \cup {None}]
      BY DEF IInv, ExtTypeOK
    <3>4. QED
      BY <2>1, <2>3, <3>1, <3>2, <3>3
         DEF IInv, ClaimInv, ClaimsAreAnnounced, HandlerInv, OrphansInv
  <2>4. QED
    BY <2>2, <2>3
<1>2. ASSUME NEW h \in Harts, NEW mode \in Modes, TakeInterrupt(h, mode)
      PROVE  ClaimInv'
  BY <1>2 DEF IInv, ExtTypeOK, ClaimInv, ClaimsAreAnnounced, HandlerInv,
              OrphansInv, TakeInterrupt, plicVars, boundVars
<1>3. ASSUME NEW h \in Harts, UartHandled(h) \/ BlkHandled(h)
      PROVE  ClaimInv'
  <2>1. guest[h].pc # "main" /\ GotoComplete(h)
        /\ UNCHANGED <<claim, eip, orphaned>>
    BY <1>3 DEF UartHandled, BlkHandled, Handles, plicVars, boundVars
  <2>2. ASSUME NEW g \in Harts, guest'[g].pc # "main"
        PROVE  <<g, guest'[g].mode>> \in eip'
    BY <2>1, <2>2 DEF IInv, ExtTypeOK, Guests, ClaimInv, HandlerInv,
                      GotoComplete
  <2>3. QED
    BY <2>1, <2>2
       DEF IInv, ClaimInv, ClaimsAreAnnounced, HandlerInv, OrphansInv
<1>4. ASSUME NEW h \in Harts, Complete(h)
      PROVE  ClaimInv'
  <2> DEFINE c == <<h, guest[h].mode>>
  <2>1. c \in eip /\ c \in Contexts /\ c \notin orphaned
    BY <1>4 DEF IInv, ExtTypeOK, ClaimInv, HandlerInv, OrphansInv, Complete
  <2>2. guest' = [guest EXCEPT ![h] = Main] /\ UNCHANGED orphaned
    BY <1>4 DEF Complete, boundVars
  <2>3. CASE claim[c] = guest[h].irq
    <3>1. claim' = [claim EXCEPT ![c] = None] /\ eip' = eip \ {c}
      BY <1>4, <2>3 DEF Complete
    <3>2. HandlerInv'
      BY <2>2, <3>1 DEF IInv, ExtTypeOK, ClaimInv, HandlerInv, Main
    <3>3. QED
      BY <2>1, <2>2, <3>1, <3>2
         DEF IInv, ExtTypeOK, ClaimInv, ClaimsAreAnnounced, OrphansInv
  <2>4. CASE claim[c] # guest[h].irq
    <3>1. UNCHANGED <<claim, eip>>
      BY <1>4, <2>4 DEF Complete
    <3>2. QED
      BY <2>2, <3>1 DEF IInv, ExtTypeOK, ClaimInv, ClaimsAreAnnounced,
                        HandlerInv, OrphansInv, Main
  <2>5. QED
    BY <2>3, <2>4
<1>5. CASE reset
  BY <1>5 DEF IInv, ClaimInv, ClaimsAreAnnounced, HandlerInv, OrphansInv,
              reset, Main, plicVars
<1>6. CASE UNCHANGED <<claim, eip, orphaned, guest>>
  BY <1>6 DEF IInv, ClaimInv, ClaimsAreAnnounced, HandlerInv, OrphansInv
<1>7. QED
  BY <1>1, <1>2, <1>3, <1>4, <1>5, <1>6
     DEF Next, Poll, scan_and_set_interrupt, Configuration, Handler, PollBegin,
         recv_byte, ScanBegin, ScanVisit, NewSource, WritePriorities, WriteEnable,
         WriteThreshold, WriteIer, WriteFcr, ReadByte, notify_queue, putch,
         vars, plicVars, boundVars

-----------------------------------------------------------------------------

(* A step that leaves the PLIC alone and sets up one scan.                  *)
LEMMA OneScan ==
  ASSUME IInv, NEW h \in Harts, NEW s \in Scans,
         scan' = [scan EXCEPT ![h] = s],
         UNCHANGED <<claim, priority, enable>>,
         s.at # 0, s.stage # "off" => s.mode \in Modes,
         IF s.stage = "visit" THEN claim[<<h, s.mode>>] = None
         ELSE s.claim = None,
         s.claim # None => /\ s.claim = s.source
                           /\ s.priority = priority[Uart]
                           /\ enable[<<h, s.mode>>] = Devices
  PROVE  ScanInv'
<1>1. \A g \in Harts : scan'[g] = IF g = h THEN s ELSE scan[g]
  BY DEF IInv, ExtTypeOK
<1>2. QED
  BY <1>1 DEF IInv, ScanInv, LastPending, Context

(* While it has a device to claim, a scan prefers every later pending one;  *)
(* the guest cannot change that under its feet.                             *)
LEMMA ScanInvariant ==
  ASSUME IInv, [Next]_vars
  PROVE  ScanInv'
<1>1. ASSUME NEW h \in Harts, NEW mode \in Modes, PollBegin(h, mode)
      PROVE  ScanInv'
  <2> DEFINE s == [Off EXCEPT !.stage = "update", !.mode = mode]
  <2> mode \in {"M", "S"}
    BY CoreAssumption
  <2>1. s \in Scans
    BY DEF Off, Scans
  <2>. /\ s.at # 0 /\ s.mode = mode /\ s.stage = "update" /\ s.claim = None
    BY DEF Off
  <2>2. /\ scan' = [scan EXCEPT ![h] = s]
        /\ UNCHANGED <<claim, priority, enable>>
    BY <1>1 DEF PollBegin, plicVars
  <2> HIDE DEF s
  <2>3. QED
    BY <2>1, <2>2, OneScan
<1>2. ASSUME NEW h \in Harts, ScanBegin(h)
      PROVE  ScanInv'
  <2> DEFINE s == IF claim[Context(h)] # None THEN Off
                  ELSE [scan[h] EXCEPT !.stage = "visit",
                                       !.priority = threshold[Context(h)]]
  <2>1. scan[h] \in Scans /\ scan[h].stage = "update"
    BY <1>2 DEF IInv, ExtTypeOK, ScanBegin
  <2>2. scan[h].mode \in Modes /\ scan[h].at # 0 /\ LastPending(h)
    BY <2>1 DEF IInv, ScanInv
  <2>3. PICK n \in Nat : threshold[Context(h)] = n
    BY <2>2 DEF IInv, ExtTypeOK, Context, Contexts
  <2>4. scan' = [scan EXCEPT ![h] = s] /\ UNCHANGED <<claim, priority, enable>>
    BY <1>2, <2>1 DEF IInv, ExtTypeOK, ScanBegin, plicVars
  <2>5. CASE claim[Context(h)] # None
    <3>1. /\ scan' = [scan EXCEPT ![h] = Off]
          /\ UNCHANGED <<claim, priority, enable>>
      BY <2>4, <2>5
    <3>2. /\ Off \in Scans /\ Off.stage = "off" /\ Off.at # 0
          /\ Off.claim = None
      BY DEF Off, Scans
    <3>3. QED
      BY <3>1, <3>2, OneScan
  <2>6. CASE claim[Context(h)] = None
    <3>1. scan[h].claim = None
      BY <1>2, <2>1 DEF IInv, ScanInv
    <3>2. /\ s \in Scans /\ s.stage = "visit" /\ s.mode = scan[h].mode
          /\ s.at = scan[h].at /\ s.claim = None
      BY <2>1, <2>3, <2>6, <3>1 DEF Scans
    <3>3. claim[<<h, s.mode>>] = None
      BY <2>6, <3>2 DEF Context
    <3> HIDE DEF s
    <3>4. QED
      BY <2>2, <2>4, <3>2, <3>3, OneScan
  <2>7. QED
    BY <2>5, <2>6
<1>3. ASSUME NEW h \in Harts, ScanVisit(h)
      PROVE  ScanInv'
  <2> DEFINE d == BusOrder[scan[h].at]
             claims == /\ d \in enable[Context(h)]
                       /\ priority[d] >= scan[h].priority
             s == [scan[h] EXCEPT !.at = scan[h].at + 1,
                     !.source = IF flag[d] THEN d ELSE scan[h].source,
                     !.claim = IF flag[d] /\ claims THEN d ELSE scan[h].claim,
                     !.priority = IF flag[d] /\ claims THEN priority[d]
                                  ELSE scan[h].priority]
  <2>1. /\ scan[h] \in Scans /\ scan[h].stage = "visit"
        /\ scan[h].at <= Len(BusOrder)
    BY <1>3 DEF IInv, ExtTypeOK, ScanVisit, NewSource
  <2>2. /\ scan[h].mode \in Modes /\ scan[h].at # 0
        /\ claim[Context(h)] = None /\ LastPending(h)
    BY <2>1 DEF IInv, ScanInv
  <2>3. scan[h].at \in Nat \ {0} /\ scan[h].at + 1 \in Nat /\ scan[h].at + 1 # 0
    BY <2>1, <2>2 DEF Scans
  <2>4. d \in Devices
    BY <2>1, <2>3, DeviceAssumption
  <2>5. priority[d] \in Nat /\ priority[d] = priority[Uart]
    BY <2>4 DEF IInv, ExtTypeOK, RulesInv, Devices
  <2>6. Context(h) \in Contexts /\ enable[Context(h)] \in {{}, Devices}
    BY <2>2 DEF IInv, RulesInv, Context, Contexts
  <2>7. scan' = [scan EXCEPT ![h] = s] /\ UNCHANGED <<claim, priority, enable>>
    BY <1>3 DEF ScanVisit, NewSource, Reaches, plicVars
  <2>8. /\ s \in Scans /\ s.at # 0 /\ s.mode = scan[h].mode /\ s.stage = "visit"
        /\ s.source = (IF flag[d] THEN d ELSE scan[h].source)
        /\ s.claim = (IF flag[d] /\ claims THEN d ELSE scan[h].claim)
        /\ s.priority = (IF flag[d] /\ claims THEN priority[d]
                         ELSE scan[h].priority)
    <3>1. scan[h] \in Scans /\ d \in Devices /\ priority[d] \in Nat
      BY <2>1, <2>4, <2>5
    <3> HIDE DEF d, claims
    <3>2. QED
      BY <2>1, <2>3, <3>1 DEF Scans
  <2>9. s.claim # None => /\ s.claim = s.source
                          /\ s.priority = priority[Uart]
                          /\ enable[Context(h)] = Devices
    <3>1. CASE flag[d] /\ claims
      BY <2>4, <2>5, <2>6, <2>8, <3>1
    <3>2. CASE ~flag[d]
      BY <2>2, <2>8, <3>2 DEF LastPending
    <3>3. CASE flag[d] /\ ~claims
      <4>1. ASSUME scan[h].claim # None
            PROVE  claims
        BY <2>2, <2>4, <2>5, <4>1 DEF LastPending
      <4>2. QED
        BY <2>8, <3>3, <4>1
    <3>4. QED
      BY <3>1, <3>2, <3>3
  <2>10. Context(h) = <<h, s.mode>>
    BY <2>8 DEF Context
  <2> HIDE DEF s
  <2>11. QED
    BY <2>2, <2>7, <2>8, <2>9, <2>10, OneScan
<1>4. ASSUME NEW h \in Harts, ScanEnd(h)
      PROVE  ScanInv'
  <2>1. scan' = [scan EXCEPT ![h] = Off] /\ UNCHANGED <<priority, enable>>
    BY <1>4 DEF ScanEnd
  <2>2. \A g \in Harts : scan'[g] = IF g = h THEN Off ELSE scan[g]
    BY <2>1 DEF IInv, ExtTypeOK
  <2>3. \A c \in Contexts : c # Context(h) => claim'[c] = claim[c]
    BY <1>4 DEF IInv, ExtTypeOK, ScanEnd
  <2>4. QED
    BY <2>1, <2>2, <2>3 DEF IInv, ScanInv, LastPending, Context, Contexts, Off
<1>5. ASSUME NEW h \in Harts, Complete(h)
      PROVE  ScanInv'
  <2>1. \A c \in Contexts : claim[c] = None => claim'[c] = None
    BY <1>5 DEF IInv, ExtTypeOK, Complete
  <2>2. UNCHANGED <<scan, priority, enable>>
    BY <1>5 DEF Complete
  <2>3. QED
    BY <2>1, <2>2 DEF IInv, ScanInv, LastPending, Context, Contexts
<1>6. ASSUME NEW h \in Harts, NEW p \in Priorities, WritePriorities(h, p)
      PROVE  ScanInv'
  <2>1. UNCHANGED <<scan, claim, enable>> /\ \A c \in Contexts : enable[c] = {}
    BY <1>6 DEF WritePriorities
  <2>2. \A g \in Harts : scan[g].claim = None
    BY <2>1 DEF IInv, ScanInv, LastPending, Context, Contexts, Devices
  <2>3. QED
    BY <2>1, <2>2 DEF IInv, ScanInv, LastPending, Context
<1>7. ASSUME NEW h \in Harts, NEW mode \in Modes,
             NEW sources \in {{}, Devices}, WriteEnable(h, mode, sources)
      PROVE  ScanInv'
  <2>1. UNCHANGED <<scan, claim, priority>> /\ scan[h].stage = "off"
    BY <1>7 DEF WriteEnable, Configures, Runs, Polling
  <2>2. \A c \in Contexts : c[1] # h => enable'[c] = enable[c]
    BY <1>7 DEF IInv, ExtTypeOK, WriteEnable
  <2>3. scan[h].claim = None
    BY <2>1 DEF IInv, ScanInv
  <2>4. QED
    BY <2>1, <2>2, <2>3 DEF IInv, ScanInv, LastPending, Context, Contexts
<1>8. CASE UNCHANGED <<scan, claim, priority, enable>>
  BY <1>8 DEF IInv, ScanInv, LastPending, Context
<1>9. QED
  BY <1>1, <1>2, <1>3, <1>4, <1>5, <1>6, <1>7, <1>8
     DEF Next, Poll, scan_and_set_interrupt, Configuration, Handler, recv_byte,
         WriteThreshold, WriteIer, WriteFcr, TakeInterrupt, ReadByte,
         UartHandled, BlkHandled, notify_queue, putch, reset, vars, plicVars

-----------------------------------------------------------------------------

LEMMA Initially == Init => IInv
<1> SUFFICES ASSUME Init PROVE IInv
  OBVIOUS
<1>1. Off \in Scans /\ Main \in Guests
  BY DEF Off, Scans, Main, Guests
<1>2. ExtTypeOK
  <2>1. fifo \in 0 .. BufferSize /\ trigger \in Nat \ {0}
    BY BoundAssumption DEF Init
  <2>2. /\ priority \in [Devices -> Nat] /\ threshold \in [Contexts -> Nat]
        /\ used \in Nat /\ seen \in Nat
        /\ received \in Nat /\ writes \in Nat /\ resets \in Nat
    BY DEF Init
  <2>3. /\ flag \in [Devices -> BOOLEAN] /\ ready \in BOOLEAN
        /\ ier \in BOOLEAN /\ announced \in BOOLEAN
    BY DEF Init
  <2>4. /\ enable \in [Contexts -> SUBSET Devices]
        /\ claim \in [Contexts -> Devices \cup {None}]
        /\ eip \subseteq Contexts /\ orphaned \subseteq Contexts
        /\ scan \in [Harts -> Scans] /\ guest \in [Harts -> Guests]
    BY <1>1 DEF Init
  <2>5. QED
    BY <2>1, <2>2, <2>3, <2>4 DEF ExtTypeOK
<1>3. ClaimInv
  BY DEF Init, ClaimInv, ClaimsAreAnnounced, HandlerInv, OrphansInv, Main
<1>4. RulesInv
  BY DEF Init, RulesInv, Devices
<1>5. ScanInv
  BY DEF Init, ScanInv, LastPending, Off
<1>6. QED
  BY <1>2, <1>3, <1>4, <1>5 DEF IInv

(* The invariant: types, claims with their bits, the guest's rules, and     *)
(* scans that would claim what they would lower.                            *)
THEOREM Invariant == Spec => []IInv
<1>1. IInv /\ [Next]_vars => IInv'
  BY Typing, Claims, Rules, ScanInvariant DEF IInv
<1>2. QED
  BY Initially, <1>1, PTL DEF Spec

(* Every variable keeps to its type, the receive queue to its limit.        *)
THEOREM TypesHold == Spec => []ExtTypeOK
<1>1. IInv => ExtTypeOK
  BY DEF IInv
<1>2. QED
  BY Invariant, <1>1, PTL

(* A context has a claim exactly when its hart was told, unless a reset     *)
(* took the bit: PLIC::scan_and_set_interrupt sets both, PLIC::write clears *)
(* both.                                                                    *)
THEOREM ClaimsAnnounced == Spec => []ClaimsAreAnnounced
<1>1. IInv => ClaimsAreAnnounced
  BY DEF IInv, ClaimInv
<1>2. QED
  BY Invariant, <1>1, PTL

(* The flag a scan lowers is that of the device it claims, whatever other   *)
(* harts write to device and PLIC registers while it is at work.            *)
THEOREM FlagsClaimed == Spec => LoweredFlagsAreClaimed
<1> DEFINE P == \A d \in Devices :
                  flag[d] /\ ~flag'[d]
                    => \E c \in Contexts : claim[c] = None /\ claim'[c] = d
<1>1. ASSUME IInv, NEW h \in Harts, ScanEnd(h)
      PROVE  P
  <2> SUFFICES ASSUME NEW d \in Devices, flag[d], ~flag'[d]
               PROVE  \E c \in Contexts : claim[c] = None /\ claim'[c] = d
    OBVIOUS
  <2>1. scan[h].claim # None /\ d = scan[h].source
    BY <1>1 DEF IInv, ExtTypeOK, ScanEnd
  <2>2. d = scan[h].claim
    BY <1>1, <2>1 DEF IInv, ScanInv, LastPending
  <2>3. Context(h) \in Contexts /\ claim[Context(h)] = None
    BY <1>1 DEF IInv, ScanInv, ScanEnd, Context, Contexts
  <2>4. claim'[Context(h)] = d
    BY <1>1, <2>1, <2>2, <2>3 DEF IInv, ExtTypeOK, ScanEnd
  <2>5. QED
    BY <2>3, <2>4
<1>2. ASSUME IInv, NEW h \in Harts, recv_byte(h) \/ notify_queue(h)
      PROVE  P
  BY <1>2 DEF IInv, ExtTypeOK, recv_byte, notify_queue
<1>3. ASSUME UNCHANGED flag
      PROVE  P
  BY <1>3
<1>4. IInv /\ [Next]_vars => [P]_vars
  BY <1>1, <1>2, <1>3
     DEF Next, Poll, scan_and_set_interrupt, Configuration, Handler, PollBegin,
         ScanBegin, ScanVisit, WritePriorities, WriteEnable, WriteThreshold,
         WriteIer, WriteFcr, TakeInterrupt, ReadByte, UartHandled, BlkHandled,
         Complete, putch, reset, vars
<1>5. QED
  BY Invariant, <1>4, PTL DEF Spec, LoweredFlagsAreClaimed

=============================================================================
