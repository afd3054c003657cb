---------------------------- MODULE ScreensProofs ----------------------------
(***************************************************************************)
(* Nobody but a technician sees the service screen, for every scope: any   *)
(* number of presses that wait for their turn, of screens in the history   *)
(* and of mishaps.                                                         *)
(*                                                                         *)
(* Entering service mode and leaving it are each a click, an event and the *)
(* end of the click, in the same queue.  So what an entry has still to do, *)
(* when the mode has been left again, is followed in the queue by what     *)
(* leads home; and home forgets the history.                               *)
(***************************************************************************)
EXTENDS KioskScreens, SequenceTheorems, TLAPS

Clicks ==
  {"show_home", "show_catalog", "show_product_details", "show_diagnostics", "back",
   "open_service", "exit_service", "start_cash_checkout", "cancel_purchase",
   "confirm_pickup", "insert_bill", "inject_fault", "clear_simulator_faults",
   "recover_transaction"}
Ends ==
  {"go_to_payment", "go_to_no_change", "go_to_error", "go_to_service",
   "go_to_restricted", "cancel_safe"}
Items == Clicks \cup LoopEvents \cup OtherEvents \cup Ends

Reasons ==
  {"validator_fault", "recovery_pending", "delivery_window_fault", "device_fault",
   "service_door_open"}

ViewOK ==
  /\ nav.current \in Screens /\ nav.history \in Seq(Screens)
  /\ shown = "service" => nav.current = "service"
MachineOK ==
  machine \in [machine_state : MachineStates, service_mode : BOOLEAN,
               exact_change_only : BOOLEAN, sale_blockers : SUBSET Reasons]
TypesOK == ViewOK /\ MachineOK /\ ready \in Seq(Items)

(* The service screen is shown, or back may lead to it.                    *)
InReach(n) == n.current = "service" \/ Contains(n.history, "service")

Follows(i, item) == \E j \in 1..Len(ready) : j > i /\ ready[j] = item

(* What leads home comes after whatever leads to the service screen.       *)
WayHome ==
  ~machine.service_mode =>
    /\ InReach(nav) => Awaited("service_mode_exited") \/ Awaited("show_home")
    /\ \A i \in 1..Len(ready) :
         /\ ready[i] = "service_mode_entered" => Follows(i, "service_mode_exited")
         /\ ready[i] = "go_to_service" =>
              Awaited("service_mode_exited") \/ Follows(i, "show_home")

ScreensInv == TypesOK /\ WayHome

Opening == {"service_mode_entered", "go_to_service"}
Closing == {"service_mode_exited", "show_home"}
SameMode == machine'.service_mode = machine.service_mode
Farther == InReach(nav') => InReach(nav)

(* ------------------------------- The queue ----------------------------- *)

LEMMA Marks == Opening \cup Closing \subseteq Items
BY DEF Opening, Closing, Items, Clicks, OtherEvents, Ends

LEMMA Turned ==
  ASSUME ready \in Seq(Items), NEW item \in Items, NEW next \in Seq(Items), Turn(item, next)
  PROVE  /\ ready' \in Seq(Items) /\ Len(ready) \in Nat \ {0} /\ ready[1] = item
         /\ Len(next) \in Nat /\ Len(ready') = Len(ready) - 1 + Len(next)
         /\ \A i \in 1..Len(ready) : i > 1 =>
              i - 1 \in 1..Len(ready') /\ ready'[i - 1] = ready[i]
         /\ \A i \in 1..Len(ready') :
              \/ i + 1 \in 1..Len(ready) /\ ready'[i] = ready[i + 1]
              \/ /\ i > Len(ready) - 1 /\ i - (Len(ready) - 1) \in 1..Len(next)
                 /\ ready'[i] = next[i - (Len(ready) - 1)]
         /\ \A i \in 1..Len(next) :
              Len(ready) - 1 + i \in 1..Len(ready') /\ ready'[Len(ready) - 1 + i] = next[i]
<1> DEFINE rest == Tail(ready)
<1>1. ready # <<>> /\ Head(ready) = item /\ ready' = rest \o next BY DEF Turn
<1>2. /\ rest \in Seq(Items) /\ Len(rest) = Len(ready) - 1
      /\ \A i \in 1..Len(rest) : rest[i] = ready[i + 1]
  BY <1>1, HeadTailProperties
<1>3. Len(ready) \in Nat \ {0} /\ Len(next) \in Nat /\ ready[1] = item
  BY <1>1, EmptySeq, LenProperties
<1> HIDE DEF rest
<1>4. /\ ready' \in Seq(Items) /\ Len(ready') = Len(rest) + Len(next)
      /\ \A i \in 1..(Len(rest) + Len(next)) :
           ready'[i] = IF i <= Len(rest) THEN rest[i] ELSE next[i - Len(rest)]
  BY <1>1, <1>2, ConcatProperties
<1>5. ASSUME NEW i \in 1..Len(ready), i > 1
      PROVE  i - 1 \in 1..Len(ready') /\ ready'[i - 1] = ready[i]
  <2>1. i - 1 \in 1..Len(rest) /\ (i - 1) + 1 = i BY <1>2, <1>3, <1>5
  <2>2. i - 1 \in 1..(Len(rest) + Len(next)) /\ i - 1 <= Len(rest) BY <1>2, <1>3, <2>1
  <2> QED BY <1>2, <1>4, <2>1, <2>2
<1>6. ASSUME NEW i \in 1..Len(ready')
      PROVE \/ i + 1 \in 1..Len(ready) /\ ready'[i] = ready[i + 1]
            \/ /\ i > Len(ready) - 1 /\ i - (Len(ready) - 1) \in 1..Len(next)
               /\ ready'[i] = next[i - (Len(ready) - 1)]
  <2>1. CASE i <= Len(rest)
    <3>1. i \in 1..Len(rest) /\ i + 1 \in 1..Len(ready) BY <1>2, <1>3, <2>1
    <3> QED BY <1>2, <1>4, <2>1, <3>1
  <2>2. CASE ~(i <= Len(rest))
    <3>1. i > Len(ready) - 1 /\ i - (Len(ready) - 1) \in 1..Len(next)
      BY <1>2, <1>3, <1>4, <2>2
    <3>2. ready'[i] = next[i - Len(rest)] BY <1>4, <2>2
    <3> QED BY <1>2, <3>1, <3>2
  <2> QED BY <2>1, <2>2
<1>7. ASSUME NEW i \in 1..Len(next)
      PROVE  Len(ready) - 1 + i \in 1..Len(ready') /\ ready'[Len(ready) - 1 + i] = next[i]
  <2>1. /\ Len(rest) + i \in 1..(Len(rest) + Len(next)) /\ ~(Len(rest) + i <= Len(rest))
        /\ (Len(rest) + i) - Len(rest) = i
    BY <1>2, <1>3
  <2> QED BY <1>2, <1>4, <2>1
<1> QED BY <1>2, <1>3, <1>4, <1>5, <1>6, <1>7

LEMMA Published ==
  ASSUME ready \in Seq(Items), NEW item \in Items, ready' = ready \o <<item>>
  PROVE  /\ ready' \in Seq(Items) /\ Len(ready) \in Nat /\ Len(ready') = Len(ready) + 1
         /\ \A i \in 1..Len(ready) : i \in 1..Len(ready') /\ ready'[i] = ready[i]
         /\ \A i \in 1..Len(ready') : i \in 1..Len(ready) \/ ready'[i] = item
<1>1. ready' = Append(ready, item) BY AppendIsConcat
<1>2. /\ ready' \in Seq(Items) /\ Len(ready) \in Nat /\ Len(ready') = Len(ready) + 1
      /\ \A i \in 1..Len(ready) : ready'[i] = ready[i]
      /\ ready'[Len(ready) + 1] = item
  BY <1>1, AppendProperties, LenProperties
<1>3. \A i \in 1..(Len(ready) + 1) : i \in 1..Len(ready) \/ i = Len(ready) + 1 BY <1>2
<1> QED BY <1>2, <1>3

(* Something else becomes ready, or nothing.                               *)
LEMMA PublishKeepsWay ==
  ASSUME TypesOK, WayHome, SameMode, Farther,
         \/ ready' = ready
         \/ \E item \in Items \ Opening : ready' = ready \o <<item>>
  PROVE  ready' \in Seq(Items) /\ WayHome'
<1>1. CASE ready' = ready
  <2>1. \A e \in Items : Awaited(e) => Awaited(e)' BY <1>1 DEF Awaited, Contains
  <2>2. \A i \in 1..Len(ready), e \in Items : Follows(i, e) => Follows(i, e)'
    BY <1>1 DEF Follows
  <2> QED BY <1>1, <2>1, <2>2, Marks DEF TypesOK, WayHome, SameMode, Farther, Closing
<1>2. ASSUME NEW item \in Items \ Opening, ready' = ready \o <<item>>
      PROVE ready' \in Seq(Items) /\ WayHome'
  <2>1. /\ ready' \in Seq(Items) /\ Len(ready) \in Nat /\ Len(ready') = Len(ready) + 1
        /\ \A i \in 1..Len(ready) : i \in 1..Len(ready') /\ ready'[i] = ready[i]
        /\ \A i \in 1..Len(ready') : i \in 1..Len(ready) \/ ready'[i] = item
    BY <1>2, Published DEF TypesOK
  <2>2. ASSUME NEW e \in Items, Awaited(e) PROVE Awaited(e)' BY <2>1, <2>2 DEF Awaited, Contains
  <2>3. ASSUME NEW i \in 1..Len(ready), NEW e \in Items, Follows(i, e) PROVE Follows(i, e)'
    BY <2>1, <2>3 DEF Follows
  <2>4. ASSUME ~machine'.service_mode, NEW i \in 1..Len(ready')
        PROVE /\ ready'[i] = "service_mode_entered" => Follows(i, "service_mode_exited")'
              /\ ready'[i] = "go_to_service" =>
                   Awaited("service_mode_exited")' \/ Follows(i, "show_home")'
    <3>1. CASE i \in 1..Len(ready)
      BY <2>1, <2>2, <2>3, <2>4, <3>1, Marks DEF WayHome, SameMode, Opening, Closing
    <3>2. CASE i \notin 1..Len(ready) BY <1>2, <2>1, <3>2 DEF Opening
    <3> QED BY <3>1, <3>2
  <2> QED BY <2>1, <2>2, <2>4, Marks DEF WayHome, SameMode, Farther, Closing
<1> QED BY <1>1, <1>2

(* What waits behind the head of the queue still waits, and in its order.  *)
LEMMA StillAwaited ==
  ASSUME TypesOK, NEW item \in Items, NEW next \in Seq(Items), Turn(item, next)
  PROVE  /\ \A e \in Items : Awaited(e) /\ e # item => Awaited(e)'
         /\ \A i \in 1..Len(ready), e \in Items : i > 1 /\ Follows(i, e) => Follows(i - 1, e)'
<1>1. /\ Len(ready) \in Nat \ {0} /\ ready[1] = item
      /\ \A i \in 1..Len(ready) : i > 1 =>
           i - 1 \in 1..Len(ready') /\ ready'[i - 1] = ready[i]
  BY Turned DEF TypesOK
<1>2. ASSUME NEW e \in Items, Awaited(e), e # item PROVE Awaited(e)'
  <2>1. PICK i \in 1..Len(ready) : ready[i] = e BY <1>2 DEF Awaited, Contains
  <2>2. i > 1 BY <1>1, <1>2, <2>1
  <2> QED BY <1>1, <2>1, <2>2 DEF Awaited, Contains
<1>3. ASSUME NEW i \in 1..Len(ready), NEW e \in Items, i > 1, Follows(i, e) PROVE Follows(i - 1, e)'
  <2>1. PICK j \in 1..Len(ready) : j > i /\ ready[j] = e BY <1>3 DEF Follows
  <2>2. j > 1 /\ j - 1 > i - 1 BY <1>3, <2>1
  <2>3. j - 1 \in 1..Len(ready') /\ ready'[j - 1] = e BY <1>1, <2>1, <2>2
  <2> QED BY <2>2, <2>3 DEF Follows
<1> QED BY <1>2, <1>3

(* A turn of something that neither opens nor closes.                      *)
LEMMA TurnKeepsWay ==
  ASSUME TypesOK, WayHome, SameMode, Farther,
         NEW item \in Items \ Closing,
         NEW next \in Seq(Items), \A i \in 1..Len(next) : next[i] \notin Opening,
         Turn(item, next)
  PROVE  WayHome'
<1>1. /\ Len(ready) \in Nat \ {0}
      /\ \A i \in 1..Len(ready') :
           \/ i + 1 \in 1..Len(ready) /\ ready'[i] = ready[i + 1]
           \/ /\ i > Len(ready) - 1 /\ i - (Len(ready) - 1) \in 1..Len(next)
              /\ ready'[i] = next[i - (Len(ready) - 1)]
  BY Turned DEF TypesOK
<1>2. \A e \in Closing : Awaited(e) => Awaited(e)' BY StillAwaited, Marks
<1>3. ASSUME ~machine'.service_mode, NEW i \in 1..Len(ready')
      PROVE /\ ready'[i] = "service_mode_entered" => Follows(i, "service_mode_exited")'
            /\ ready'[i] = "go_to_service" =>
                 Awaited("service_mode_exited")' \/ Follows(i, "show_home")'
  <2>1. CASE i + 1 \in 1..Len(ready) /\ ready'[i] = ready[i + 1]
    <3>1. \A e \in Items : Follows(i + 1, e) => Follows(i, e)'
      <4>1. i + 1 > 1 /\ (i + 1) - 1 = i OBVIOUS
      <4> QED BY <2>1, <4>1, StillAwaited
    <3> QED BY <1>2, <1>3, <2>1, <3>1, Marks DEF WayHome, SameMode, Closing
  <2>2. CASE ready'[i] \notin Opening BY <2>2 DEF Opening
  <2> QED BY <1>1, <2>1, <2>2
<1> QED BY <1>2, <1>3 DEF WayHome, SameMode, Farther, Closing

(* The steps of service mode itself.                                       *)
LEMMA EntryGoesOn ==
  ASSUME TypesOK, WayHome, SameMode, Farther,
         Turn("service_mode_entered", <<"go_to_service">>)
  PROVE  WayHome'
<1> DEFINE next == <<"go_to_service">>
<1>1. /\ next \in Seq(Items) /\ Len(next) = 1 /\ next[1] = "go_to_service"
      /\ Turn("service_mode_entered", next) /\ "service_mode_entered" \in Items
  BY Marks DEF Opening
<1> HIDE DEF next
<1>2. /\ Len(ready) \in Nat \ {0} /\ ready[1] = "service_mode_entered"
      /\ \A i \in 1..Len(ready') :
           \/ i + 1 \in 1..Len(ready) /\ ready'[i] = ready[i + 1]
           \/ ready'[i] = "go_to_service"
  <2>1. /\ Len(ready) \in Nat \ {0} /\ ready[1] = "service_mode_entered"
        /\ \A i \in 1..Len(ready') :
             \/ i + 1 \in 1..Len(ready) /\ ready'[i] = ready[i + 1]
             \/ /\ i > Len(ready) - 1 /\ i - (Len(ready) - 1) \in 1..Len(next)
                /\ ready'[i] = next[i - (Len(ready) - 1)]
    BY <1>1, Turned DEF TypesOK
  <2> QED BY <1>1, <2>1
<1>3. ASSUME ~machine'.service_mode PROVE Awaited("service_mode_exited")'
  <2>1. Follows(1, "service_mode_exited") BY <1>2, <1>3 DEF WayHome, SameMode
  <2>2. Awaited("service_mode_exited") BY <2>1 DEF Follows, Awaited, Contains
  <2> QED BY <1>1, <2>2, StillAwaited, Marks DEF Opening, Closing
<1>4. ASSUME ~machine'.service_mode, NEW i \in 1..Len(ready'),
             ready'[i] = "service_mode_entered"
      PROVE  Follows(i, "service_mode_exited")'
  <2>1. i + 1 \in 1..Len(ready) /\ ready[i + 1] = "service_mode_entered" BY <1>2, <1>4
  <2>2. Follows(i + 1, "service_mode_exited") BY <1>4, <2>1 DEF WayHome, SameMode
  <2>3. i + 1 > 1 /\ (i + 1) - 1 = i OBVIOUS
  <2> QED BY <1>1, <2>1, <2>2, <2>3, StillAwaited, Marks DEF Opening, Closing
<1> QED BY <1>3, <1>4 DEF WayHome

LEMMA ExitGoesOn ==
  ASSUME TypesOK, WayHome, SameMode, Farther,
         Turn("service_mode_exited", <<"show_home">>)
  PROVE  WayHome'
<1> DEFINE next == <<"show_home">>
<1>1. /\ next \in Seq(Items) /\ Len(next) = 1 /\ next[1] = "show_home"
      /\ Turn("service_mode_exited", next) /\ "service_mode_exited" \in Items
  BY Marks DEF Closing
<1>2. /\ Len(ready) \in Nat \ {0} /\ Len(ready') = Len(ready)
      /\ ready'[Len(ready)] = "show_home"
      /\ \A i \in 1..Len(ready') :
           \/ i + 1 \in 1..Len(ready) /\ ready'[i] = ready[i + 1]
           \/ i = Len(ready)
  <2> HIDE DEF next
  <2>1. /\ Len(ready) \in Nat \ {0} /\ Len(ready') = Len(ready) - 1 + Len(next)
        /\ \A i \in 1..Len(ready') :
             \/ i + 1 \in 1..Len(ready) /\ ready'[i] = ready[i + 1]
             \/ /\ i > Len(ready) - 1 /\ i - (Len(ready) - 1) \in 1..Len(next)
                /\ ready'[i] = next[i - (Len(ready) - 1)]
        /\ \A i \in 1..Len(next) :
             Len(ready) - 1 + i \in 1..Len(ready') /\ ready'[Len(ready) - 1 + i] = next[i]
    BY <1>1, Turned DEF TypesOK
  <2>2. Len(ready) - 1 + 1 = Len(ready) BY <2>1
  <2> QED BY <1>1, <2>1, <2>2
<1>3. Awaited("show_home")' BY <1>2 DEF Awaited, Contains
<1>4. ASSUME NEW i \in 1..Len(ready'), ready'[i] # "show_home"
      PROVE  Follows(i, "show_home")'
  <2>1. Len(ready) \in 1..Len(ready') /\ Len(ready) > i BY <1>2, <1>4
  <2> QED BY <1>2, <2>1 DEF Follows
<1>5. ASSUME ~machine'.service_mode, NEW i \in 1..Len(ready'),
             ready'[i] = "service_mode_entered"
      PROVE  Follows(i, "service_mode_exited")'
  <2>1. i + 1 \in 1..Len(ready) /\ ready[i + 1] = "service_mode_entered" BY <1>2, <1>5
  <2>2. Follows(i + 1, "service_mode_exited") BY <1>5, <2>1 DEF WayHome, SameMode
  <2>3. i + 1 > 1 /\ (i + 1) - 1 = i OBVIOUS
  <2> QED BY <1>1, <2>1, <2>2, <2>3, StillAwaited, Marks DEF Opening, Closing
<1> QED BY <1>3, <1>4, <1>5 DEF WayHome

(* A turn that leaves nothing behind: home, or the service screen.         *)
LEMMA TurnEnds ==
  ASSUME TypesOK, WayHome, SameMode, NEW item \in {"show_home", "go_to_service"},
         Turn(item, <<>>),
         item = "show_home" => ~InReach(nav')
  PROVE  WayHome'
<1>1. item \in Items BY Marks DEF Opening, Closing
<1>2. <<>> \in Seq(Items) /\ Len(<<>>) = 0 BY EmptySeq
<1>3. /\ Len(ready) \in Nat \ {0} /\ ready[1] = item
      /\ \A i \in 1..Len(ready') : i + 1 \in 1..Len(ready) /\ ready'[i] = ready[i + 1]
  <2> DEFINE none == <<>>
  <2>1. none \in Seq(Items) /\ Len(none) = 0 /\ Turn(item, none) BY <1>2
  <2> HIDE DEF none
  <2>2. /\ Len(ready) \in Nat \ {0} /\ ready[1] = item
        /\ \A i \in 1..Len(ready') :
             \/ i + 1 \in 1..Len(ready) /\ ready'[i] = ready[i + 1]
             \/ i - (Len(ready) - 1) \in 1..Len(none)
    BY <1>1, <2>1, Turned DEF TypesOK
  <2> QED BY <2>1, <2>2
<1>4. ASSUME item = "go_to_service", ~machine'.service_mode
      PROVE  Awaited("service_mode_exited")' \/ Awaited("show_home")'
  <2>1. Awaited("service_mode_exited") \/ Follows(1, "show_home")
    BY <1>3, <1>4 DEF WayHome, SameMode
  <2>2. Awaited("service_mode_exited") \/ Awaited("show_home")
    BY <2>1 DEF Follows, Awaited, Contains
  <2> QED BY <1>1, <1>2, <1>4, <2>2, StillAwaited, Marks DEF Closing
<1>5. ASSUME ~machine'.service_mode, NEW i \in 1..Len(ready')
      PROVE /\ ready'[i] = "service_mode_entered" => Follows(i, "service_mode_exited")'
            /\ ready'[i] = "go_to_service" =>
                 Awaited("service_mode_exited")' \/ Follows(i, "show_home")'
  <2>1. i + 1 \in 1..Len(ready) /\ ready'[i] = ready[i + 1] BY <1>3
  <2>2. i + 1 > 1 /\ (i + 1) - 1 = i OBVIOUS
  <2>3. \A e \in Items : Follows(i + 1, e) => Follows(i, e)'
    BY <1>1, <1>2, <2>1, <2>2, StillAwaited
  <2>4. Awaited("service_mode_exited") => Awaited("service_mode_exited")'
    BY <1>1, <1>2, StillAwaited, Marks DEF Closing
  <2> QED BY <1>5, <2>1, <2>3, <2>4, Marks DEF WayHome, SameMode, Closing
<1> QED BY <1>4, <1>5 DEF WayHome

LEMMA ExitBegins ==
  ASSUME TypesOK, Turn("exit_service", <<"service_mode_exited">>)
  PROVE  WayHome'
<1> DEFINE next == <<"service_mode_exited">>
<1>1. /\ next \in Seq(Items) /\ Len(next) = 1 /\ next[1] = "service_mode_exited"
      /\ Turn("exit_service", next)
  BY Marks DEF Closing
<1>2. "exit_service" \in Items BY DEF Items, Clicks
<1>3. /\ Len(ready) \in Nat \ {0} /\ Len(ready') = Len(ready)
      /\ ready'[Len(ready)] = "service_mode_exited"
  <2> HIDE DEF next
  <2>1. /\ Len(ready) \in Nat \ {0} /\ Len(ready') = Len(ready) - 1 + Len(next)
        /\ \A i \in 1..Len(next) : ready'[Len(ready) - 1 + i] = next[i]
    BY <1>1, <1>2, Turned DEF TypesOK
  <2>2. Len(ready) - 1 + 1 = Len(ready) BY <2>1
  <2> QED BY <1>1, <2>1, <2>2
<1>4. Awaited("service_mode_exited")' BY <1>3 DEF Awaited, Contains
<1>5. ASSUME NEW i \in 1..Len(ready'), ready'[i] = "service_mode_entered"
      PROVE  Follows(i, "service_mode_exited")'
  <2>1. Len(ready) \in 1..Len(ready') /\ Len(ready) > i BY <1>3, <1>5
  <2> QED BY <1>3, <2>1 DEF Follows
<1> QED BY <1>4, <1>5 DEF WayHome

(* ------------------------------ The screens ---------------------------- *)

LEMMA Shows ==
  ASSUME NEW n, n.current \in Screens, n.history \in Seq(Screens), Show(n)
  PROVE  ViewOK' /\ nav' = n
BY DEF Show, Rendered, ViewOK

LEMMA GoesOn ==
  ASSUME ViewOK, NEW screen \in Screens \ {"service"}, Show(GoTo(screen))
  PROVE  ViewOK' /\ Farther
<1> DEFINE n == GoTo(screen)
<1>1. CASE nav.current = screen
  <2>1. n = nav BY <1>1 DEF GoTo
  <2> HIDE DEF n
  <2> QED BY <2>1, Shows DEF ViewOK, Farther, GoTo, n
<1>2. CASE nav.current # screen
  <2>1. n.current = screen /\ n.history = Append(nav.history, nav.current)
    BY <1>2 DEF GoTo
  <2>2. /\ n.history \in Seq(Screens) /\ Len(n.history) = Len(nav.history) + 1
        /\ Len(nav.history) \in Nat
        /\ \A i \in 1..Len(nav.history) : n.history[i] = nav.history[i]
        /\ n.history[Len(nav.history) + 1] = nav.current
    BY <2>1, AppendProperties, LenProperties DEF ViewOK
  <2>3. ViewOK' /\ nav' = n BY <2>1, <2>2, Shows
  <2> HIDE DEF n
  <2>4. ASSUME InReach(n) PROVE InReach(nav)
    <3>1. PICK i \in 1..Len(n.history) : n.history[i] = "service"
      BY <2>1, <2>4 DEF InReach, Contains
    <3>2. i \in 1..Len(nav.history) \/ i = Len(nav.history) + 1 BY <2>2
    <3> QED BY <2>2, <3>1, <3>2 DEF InReach, Contains
  <2> QED BY <2>3, <2>4 DEF Farther
<1> QED BY <1>1, <1>2

LEMMA GoesBack ==
  ASSUME ViewOK, Show(Back)
  PROVE  ViewOK' /\ Farther
<1> DEFINE n == Back  old == nav.history
<1>1. CASE nav.history = <<>>
  <2>1. n = nav BY <1>1 DEF Back
  <2> QED BY <2>1, Shows DEF ViewOK, Farther
<1>2. CASE nav.history # <<>>
  <2>1. old \in Seq(Screens) /\ Len(old) \in Nat \ {0}
    BY <1>2, EmptySeq, LenProperties DEF ViewOK
  <2>2. n.current = old[Len(old)] /\ n.history = SubSeq(old, 1, Len(old) - 1)
    BY <1>2 DEF Back, Last, Front
  <2>3. n.current \in Screens BY <2>1, <2>2, ElementOfSeq
  <2>4. /\ n.history \in Seq(Screens) /\ Len(n.history) = Len(old) - 1
        /\ \A i \in 1..(Len(old) - 1) : n.history[i] = old[i]
    <3>1. \A i \in 1..(Len(old) - 1) : old[i] \in Screens BY <2>1, ElementOfSeq
    <3> DEFINE last == Len(old) - 1  part == SubSeq(old, 1, last)
    <3>2. /\ 1 \in Int /\ last \in Nat /\ last = Len(old) - 1 /\ n.history = part
          /\ \A i \in 1..last : old[i] \in Screens
      BY <2>1, <2>2, <3>1
    <3> HIDE DEF n, old, last
    <3>3. /\ part \in Seq(Screens)
          /\ Len(part) = IF 1 <= last THEN last - 1 + 1 ELSE 0
          /\ \A i \in 1..(last - 1 + 1) : part[i] = old[1 + i - 1]
      BY <3>2, SubSeqProperties
    <3> HIDE DEF part
    <3>4. \A i \in 1..last : part[i] = old[i]
      <4> TAKE i \in 1..last
      <4>1. i \in 1..(last - 1 + 1) /\ 1 + i - 1 = i BY <3>2
      <4> QED BY <3>3, <4>1
    <3> QED BY <3>2, <3>3, <3>4
  <2>5. ViewOK' /\ nav' = n BY <2>3, <2>4, Shows
  <2> HIDE DEF n
  <2>6. ASSUME InReach(n) PROVE \E i \in 1..Len(old) : old[i] = "service"
    BY <2>1, <2>2, <2>4, <2>6 DEF InReach, Contains
  <2> QED BY <2>5, <2>6 DEF Farther, InReach, Contains
<1> QED BY <1>1, <1>2

LEMMA GoesHome ==
  ASSUME Show(Home)
  PROVE  ViewOK' /\ ~InReach(nav')
<1> DEFINE n == Home
<1>1. n.current = "home" /\ n.history = <<>> BY DEF Home
<1>2. n.current \in Screens BY <1>1 DEF Screens, CustomerScreens
<1>3. n.history \in Seq(Screens) /\ Len(n.history) = 0 BY <1>1, EmptySeq
<1> HIDE DEF n
<1>4. ~InReach(n) BY <1>1, <1>3 DEF InReach, Contains
<1> QED BY <1>2, <1>3, <1>4, Shows DEF n

LEMMA GoesToService ==
  ASSUME ViewOK, Show(GoTo("service"))
  PROVE  ViewOK'
<1> DEFINE n == GoTo("service")
<1>1. CASE nav.current = "service"
  <2>1. n = nav BY <1>1 DEF GoTo
  <2> QED BY <2>1, Shows DEF ViewOK
<1>2. CASE nav.current # "service"
  <2>1. n.current = "service" /\ n.history = Append(nav.history, nav.current)
    BY <1>2 DEF GoTo
  <2>2. n.history \in Seq(Screens) BY <2>1, AppendProperties DEF ViewOK
  <2>3. n.current \in Screens BY <2>1 DEF Screens, StaffScreens
  <2> QED BY <2>2, <2>3, Shows
<1> QED BY <1>1, <1>2

LEMMA StaysThere ==
  ASSUME ViewOK, UNCHANGED view
  PROVE  ViewOK' /\ Farther
BY DEF ViewOK, view, Farther

LEMMA StopsTheMachine ==
  ASSUME MachineOK, NEW state \in MachineStates, NEW reasons \in SUBSET Reasons,
         machine' = Stopped(state, reasons)
  PROVE  MachineOK' /\ SameMode
BY DEF MachineOK, Stopped, SameMode

(* ------------------------- What a step leaves alone -------------------- *)

LEMMA TurnLeadsNowhere ==
  ASSUME ScreensInv, ViewOK', MachineOK', SameMode, Farther,
         NEW item \in Items \ Closing, Turn(item, <<>>)
  PROVE  ScreensInv'
<1> DEFINE next == <<>>
<1>1. next \in Seq(Items) /\ Len(next) = 0 /\ Turn(item, next) BY EmptySeq
<1> HIDE DEF next
<1>2. \A i \in 1..Len(next) : next[i] \notin Opening BY <1>1
<1>3. ready' \in Seq(Items) BY <1>1, Turned DEF ScreensInv, TypesOK
<1>4. WayHome' BY <1>1, <1>2, TurnKeepsWay DEF ScreensInv
<1> QED BY <1>3, <1>4 DEF ScreensInv, TypesOK

LEMMA TurnLeadsOn ==
  ASSUME ScreensInv, ViewOK', MachineOK', SameMode, Farther,
         NEW item \in Items \ Closing, NEW end \in Items \ Opening, Turn(item, <<end>>)
  PROVE  ScreensInv'
<1> DEFINE next == <<end>>
<1>1. next \in Seq(Items) /\ Len(next) = 1 /\ next[1] = end /\ Turn(item, next) OBVIOUS
<1> HIDE DEF next
<1>2. \A i \in 1..Len(next) : next[i] \notin Opening BY <1>1
<1>3. ready' \in Seq(Items) BY <1>1, Turned DEF ScreensInv, TypesOK
<1>4. WayHome' BY <1>1, <1>2, TurnKeepsWay DEF ScreensInv
<1> QED BY <1>3, <1>4 DEF ScreensInv, TypesOK

(* The screens stay as they are, and nothing of service mode is begun.     *)
Calm ==
  /\ UNCHANGED view /\ MachineOK' /\ SameMode
  /\ \/ ready' = ready
     \/ \E item \in Items \ Opening : ready' = ready \o <<item>>

LEMMA CalmKeeps ==
  ASSUME ScreensInv, Calm
  PROVE  ScreensInv'
<1>1. ViewOK' /\ Farther BY StaysThere DEF ScreensInv, TypesOK, Calm
<1>2. ready' \in Seq(Items) /\ WayHome' BY <1>1, PublishKeepsWay DEF ScreensInv, Calm
<1> QED BY <1>1, <1>2 DEF ScreensInv, TypesOK, Calm

LEMMA Announced ==
  {"go_to_payment", "go_to_no_change", "go_to_error", "refund_failed",
   "transaction_cancelled", "transaction_completed", "cash_amount_updated",
   "payment_confirmed", "product_dispensed", "delivery_window_opened",
   "pickup_timeout_elapsed", "manual_review_required", "machine_faulted",
   "service_door_opened"} \cup Clicks \subseteq Items \ Opening
BY DEF Items, Clicks, LoopEvents, OtherEvents, Ends, Opening

LEMMA PressKeeps ==
  ASSUME ScreensInv, Press
  PROVE  ScreensInv'
<1>1. PICK button \in Buttons(shown) : ready' = ready \o <<button>> BY DEF Press, Publish
<1>2. button \in Clicks
  BY <1>1 DEF Buttons, StatusButtons, CatalogButtons, PaymentButtons, ServiceButtons, Clicks
<1>3. UNCHANGED <<view, application>> BY DEF Press
<1>4. MachineOK' /\ SameMode
  BY <1>3 DEF ScreensInv, TypesOK, MachineOK, SameMode, application
<1> QED BY <1>1, <1>2, <1>3, <1>4, Announced, CalmKeeps DEF Calm

LEMMA PollKeeps ==
  ASSUME ScreensInv, PollFaults \/ PollDoor
  PROVE  ScreensInv'
<1>1. ASSUME NEW bad, NEW reason \in Reasons,
             NEW event \in {"machine_faulted", "service_door_opened"},
             Poll(bad, reason, event)
      PROVE  Calm
  <2>1. UNCHANGED view BY <1>1 DEF Poll
  <2>2. MachineOK' /\ SameMode BY <1>1 DEF Poll, ScreensInv, TypesOK, MachineOK, SameMode
  <2>3. ready' = ready \/ ready' = ready \o <<event>> BY <1>1 DEF Poll, Publish
  <2> QED BY <2>1, <2>2, <2>3, Announced DEF Calm
<1>2. {"device_fault", "service_door_open"} \subseteq Reasons BY DEF Reasons
<1> QED BY <1>1, <1>2, CalmKeeps DEF PollFaults, PollDoor

LEMMA SaleKeeps ==
  ASSUME ScreensInv, SaleStep
  PROVE  ScreensInv'
<1> USE DEF Publish
<1>1. MachineOK BY DEF ScreensInv, TypesOK
<1>2. ASSUME UNCHANGED machine PROVE MachineOK' /\ SameMode
  BY <1>1, <1>2 DEF MachineOK, SameMode
<1>3. CASE PurchaseStarts
  <2>1. MachineOK' /\ SameMode
    BY <1>1, <1>3 DEF PurchaseStarts, MachineOK, SameMode, MachineStates
  <2> QED BY <1>3, <2>1, CalmKeeps DEF PurchaseStarts, Calm
<1>4. CASE CheckoutRefused
  BY <1>2, <1>4, Announced, CalmKeeps DEF CheckoutRefused, Calm
<1>5. CASE CheckoutEnds
  <2>1. MachineOK' /\ SameMode
    <3>1. \A b \in BOOLEAN : machine' = [machine EXCEPT !.exact_change_only = b]
                               => MachineOK' /\ SameMode
      BY <1>1 DEF MachineOK, SameMode
    <3>2. machine' = Stopped("FAULT", {"validator_fault"}) => MachineOK' /\ SameMode
      BY <1>1, StopsTheMachine DEF MachineStates, Reasons
    <3> QED BY <1>5, <3>1, <3>2 DEF CheckoutEnds
  <2> QED BY <1>5, <2>1, Announced, CalmKeeps DEF CheckoutEnds, Calm
<1>6. CASE CancelEnds
  <2>1. MachineOK' /\ SameMode
    <3>1. machine' = [machine EXCEPT !.machine_state = "IDLE"] => MachineOK' /\ SameMode
      BY <1>1 DEF MachineOK, SameMode, MachineStates
    <3>2. machine' = Stopped("RECOVERY_PENDING", {}) => MachineOK' /\ SameMode
      BY <1>1, StopsTheMachine DEF MachineStates
    <3> QED BY <1>2, <1>6, <3>1, <3>2 DEF CancelEnds
  <2>2. Append(ready, "refund_failed") = ready \o <<"refund_failed">>
    BY AppendIsConcat, Announced DEF ScreensInv, TypesOK
  <2>3. UNCHANGED view BY <1>6 DEF CancelEnds
  <2>4. \/ ready' = ready
        \/ \E e \in {"transaction_cancelled", "refund_failed", "go_to_error"} :
             ready' = ready \o <<e>>
    BY <1>6, <2>2 DEF CancelEnds
  <2> QED BY <2>1, <2>3, <2>4, Announced, CalmKeeps DEF Calm
<1>7. CASE PickupEnds
  <2>1. machine' = [machine EXCEPT !.machine_state = "IDLE"] => MachineOK' /\ SameMode
    BY <1>1 DEF MachineOK, SameMode, MachineStates
  <2>2. MachineOK' /\ SameMode BY <1>2, <1>7, <2>1 DEF PickupEnds
  <2> QED BY <1>7, <2>2, Announced, CalmKeeps DEF PickupEnds, Calm
<1>8. CASE BillStacked
  BY <1>2, <1>8, Announced, CalmKeeps DEF BillStacked, Calm, application
<1>9. CASE PaymentConfirmed
  BY <1>2, <1>9, Announced, CalmKeeps DEF PaymentConfirmed, Calm
<1>10. CASE ProductDispensed
  BY <1>2, <1>10, Announced, CalmKeeps DEF ProductDispensed, Calm, application
<1>11. CASE DispensingEnds
  <2>1. \A s \in {"FAULT", "RECOVERY_PENDING"} :
          machine' = Stopped(s, {}) => MachineOK' /\ SameMode
    BY <1>1, StopsTheMachine DEF MachineStates
  <2>2. MachineOK' /\ SameMode BY <1>2, <1>11, <2>1 DEF DispensingEnds
  <2> QED BY <1>11, <2>2, Announced, CalmKeeps DEF DispensingEnds, Calm
<1>12. CASE ValidatorFails
  <2>1. machine' = Stopped("FAULT", {"validator_fault"}) => MachineOK' /\ SameMode
    BY <1>1, StopsTheMachine DEF MachineStates, Reasons
  <2>2. machine' = [machine EXCEPT !.sale_blockers = @ \cup {"validator_fault"}]
          => MachineOK' /\ SameMode
    BY <1>1 DEF MachineOK, SameMode, Reasons
  <2>3. MachineOK' /\ SameMode BY <1>12, <2>1, <2>2 DEF ValidatorFails
  <2> QED BY <1>12, <2>3, CalmKeeps DEF ValidatorFails, Calm
<1>13. CASE PickupTimeoutElapsed
  BY <1>2, <1>13, Announced, CalmKeeps DEF PickupTimeoutElapsed, Calm
<1>14. CASE TimeoutCloses
  <2>1. /\ machine' = Stopped("RECOVERY_PENDING", {"recovery_pending"})
             => MachineOK' /\ SameMode
        /\ machine' = Stopped("FAULT", {"delivery_window_fault"})
             => MachineOK' /\ SameMode
    BY <1>1, StopsTheMachine DEF MachineStates, Reasons
  <2>2. MachineOK' /\ SameMode BY <1>14, <2>1 DEF TimeoutCloses
  <2> QED BY <1>14, <2>2, Announced, CalmKeeps DEF TimeoutCloses, Calm
<1> QED BY <1>3, <1>4, <1>5, <1>6, <1>7, <1>8, <1>9, <1>10, <1>11, <1>12, <1>13, <1>14
        DEF SaleStep

LEMMA EventMoves ==
  ASSUME ViewOK, NEW event, Show(Destination(event))
  PROVE  ViewOK' /\ Farther
<1>1. \/ \E screen \in {"payment", "dispensing", "pickup", "error", "sales_blocked",
                        "restricted"} : Destination(event) = GoTo(screen)
      \/ Destination(event) = Home
      \/ Destination(event) = nav
  BY DEF Destination
<1>2. {"payment", "dispensing", "pickup", "error", "sales_blocked", "restricted"}
        \subseteq Screens \ {"service"}
  BY DEF Screens, CustomerScreens, NoticeScreens
<1>3. CASE Destination(event) = nav BY <1>3, Shows DEF ViewOK, Farther
<1>4. CASE Destination(event) = Home BY <1>4, GoesHome DEF Farther
<1> QED BY <1>1, <1>2, <1>3, <1>4, GoesOn

LEMMA EventKeeps ==
  ASSUME ScreensInv, NEW event \in LoopEvents \cup OtherEvents, HandleDomainEvent(event)
  PROVE  ScreensInv'
<1>1. Turn(event, Continuation(event)) /\ Show(Destination(event)) /\ machine' = machine
  BY DEF HandleDomainEvent, application
<1>2. MachineOK' /\ SameMode BY <1>1 DEF ScreensInv, TypesOK, MachineOK, SameMode
<1>3. ViewOK' /\ Farther BY <1>1, EventMoves DEF ScreensInv, TypesOK
<1>4. event \in Items BY DEF Items
<1>5. CASE event = "service_mode_entered"
  <2> DEFINE next == <<"go_to_service">>
  <2>1. next \in Seq(Items) /\ Turn(event, next)
    BY <1>1, <1>5, Marks DEF Continuation, Opening
  <2>2. WayHome' BY <1>1, <1>2, <1>3, <1>5, <2>1, EntryGoesOn DEF ScreensInv
  <2> HIDE DEF next
  <2>3. ready' \in Seq(Items) BY <1>4, <2>1, Turned DEF ScreensInv, TypesOK
  <2> QED BY <1>2, <1>3, <2>2, <2>3 DEF ScreensInv, TypesOK
<1>6. CASE event = "service_mode_exited"
  <2> DEFINE next == <<"show_home">>
  <2>1. next \in Seq(Items) /\ Turn(event, next)
    BY <1>1, <1>6, Marks DEF Continuation, Closing
  <2>2. WayHome' BY <1>1, <1>2, <1>3, <1>6, <2>1, ExitGoesOn DEF ScreensInv
  <2> HIDE DEF next
  <2>3. ready' \in Seq(Items) BY <1>4, <2>1, Turned DEF ScreensInv, TypesOK
  <2> QED BY <1>2, <1>3, <2>2, <2>3 DEF ScreensInv, TypesOK
<1>7. CASE event \notin {"service_mode_entered", "service_mode_exited"}
  <2>1. \/ Continuation(event) = <<>>
        \/ \E end \in {"show_home", "go_to_restricted", "cancel_safe", "go_to_error"} :
             Continuation(event) = <<end>>
    BY <1>7 DEF Continuation
  <2>2. event \in Items \ Closing BY <1>4, <1>7 DEF Closing, LoopEvents, OtherEvents
  <2>3. {"show_home", "go_to_restricted", "cancel_safe", "go_to_error"} \subseteq Items \ Opening
    BY DEF Items, Clicks, Ends, Opening
  <2> QED BY <1>1, <1>2, <1>3, <2>1, <2>2, <2>3, TurnLeadsNowhere, TurnLeadsOn
<1> QED BY <1>5, <1>6, <1>7

(* The way home ends there; the way to the service screen is the one that  *)
(* a step home must follow.                                                *)
LEMMA TurnArrives ==
  ASSUME ScreensInv, ViewOK', machine' = machine,
         NEW item \in {"show_home", "go_to_service"}, Turn(item, <<>>),
         item = "show_home" => ~InReach(nav')
  PROVE  ScreensInv'
<1> DEFINE next == <<>>
<1>1. MachineOK' /\ SameMode BY DEF ScreensInv, TypesOK, MachineOK, SameMode
<1>2. WayHome' BY <1>1, TurnEnds DEF ScreensInv
<1>3. next \in Seq(Items) /\ Turn(item, next) /\ item \in Items
  BY EmptySeq, Marks DEF Opening, Closing
<1> HIDE DEF next
<1>4. ready' \in Seq(Items) BY <1>3, Turned DEF ScreensInv, TypesOK
<1> QED BY <1>1, <1>2, <1>4 DEF ScreensInv, TypesOK

LEMMA ModeKeeps ==
  ASSUME ScreensInv, EnterServiceMode \/ ExitServiceMode
  PROVE  ScreensInv'
<1>1. ViewOK'
  BY StaysThere DEF ScreensInv, TypesOK, EnterServiceMode, ExitServiceMode
<1>2. CASE EnterServiceMode
  <2> DEFINE next == <<"service_mode_entered">>
  <2>1. next \in Seq(Items) /\ Turn("open_service", next) /\ "open_service" \in Items
    BY <1>2, Marks DEF EnterServiceMode, Opening, Items, Clicks
  <2>2. MachineOK' /\ machine'.service_mode
    BY <1>2 DEF EnterServiceMode, ScreensInv, TypesOK, MachineOK, MachineStates
  <2> HIDE DEF next
  <2>3. ready' \in Seq(Items) BY <2>1, Turned DEF ScreensInv, TypesOK
  <2> QED BY <1>1, <2>2, <2>3 DEF ScreensInv, TypesOK, WayHome
<1>3. CASE ExitServiceMode
  <2> DEFINE next == <<"service_mode_exited">>
  <2>1. next \in Seq(Items) /\ Turn("exit_service", next) /\ "exit_service" \in Items
    BY <1>3, Marks DEF ExitServiceMode, Closing, Items, Clicks
  <2>2. MachineOK'
    BY <1>3 DEF ExitServiceMode, ScreensInv, TypesOK, MachineOK, MachineStates
  <2>3. WayHome' BY <2>1, ExitBegins DEF ScreensInv
  <2> HIDE DEF next
  <2>4. ready' \in Seq(Items) BY <2>1, Turned DEF ScreensInv, TypesOK
  <2> QED BY <1>1, <2>2, <2>3, <2>4 DEF ScreensInv, TypesOK
<1> QED BY <1>2, <1>3

(* The clicks and ends of clicks that change only the screen.              *)
LEMMA ScreenKeeps ==
  ASSUME ScreensInv, ShowHome \/ Walk \/ Return
  PROVE  ScreensInv'
<1>1. ViewOK /\ machine' = machine
  BY DEF ScreensInv, TypesOK, ShowHome, Walk, Return, application
<1>2. MachineOK' /\ SameMode BY <1>1 DEF ScreensInv, TypesOK, MachineOK, SameMode
<1>3. ASSUME NEW item \in Items \ Closing, NEW screen \in Screens \ {"service"},
             Turn(item, <<>>), Show(GoTo(screen))
      PROVE  ScreensInv'
  BY <1>1, <1>2, <1>3, GoesOn, TurnLeadsNowhere
<1>4. CASE ShowHome BY <1>1, <1>4, GoesHome, TurnArrives DEF ShowHome
<1>5. CASE Walk
  <2>1. /\ {"show_catalog", "show_product_details", "show_diagnostics", "back"}
              \subseteq Items \ Closing
        /\ {"catalog", "product_details", "diagnostics"} \subseteq Screens \ {"service"}
    BY DEF Items, Clicks, Closing, Screens, CustomerScreens, StaffScreens
  <2>2. CASE Turn("back", <<>>) /\ Show(Back)
    BY <1>1, <1>2, <2>1, <2>2, GoesBack, TurnLeadsNowhere
  <2> QED BY <1>3, <1>5, <2>1, <2>2 DEF Walk
<1>6. CASE Return
  <2>1. /\ {"go_to_payment", "go_to_no_change", "go_to_error", "go_to_restricted"}
              \subseteq Items \ Closing
        /\ {"payment", "no_change", "error", "restricted"} \subseteq Screens \ {"service"}
    BY DEF Items, Ends, Closing, Screens, CustomerScreens, NoticeScreens
  <2>2. CASE Turn("go_to_service", <<>>) /\ Show(GoTo("service"))
    BY <1>1, <2>2, GoesToService, TurnArrives
  <2> QED BY <1>3, <1>6, <2>1, <2>2 DEF Return
<1> QED BY <1>4, <1>5, <1>6

(* The clicks that begin something else.                                   *)
LEMMA ClickKeeps ==
  ASSUME ScreensInv,
         \/ Simulate \/ \E click \in DeviceClicks : Command(click)
         \/ RecoverTransaction \/ RecoverAsCancelled \/ ClearSimulatorFaults
  PROVE  ScreensInv'
<1>1. ViewOK /\ MachineOK BY DEF ScreensInv, TypesOK
<1>2. UNCHANGED machine => MachineOK' /\ SameMode BY <1>1 DEF MachineOK, SameMode
<1>3. {"insert_bill", "inject_fault", "clear_simulator_faults", "recover_transaction",
       "cancel_safe"} \cup DeviceClicks \subseteq Items \ Closing
  BY DEF Items, Clicks, Ends, DeviceClicks, Closing
<1>4. {"simulator_bill_inserted", "simulator_action_applied", "recovery_started",
       "recovery_started_safely", "recovery_completed"} \subseteq Items \ Opening
  BY DEF Items, OtherEvents, Opening
<1>5. CASE Simulate
  <2>1. ViewOK' /\ Farther BY <1>1, <1>5, StaysThere DEF Simulate
  <2>2. MachineOK' /\ SameMode BY <1>2, <1>5 DEF Simulate, application
  <2> QED BY <1>3, <1>4, <1>5, <2>1, <2>2, TurnLeadsNowhere, TurnLeadsOn DEF Simulate
<1>6. ASSUME NEW click \in DeviceClicks, Command(click) PROVE ScreensInv'
  <2>1. Turn(click, <<>>) /\ MachineOK' /\ SameMode BY <1>2, <1>6 DEF Command
  <2>2. \/ UNCHANGED <<nav, session, shown>>
        \/ Show(GoTo("catalog"))
        \/ Show(Home)
    BY <1>6 DEF Command
  <2>3. "catalog" \in Screens \ {"service"} BY DEF Screens, CustomerScreens
  <2>4. Show(Home) => ViewOK' /\ Farther BY GoesHome DEF Farther
  <2>5. UNCHANGED <<nav, session, shown>> => ViewOK' /\ Farther
    BY <1>1, StaysThere DEF view
  <2>6. ViewOK' /\ Farther BY <1>1, <2>2, <2>3, <2>4, <2>5, GoesOn
  <2> QED BY <1>3, <1>6, <2>1, <2>6, TurnLeadsNowhere
<1>7. CASE RecoverTransaction
  <2>1. ViewOK' /\ Farther BY <1>1, <1>7, StaysThere DEF RecoverTransaction
  <2>2. MachineOK' /\ SameMode
    BY <1>1, <1>7, StopsTheMachine DEF RecoverTransaction, MachineStates, Reasons
  <2>3. \E end \in {"recovery_started", "recovery_started_safely"} :
          Turn("recover_transaction", <<end>>)
    BY <1>7 DEF RecoverTransaction
  <2> QED BY <1>3, <1>4, <2>1, <2>2, <2>3, TurnLeadsOn
<1>8. CASE RecoverAsCancelled
  <2>1. ViewOK' /\ Farther BY <1>1, <1>8, StaysThere DEF RecoverAsCancelled
  <2>2. MachineOK' /\ SameMode
    BY <1>1, <1>8 DEF RecoverAsCancelled, MachineOK, SameMode, MachineStates
  <2>3. Turn("cancel_safe", <<"recovery_completed">>) BY <1>8 DEF RecoverAsCancelled
  <2> QED BY <1>3, <1>4, <2>1, <2>2, <2>3, TurnLeadsOn
<1>9. CASE ClearSimulatorFaults
  <2>1. ViewOK' /\ Farther BY <1>1, <1>9, StaysThere DEF ClearSimulatorFaults
  <2>2. MachineOK' /\ SameMode BY <1>2, <1>9 DEF ClearSimulatorFaults
  <2>3. Turn("clear_simulator_faults", <<"simulator_action_applied">>)
    BY <1>9 DEF ClearSimulatorFaults
  <2> QED BY <1>3, <1>4, <2>1, <2>2, <2>3, TurnLeadsOn
<1> QED BY <1>5, <1>6, <1>7, <1>8, <1>9

(* ------------------------------- The theorem --------------------------- *)

LEMMA InitEstablishesScreensInv ==
  Init => ScreensInv
<1> SUFFICES ASSUME Init PROVE ScreensInv OBVIOUS
<1>1. ViewOK
  BY EmptySeq DEF Init, ViewOK, Screens, CustomerScreens
<1>2. MachineOK BY DEF Init, MachineOK, MachineStates
<1>3. ready \in Seq(Items) /\ Len(ready) = 0 BY EmptySeq DEF Init
<1>4. Len(nav.history) = 0 /\ nav.current = "home" BY EmptySeq DEF Init
<1>5. ~InReach(nav) BY <1>4 DEF InReach, Contains
<1> QED BY <1>1, <1>2, <1>3, <1>5 DEF ScreensInv, TypesOK, WayHome

LEMMA NextPreservesScreensInv ==
  ScreensInv /\ [Next]_<<scope, screenVars>> => ScreensInv'
<1> SUFFICES ASSUME ScreensInv, [Next]_<<scope, screenVars>> PROVE ScreensInv' OBVIOUS
<1>1. CASE Press BY <1>1, PressKeeps
<1>2. CASE Run
  BY <1>2, ScreenKeeps, ClickKeeps, ModeKeeps, EventKeeps DEF Run
<1>3. CASE SaleStep BY <1>3, SaleKeeps
<1>4. CASE DoorMoves
  <2>1. UNCHANGED <<view, ready, machine>> BY <1>4 DEF DoorMoves
  <2>2. MachineOK' /\ SameMode BY <2>1 DEF ScreensInv, TypesOK, MachineOK, SameMode
  <2> QED BY <2>1, <2>2, CalmKeeps DEF Calm
<1>5. CASE PollFaults \/ PollDoor BY <1>5, PollKeeps
<1>6. CASE UNCHANGED <<scope, screenVars>>
  <2>1. UNCHANGED <<view, ready, machine>> BY <1>6 DEF screenVars, application
  <2>2. MachineOK' /\ SameMode BY <2>1 DEF ScreensInv, TypesOK, MachineOK, SameMode
  <2> QED BY <2>1, <2>2, CalmKeeps DEF Calm
<1> QED BY <1>1, <1>2, <1>3, <1>4, <1>5, <1>6 DEF Next

(* The service screen is shown only in service mode, or while the step     *)
(* that leaves it is still in the queue: neither a button pressed twice,   *)
(* nor an event that comes between, nor back lead a customer there.        *)
THEOREM CustomersStayOut == Spec => []ServiceScreenNeedsServiceMode
<1>1. ScreensInv => ServiceScreenNeedsServiceMode
  BY DEF ScreensInv, TypesOK, ViewOK, MachineOK, WayHome, InReach,
         ServiceScreenNeedsServiceMode
<1> QED
  BY <1>1, InitEstablishesScreensInv, NextPreservesScreensInv, PTL DEF Spec
=============================================================================
