---------------------------- MODULE WebrtcProofs ----------------------------
(***************************************************************************)
(* Proofs about Webrtc, for either backend and any calls, sizes, limits    *)
(* and capacities: its state is well typed, an owner that was told Ready   *)
(* has a task with a data channel, and it receives the messages of the     *)
(* channel without a gap.                                                  *)
(***************************************************************************)
EXTENDS Webrtc, SequenceTheorems, TLAPS

CmdSeq == Seq(Item(CmdKind))
EvtSeq == Seq(Item(EvtKind))
MgrKind == CmdKind \cup {"Reg", "Look"}
MgrItem == [to : {"peer", "data", "manager"}, kind : MgrKind, n : Nat]
Seen == [ready : BOOLEAN, last : Nat, closed : BOOLEAN, dropped : BOOLEAN]

TaskOK ==
  /\ backend \in Backends /\ polite \in BOOLEAN
  /\ task \in {"setup", "loop", "sent"} \cup Gone
  /\ data \in BOOLEAN /\ shook \in BOOLEAN
CallOK == call \in [Calls -> {"idle", "waiting", "done", "refused"}]

(* The message of which the task reads the amount is still in front.       *)
CmdsOK ==
  /\ cmds \in CmdSeq /\ cmdOpen \in BOOLEAN
  /\ task = "sent" => cmds # << >>
EvtsOK == evts \in EvtSeq /\ evtOpen \in BOOLEAN
OwnOK == seen \in Seen /\ gives \in 0..MaxGives
LibOK ==
  /\ desc \in {"none", "Offer", "Answer"}
  /\ chan \in {"none", "connecting", "open", "closed"}
  /\ announced \in BOOLEAN /\ lost \in BOOLEAN
  /\ amount \in Nat /\ arrived \in 0..MaxIn /\ ice \in 0..MaxIce

(* The manager's queue names an object that has such events.               *)
Addressed(e) ==
  /\ e.to = "peer" => e.kind \in PeerCmd
  /\ e.to = "data" => e.kind \in DataCmd
Addressable == {e \in MgrItem : Addressed(e)}
MgrOK == mgr \in Seq(Addressable) /\ reg \in BOOLEAN
FwdOK ==
  /\ peerQ \in Seq(Item(PeerCmd)) /\ dataQ \in Seq(Item(DataCmd))
  /\ peerTask \in BOOLEAN /\ dataTask \in BOOLEAN

TypeInv == TaskOK /\ CallOK /\ CmdsOK /\ EvtsOK /\ OwnOK /\ LibOK /\ MgrOK /\ FwdOK

-----------------------------------------------------------------------------
(* Types.                                                                  *)

LEMMA KindsAre ==
  /\ Given = {"InOffer", "InAnswer", "InIce"}
  /\ PeerCmd = {"GeneratedIce", "DataChan", "Close", "Error"}
  /\ DataCmd = {"Open", "Message", "Low", "Close", "Error"}
  /\ EvtKind = {"Offer", "Answer", "GeneratedIce", "Message", "Ready", "Closed"}
  /\ Gone = {"ended", "stillborn"}
  /\ CmdKind = {"InOffer", "InAnswer", "InIce", "GeneratedIce", "DataChan", "Close", "Error",
                "Open", "Message", "Low", "Send", "Offer", "Answer"}
  BY DEF Given, PeerCmd, DataCmd, EvtKind, Gone, CmdKind

LEMMA ItType ==
  ASSUME NEW K, NEW k \in K, NEW n \in Nat
  PROVE  It(k, n) \in Item(K) /\ It(k, n).kind = k /\ It(k, n).n = n
  BY DEF It, Item

LEMMA HeadType ==
  ASSUME NEW K, NEW q \in Seq(Item(K)), q # << >>
  PROVE  /\ Head(q) \in Item(K) /\ Tail(q) \in Seq(Item(K))
         /\ Head(q).kind \in K /\ Head(q).n \in Nat
<1>1. Head(q) \in Item(K) /\ Tail(q) \in Seq(Item(K))
  OBVIOUS
<1> QED BY <1>1 DEF Item

LEMMA TypeInvMeans == TypeInv => TypeOK
<1>1. ASSUME MgrOK
      PROVE  /\ mgr \in Seq([to : {"peer", "data", "manager"}, kind : CmdKind \cup {"Reg", "Look"}, n : Nat])
             /\ reg \in BOOLEAN
  <2>1. Addressable \subseteq MgrItem
    BY DEF Addressable
  <2>2. mgr \in Seq(MgrItem)
    BY <1>1, <2>1 DEF MgrOK
  <2> QED BY <1>1, <2>2 DEF MgrOK, MgrItem, MgrKind
<1>2. TaskOK /\ CallOK /\ CmdsOK /\ EvtsOK /\ OwnOK /\ LibOK /\ FwdOK /\ MgrOK => TypeOK
  BY <1>1 DEF TaskOK, CallOK, CmdsOK, EvtsOK, OwnOK, LibOK, FwdOK, TypeOK, CmdSeq, EvtSeq, Seen
<1> QED BY <1>2 DEF TypeInv

LEMMA Stays ==
  ASSUME TypeInv
  PROVE  /\ UNCHANGED << kind, task, data, shook >> => TaskOK'
         /\ UNCHANGED call => CallOK'
         /\ UNCHANGED << cmdVars, task >> => CmdsOK'
         /\ UNCHANGED evtVars => EvtsOK'
         /\ UNCHANGED own => OwnOK'
         /\ UNCHANGED lib => LibOK'
         /\ UNCHANGED << mgr, reg >> => MgrOK'
         /\ UNCHANGED fwd => FwdOK'
<1>1. UNCHANGED << kind, task, data, shook >> => TaskOK'
  BY DEF TypeInv, TaskOK, kind
<1>2. UNCHANGED call => CallOK'
  BY DEF TypeInv, CallOK
<1>3. UNCHANGED << cmdVars, task >> => CmdsOK'
  BY DEF TypeInv, CmdsOK, cmdVars
<1>4. UNCHANGED evtVars => EvtsOK'
  BY DEF TypeInv, EvtsOK, evtVars
<1>5. UNCHANGED own => OwnOK'
  BY DEF TypeInv, OwnOK, own
<1>6. UNCHANGED lib => LibOK'
  BY DEF TypeInv, LibOK, lib
<1>7. UNCHANGED << mgr, reg >> => MgrOK'
  BY DEF TypeInv, MgrOK
<1>8. UNCHANGED fwd => FwdOK'
  BY DEF TypeInv, FwdOK, fwd
<1> QED BY <1>1, <1>2, <1>3, <1>4, <1>5, <1>6, <1>7, <1>8

LEMMA PushesType ==
  ASSUME TypeInv, NEW c \in Item(CmdKind), Pushes(c), task' = task
  PROVE  CmdsOK'
<1>1. cmds \in CmdSeq /\ cmdOpen \in BOOLEAN
  BY DEF TypeInv, CmdsOK
<1>2. Append(cmds, c) \in CmdSeq /\ Append(cmds, c) # << >>
  BY <1>1 DEF CmdSeq
<1>3. cmds' \in CmdSeq /\ (cmds # << >> => cmds' # << >>)
  BY <1>1, <1>2 DEF Pushes
<1>4. cmdOpen' \in BOOLEAN
  BY <1>1 DEF Pushes, CmdFits
<1> QED BY <1>3, <1>4 DEF TypeInv, CmdsOK

LEMMA TakenType ==
  ASSUME TypeInv, Taken, cmds # << >>, task' # "sent"
  PROVE  CmdsOK'
<1>1. cmds' \in CmdSeq
  BY HeadType DEF TypeInv, CmdsOK, CmdSeq, Taken
<1> QED BY <1>1 DEF TypeInv, CmdsOK, Taken

LEMMA AppendType ==
  ASSUME TypeInv, NEW k \in EvtKind, NEW n \in Nat
  PROVE  Append(evts, It(k, n)) \in EvtSeq
<1>1. It(k, n) \in Item(EvtKind)
  BY ItType
<1> QED BY <1>1 DEF TypeInv, EvtsOK, EvtSeq

LEMMA EndsType ==
  ASSUME TypeInv, NEW how \in Gone, NEW es \in EvtSeq, EndsSaying(how, es),
         UNCHANGED << kind, data, shook, lib >>, OwnOK'
  PROVE  TypeInv'
<1>1. CallOK'
  BY DEF EndsSaying, TypeInv, CallOK
<1>2. EvtsOK'
  BY DEF EndsSaying, TypeInv, EvtsOK
<1>3. TaskOK'
  BY DEF EndsSaying, TypeInv, TaskOK, kind
<1>4. CmdsOK'
  <2>1. cmds' = << >> /\ cmdOpen' = FALSE /\ task' # "sent"
    BY KindsAre DEF EndsSaying
  <2>2. << >> \in CmdSeq
    BY DEF CmdSeq
  <2> QED BY <2>1, <2>2 DEF CmdsOK
<1>5. MgrOK' /\ FwdOK'
  <2>1. /\ mgr' = << >> /\ reg' = FALSE /\ peerQ' = << >> /\ dataQ' = << >>
        /\ peerTask' = FALSE /\ dataTask' = FALSE
    BY DEF EndsSaying
  <2>2. << >> \in Seq(Addressable) /\ << >> \in Seq(Item(PeerCmd)) /\ << >> \in Seq(Item(DataCmd))
    OBVIOUS
  <2> QED BY <2>1, <2>2 DEF MgrOK, FwdOK
<1> QED BY <1>1, <1>2, <1>3, <1>4, <1>5, Stays DEF TypeInv

LEMMA EndsPlainType ==
  ASSUME TypeInv, NEW how \in Gone, Ends(how), UNCHANGED << kind, data, shook, own, lib >>
  PROVE  TypeInv'
<1>1. evts \in EvtSeq
  BY DEF TypeInv, EvtsOK
<1> QED BY <1>1, EndsType, Stays DEF Ends

LEMMA AllAnsweredType ==
  ASSUME TypeInv
  PROVE  /\ call' = AllAnswered => CallOK'
         /\ call' = (IF MustWait THEN call ELSE AllAnswered) => CallOK'
<1>1. AllAnswered \in [Calls -> {"idle", "waiting", "done", "refused"}]
  BY DEF TypeInv, CallOK, AllAnswered
<1>2. CASE MustWait
  BY <1>1, <1>2 DEF TypeInv, CallOK
<1>3. CASE ~MustWait
  BY <1>1, <1>3 DEF CallOK
<1> QED BY <1>2, <1>3

-----------------------------------------------------------------------------
LEMMA OwnerType ==
  ASSUME TypeInv, OwnerStep
  PROVE  TypeInv'
<1>1. ASSUME NEW k \in Given, Gives(k) PROVE TypeInv'
  <2>1. It(k, 0) \in Item(CmdKind)
    BY ItType, KindsAre
  <2>2. CmdsOK'
    BY <1>1, <2>1, PushesType DEF Gives
  <2>3. gives' \in 0..MaxGives
    BY <1>1, WebrtcAssumption DEF Gives, TypeInv, OwnOK
  <2>4. OwnOK'
    BY <1>1, <2>3 DEF Gives, TypeInv, OwnOK
  <2> QED BY <1>1, <2>2, <2>4, Stays DEF Gives, TypeInv
<1>2. ASSUME NEW m \in Calls, Message(m) PROVE TypeInv'
  <2>1. It("Send", m) \in Item(CmdKind)
    BY ItType, KindsAre, WebrtcAssumption
  <2>2. CmdsOK'
    BY <1>2, <2>1, PushesType DEF Message
  <2>3. CallOK'
    BY <1>2 DEF Message, TypeInv, CallOK
  <2> QED BY <1>2, <2>2, <2>3, Stays DEF Message, TypeInv
<1>3. CASE Receives
  <2>1. Head(evts).n \in Nat /\ evts' \in EvtSeq
    BY <1>3, HeadType DEF Receives, TypeInv, EvtsOK, EvtSeq
  <2>2. EvtsOK'
    BY <1>3, <2>1 DEF Receives, TypeInv, EvtsOK
  <2>3. OwnOK'
    BY <1>3, <2>1 DEF Receives, TypeInv, OwnOK, Seen
  <2> QED BY <1>3, <2>2, <2>3, Stays DEF Receives, TypeInv
<1>4. CASE Drops
  <2>1. OwnOK'
    BY <1>4 DEF Drops, TypeInv, OwnOK, Seen
  <2>2. evts \in EvtSeq /\ "ended" \in Gone
    BY KindsAre DEF TypeInv, EvtsOK
  <2> QED BY <1>4, <2>1, <2>2, EndsType DEF Drops, Ends
<1> QED BY <1>1, <1>2, <1>3, <1>4 DEF OwnerStep

LEMMA IgnoresType ==
  ASSUME TypeInv, NEW k, Ignores(k)
  PROVE  TypeInv'
<1>1. CmdsOK'
  BY TakenType DEF Ignores, Takes, Goes
<1> QED BY <1>1, Stays DEF Ignores, Goes, TypeInv

LEMMA ErrsType ==
  ASSUME TypeInv, NEW k, Errs(k)
  PROVE  TypeInv'
  BY EndsPlainType, KindsAre DEF Errs

LEMMA TellsType ==
  ASSUME TypeInv, NEW k, NEW j \in EvtKind, NEW n \in Nat, Tells(k, It(j, n))
  PROVE  TypeInv'
<1>1. CASE /\ evts' = Append(evts, It(j, n)) /\ evtOpen' = evtOpen
           /\ Taken /\ Goes /\ mgr' = mgr
  <2>1. EvtsOK'
    BY <1>1, AppendType DEF TypeInv, EvtsOK
  <2>2. CmdsOK'
    BY <1>1, TakenType DEF Tells, Takes, Goes
  <2> QED BY <1>1, <2>1, <2>2, Stays DEF Tells, Goes, TypeInv
<1>2. CASE Ends("ended")
  BY <1>2, EndsPlainType, KindsAre DEF Tells
<1> QED BY <1>1, <1>2 DEF Tells

LEMMA DescriptionType ==
  ASSUME TypeInv, TakesDescription
  PROVE  TypeInv'
<1>1. CASE AcceptsOffer
  <2>1. CmdsOK'
    BY <1>1, TakenType DEF AcceptsOffer, Takes, Goes
  <2>2. evts' \in EvtSeq /\ desc' \in {"none", "Offer", "Answer"}
    BY <1>1, AppendType, KindsAre DEF AcceptsOffer, TypeInv, EvtsOK, LibOK
  <2>3. EvtsOK' /\ LibOK'
    BY <1>1, <2>2 DEF AcceptsOffer, TypeInv, EvtsOK, LibOK
  <2>4. TaskOK'
    BY <1>1 DEF AcceptsOffer, Goes, TypeInv, TaskOK, kind
  <2> QED BY <1>1, <2>1, <2>3, <2>4, Stays DEF AcceptsOffer, Goes, TypeInv
<1>2. CASE AnswersInVain
  <2>1. Append(evts, It("Answer", 0)) \in EvtSeq /\ "ended" \in Gone
    BY AppendType, KindsAre
  <2> QED BY <1>2, <2>1, EndsType, Stays DEF AnswersInVain
<1>3. CASE AcceptsAnswer
  <2>1. CmdsOK'
    BY <1>3, TakenType DEF AcceptsAnswer, Takes, Goes
  <2>2. TaskOK'
    BY <1>3 DEF AcceptsAnswer, Goes, TypeInv, TaskOK, kind
  <2> QED BY <1>3, <2>1, <2>2, Stays DEF AcceptsAnswer, Goes, TypeInv
<1> QED BY <1>1, <1>2, <1>3, IgnoresType, ErrsType DEF TakesDescription

LEMMA SetsUpType ==
  ASSUME TypeInv, SetsUp
  PROVE  TypeInv'
<1>1. EvtsOK'
  <2>1. It("Offer", 0) \in Item(EvtKind)
    BY ItType, KindsAre
  <2>2. << It("Offer", 0) >> \in EvtSeq /\ << >> \in EvtSeq
    BY <2>1 DEF EvtSeq
  <2> QED BY <2>2 DEF SetsUp, TypeInv, EvtsOK
<1>2. MgrOK'
  <2> DEFINE r == [to |-> "manager", kind |-> "Reg", n |-> 0]
  <2>1. r \in Addressable
    BY DEF Addressable, Addressed, MgrItem, MgrKind
  <2>2. << r >> \in Seq(Addressable) /\ << >> \in Seq(Addressable)
    BY <2>1
  <2>3. mgr' \in {<< r >>, << >>} /\ reg' = reg
    BY DEF SetsUp
  <2> QED BY <2>2, <2>3 DEF TypeInv, MgrOK
<1>3. TaskOK'
  BY DEF SetsUp, TypeInv, TaskOK, kind
<1>4. CmdsOK'
  BY DEF SetsUp, TypeInv, CmdsOK, cmdVars
<1>5. LibOK'
  BY DEF SetsUp, TypeInv, LibOK
<1>6. FwdOK'
  BY DEF SetsUp, TypeInv, FwdOK
<1> QED BY <1>1, <1>2, <1>3, <1>4, <1>5, <1>6, Stays DEF SetsUp, TypeInv

LEMMA SendType ==
  ASSUME TypeInv, Buffers \/ SendFails \/ ReadsAmount \/ TakesLow
  PROVE  TypeInv'
<1>1. CASE Buffers
  <2>1. amount' \in Nat
    BY <1>1, WebrtcAssumption DEF Buffers, TypeInv, LibOK
  <2>2. LibOK'
    BY <1>1, <2>1 DEF Buffers, TypeInv, LibOK
  <2>3. TaskOK' /\ CmdsOK'
    BY <1>1 DEF Buffers, Takes, TypeInv, TaskOK, CmdsOK, kind, cmdVars
  <2> QED BY <1>1, <2>2, <2>3, Stays DEF Buffers, TypeInv
<1>2. CASE ReadsAmount
  <2>1. CmdsOK'
    BY <1>2, TakenType DEF ReadsAmount, TypeInv, CmdsOK
  <2>2. TaskOK'
    BY <1>2 DEF ReadsAmount, TypeInv, TaskOK, kind
  <2> QED BY <1>2, <2>1, <2>2, Stays, AllAnsweredType DEF ReadsAmount, TypeInv
<1>3. CASE TakesLow
  <2>1. CmdsOK'
    BY <1>3, TakenType DEF TakesLow, Takes
  <2> QED BY <1>3, <2>1, Stays, AllAnsweredType DEF TakesLow, TypeInv
<1> QED BY <1>1, <1>2, <1>3, ErrsType DEF SendFails

LEMMA TaskType ==
  ASSUME TypeInv, TaskStep
  PROVE  TypeInv'
<1>1. CASE SetupFails
  BY <1>1, EndsPlainType, KindsAre DEF SetupFails
<1>2. CASE TakesIce
  BY <1>2, IgnoresType, ErrsType DEF TakesIce
<1>3. CASE TakesDataChan
  <2>1. CmdsOK'
    BY <1>3, TakenType DEF TakesDataChan, Takes
  <2>2. TaskOK' /\ FwdOK'
    BY <1>3 DEF TakesDataChan, TypeInv, TaskOK, FwdOK, kind
  <2> QED BY <1>3, <2>1, <2>2, Stays DEF TakesDataChan, TypeInv
<1>4. CASE RefusesDataChan
  BY <1>4, IgnoresType, ErrsType DEF RefusesDataChan
<1>5. CASE Forwards
  <2>1. CASE Tells("Message", It("Message", Head(cmds).n))
    <3>1. Head(cmds).n \in Nat
      BY <2>1, HeadType DEF Tells, Takes, TypeInv, CmdsOK, CmdSeq
    <3> QED BY <2>1, <3>1, TellsType, KindsAre
  <2>2. ASSUME NEW k \in {"Offer", "Answer", "GeneratedIce"}, Tells(k, It(k, 0))
        PROVE  TypeInv'
    BY <2>2, TellsType, KindsAre
  <2>3. CASE Tells("Open", It("Ready", 0))
    BY <2>3, TellsType, KindsAre
  <2> QED BY <1>5, <2>1, <2>2, <2>3 DEF Forwards
<1>6. CASE TakesClose
  <2> DEFINE es == IF EvtFits THEN Append(evts, It("Closed", 0)) ELSE evts
  <2>1. es \in EvtSeq
    BY AppendType, KindsAre DEF TypeInv, EvtsOK
  <2>2. EndsSaying("ended", es) /\ "ended" \in Gone
    BY <1>6, KindsAre DEF TakesClose
  <2> HIDE DEF es
  <2> QED BY <1>6, <2>1, <2>2, EndsType, Stays DEF TakesClose
<1>7. CASE RunsDry
  BY <1>7, EndsPlainType, KindsAre DEF RunsDry
<1> QED
  BY <1>1, <1>2, <1>3, <1>4, <1>5, <1>6, <1>7, SetsUpType, DescriptionType, SendType, ErrsType
  DEF TaskStep

LEMMA EmitsType ==
  ASSUME TypeInv, NEW to \in {"peer", "data"}, NEW k, NEW n \in Nat, Emits(to, k, n),
         k \in IF to = "peer" THEN PeerCmd ELSE DataCmd, UNCHANGED << task, reg >>
  PROVE  CmdsOK' /\ MgrOK'
<1>0. k \in CmdKind
  BY DEF CmdKind
<1>1. CASE backend = "go"
  <2> DEFINE e == [to |-> to, kind |-> k, n |-> n]
  <2>1. e \in Addressable
    BY <1>0 DEF Addressable, Addressed, MgrItem, MgrKind
  <2>2. mgr' = Append(mgr, e) /\ UNCHANGED cmdVars
    BY <1>1 DEF Emits
  <2>3. mgr' \in Seq(Addressable)
    BY <2>1, <2>2 DEF TypeInv, MgrOK
  <2> QED BY <2>2, <2>3, Stays DEF TypeInv, MgrOK
<1>2. CASE backend # "go"
  <2>1. It(k, n) \in Item(CmdKind)
    BY <1>0, ItType
  <2> QED BY <1>2, <2>1, PushesType, Stays DEF Emits
<1> QED BY <1>1, <1>2

LEMMA LibType ==
  ASSUME TypeInv, LibStep \/ Describes \/ Drains
  PROVE  TypeInv'
<1>0. ASSUME LibOK', CmdsOK', MgrOK', UNCHANGED Rest PROVE TypeInv'
  BY <1>0, Stays DEF Rest, TypeInv
<1>1. CASE Describes
  <2>1. It(desc, 0) \in Item(CmdKind)
    BY <1>1, ItType, KindsAre DEF Describes, TypeInv, LibOK
  <2>2. CmdsOK'
    BY <1>1, <2>1, PushesType DEF Describes, Rest
  <2>3. LibOK'
    BY <1>1 DEF Describes, TypeInv, LibOK
  <2> QED BY <1>0, <1>1, <2>2, <2>3, Stays DEF Describes, Rest
<1>2. CASE FindsIce
  <2>1. CmdsOK' /\ MgrOK'
    BY <1>2, EmitsType, KindsAre DEF FindsIce, Rest
  <2>2. LibOK'
    BY <1>2, WebrtcAssumption DEF FindsIce, TypeInv, LibOK
  <2> QED BY <1>0, <1>2, <2>1, <2>2 DEF FindsIce
<1>3. CASE Announces
  <2>1. CmdsOK' /\ MgrOK'
    BY <1>3, EmitsType, KindsAre DEF Announces, Rest
  <2>2. LibOK'
    BY <1>3 DEF Announces, TypeInv, LibOK
  <2> QED BY <1>0, <1>3, <2>1, <2>2 DEF Announces
<1>4. CASE ChanOpens
  <2>1. CmdsOK' /\ MgrOK'
    BY <1>4, EmitsType, KindsAre DEF ChanOpens, Rest
  <2>2. LibOK'
    BY <1>4 DEF ChanOpens, TypeInv, LibOK
  <2> QED BY <1>0, <1>4, <2>1, <2>2 DEF ChanOpens
<1>5. CASE MessageArrives
  <2>0. arrived + 1 \in Nat /\ arrived' \in 0..MaxIn
    BY <1>5, WebrtcAssumption DEF MessageArrives, TypeInv, LibOK
  <2>1. CmdsOK' /\ MgrOK'
    BY <1>5, <2>0, EmitsType, KindsAre DEF MessageArrives, Rest
  <2>2. LibOK'
    BY <1>5, <2>0 DEF MessageArrives, TypeInv, LibOK
  <2> QED BY <1>0, <1>5, <2>1, <2>2 DEF MessageArrives
<1>6. CASE Drains
  <2>3. amount' \in Nat
    BY <1>6 DEF Drains, TypeInv, LibOK
  <2>4. LibOK'
    BY <1>6, <2>3 DEF Drains, TypeInv, LibOK
  <2>5. CmdsOK' /\ MgrOK'
    <3>1. CASE amount = SendBuffer + 1
      BY <1>6, <3>1, EmitsType, KindsAre DEF Drains, Rest
    <3>2. CASE amount # SendBuffer + 1
      BY <1>6, <3>2, Stays DEF Drains, Rest
    <3> QED BY <3>1, <3>2
  <2> QED BY <1>0, <1>6, <2>4, <2>5 DEF Drains
<1>7. CASE ChanCloses
  <2>1. CmdsOK' /\ MgrOK'
    BY <1>7, EmitsType, KindsAre DEF ChanCloses, Rest
  <2>2. LibOK'
    BY <1>7 DEF ChanCloses, TypeInv, LibOK
  <2> QED BY <1>0, <1>7, <2>1, <2>2 DEF ChanCloses
<1>8. CASE ConnectionLost
  <2>1. CmdsOK' /\ MgrOK'
    BY <1>8, EmitsType, KindsAre DEF ConnectionLost, Rest
  <2>2. LibOK'
    BY <1>8 DEF ConnectionLost, TypeInv, LibOK
  <2> QED BY <1>0, <1>8, <2>1, <2>2 DEF ConnectionLost
<1> QED BY <1>1, <1>2, <1>3, <1>4, <1>5, <1>6, <1>7, <1>8 DEF LibStep

LEMMA ManagerType ==
  ASSUME TypeInv, ManagerStep
  PROVE  TypeInv'
<1>0. ASSUME MgrOK', FwdOK', UNCHANGED ManagerRest PROVE TypeInv'
  BY <1>0, Stays DEF ManagerRest, TypeInv
<1>1. ASSUME mgr # << >>
      PROVE  /\ Head(mgr) \in MgrItem /\ Addressed(Head(mgr))
             /\ Tail(mgr) \in Seq(Addressable)
  <2>1. Head(mgr) \in Addressable /\ Tail(mgr) \in Seq(Addressable)
    BY <1>1 DEF TypeInv, MgrOK
  <2> QED BY <2>1 DEF Addressable
<1>2. CASE MakesChannel
  <2> DEFINE look == << [to |-> "manager", kind |-> "Look", n |-> 0] >>
             regs == IF polite THEN << [to |-> "manager", kind |-> "Reg", n |-> 0] >> ELSE << >>
  <2>1. look \in Seq(Addressable) /\ regs \in Seq(Addressable)
    <3>1. /\ [to |-> "manager", kind |-> "Look", n |-> 0] \in Addressable
          /\ [to |-> "manager", kind |-> "Reg", n |-> 0] \in Addressable
      BY DEF Addressable, Addressed, MgrItem, MgrKind
    <3>2. << [to |-> "manager", kind |-> "Reg", n |-> 0] >> \in Seq(Addressable)
      BY <3>1
    <3>3. << >> \in Seq(Addressable)
      OBVIOUS
    <3>4. regs \in Seq(Addressable)
      BY <3>2, <3>3
    <3> QED BY <3>1, <3>4
  <2>2. mgr' = look \o Tail(mgr) \o regs
    BY <1>2 DEF MakesChannel
  <2> HIDE DEF look, regs
  <2>3. Tail(mgr) \in Seq(Addressable)
    BY <1>1, <1>2 DEF MakesChannel, IsFirst
  <2>4. mgr' \in Seq(Addressable)
    BY <2>1, <2>2, <2>3
  <2>5. MgrOK' /\ FwdOK'
    BY <1>2, <2>4 DEF MakesChannel, ManagerRest, TypeInv, MgrOK, FwdOK
  <2> QED BY <1>0, <1>2, <2>5 DEF MakesChannel
<1>3. CASE Looks
  <2>1. Missed \in Seq(Item(DataCmd))
    <3>1. It("Open", 0) \in Item(DataCmd) /\ It("Close", 0) \in Item(DataCmd)
      BY ItType, KindsAre
    <3>2. /\ << It("Open", 0) >> \in Seq(Item(DataCmd))
          /\ << It("Close", 0) >> \in Seq(Item(DataCmd)) /\ << >> \in Seq(Item(DataCmd))
      BY <3>1
    <3>3. Missed \in {<< It("Open", 0) >>, << It("Close", 0) >>, << >>}
      BY DEF Missed
    <3> QED BY <3>2, <3>3
  <2>2. It("DataChan", 0) \in Item(PeerCmd)
    BY ItType, KindsAre
  <2>3. dataQ' \in Seq(Item(DataCmd)) /\ peerQ' \in Seq(Item(PeerCmd))
    BY <1>3, <2>1, <2>2 DEF Looks, TypeInv, FwdOK
  <2>4. MgrOK'
    BY <1>1, <1>3 DEF Looks, IsFirst, TypeInv, MgrOK
  <2>5. FwdOK'
    BY <1>3, <2>3 DEF Looks, ManagerRest, TypeInv, FwdOK
  <2> QED BY <1>0, <1>3, <2>4, <2>5 DEF Looks
<1>4. CASE Registers
  <2>1. mgr' \in Seq(Addressable) /\ reg' \in BOOLEAN
    BY <1>1, <1>4 DEF Registers, IsFirst
  <2>2. FwdOK'
    BY <1>4 DEF Registers, ManagerRest, TypeInv, FwdOK
  <2> QED BY <1>0, <1>4, <2>1, <2>2 DEF Registers, MgrOK
<1>5. CASE Delivers
  <2> DEFINE e == Head(mgr)
  <2>1. mgr # << >> /\ mgr' = Tail(mgr) /\ reg' = reg
    BY <1>5 DEF Delivers
  <2>2. e.n \in Nat /\ Addressed(e)
    BY <1>1, <2>1 DEF MgrItem
  <2>3. \/ e.to = "peer" /\ peerQ' = Append(peerQ, It(e.kind, e.n)) /\ dataQ' = dataQ
        \/ e.to = "data" /\ peerQ' = peerQ /\ dataQ' \in {dataQ, Append(dataQ, It(e.kind, e.n))}
    BY <1>5 DEF Delivers
  <2> HIDE DEF e
  <2>4. peerQ' \in Seq(Item(PeerCmd)) /\ dataQ' \in Seq(Item(DataCmd))
    <3>1. CASE e.to = "peer" /\ peerQ' = Append(peerQ, It(e.kind, e.n)) /\ dataQ' = dataQ
      <4>1. It(e.kind, e.n) \in Item(PeerCmd)
        BY <2>2, <3>1, ItType DEF Addressed
      <4> QED BY <3>1, <4>1 DEF TypeInv, FwdOK
    <3>2. CASE e.to = "data" /\ peerQ' = peerQ /\ dataQ' \in {dataQ, Append(dataQ, It(e.kind, e.n))}
      <4>1. It(e.kind, e.n) \in Item(DataCmd)
        BY <2>2, <3>2, ItType DEF Addressed
      <4>2. Append(dataQ, It(e.kind, e.n)) \in Seq(Item(DataCmd)) /\ dataQ \in Seq(Item(DataCmd))
        BY <4>1 DEF TypeInv, FwdOK
      <4> QED BY <3>2, <4>2 DEF TypeInv, FwdOK
    <3> QED BY <2>3, <3>1, <3>2
  <2>5. MgrOK'
    BY <1>1, <2>1 DEF TypeInv, MgrOK
  <2>6. FwdOK'
    BY <1>5, <2>4 DEF Delivers, ManagerRest, TypeInv, FwdOK
  <2> QED BY <1>0, <1>5, <2>5, <2>6 DEF Delivers
<1> QED BY <1>2, <1>3, <1>4, <1>5 DEF ManagerStep

LEMMA ForwardType ==
  ASSUME TypeInv, PeerForwards \/ DataForwards
  PROVE  TypeInv'
<1>0. cmds \in CmdSeq /\ cmdOpen \in BOOLEAN
  BY DEF TypeInv, CmdsOK
<1>1. CASE PeerForwards
  <2>1. /\ Head(peerQ) \in Item(PeerCmd) /\ Tail(peerQ) \in Seq(Item(PeerCmd))
        /\ Head(peerQ) \in Item(CmdKind)
    <3>1. Head(peerQ) \in Item(PeerCmd) /\ Tail(peerQ) \in Seq(Item(PeerCmd))
      BY <1>1, HeadType DEF PeerForwards, TypeInv, FwdOK
    <3> QED BY <3>1 DEF Item, CmdKind
  <2>2. Append(cmds, Head(peerQ)) \in CmdSeq /\ Append(cmds, Head(peerQ)) # << >>
    BY <1>0, <2>1 DEF CmdSeq
  <2>3. cmds' \in CmdSeq /\ (cmds # << >> => cmds' # << >>)
    BY <1>0, <1>1, <2>2 DEF PeerForwards
  <2>4. peerTask' \in BOOLEAN /\ cmdOpen' = peerTask'
    BY <1>1 DEF PeerForwards, CmdFits
  <2>5. CmdsOK' /\ FwdOK'
    BY <1>1, <2>1, <2>3, <2>4 DEF PeerForwards, TypeInv, CmdsOK, FwdOK
  <2> QED BY <1>1, <2>5, Stays DEF PeerForwards, TypeInv
<1>2. CASE DataForwards
  <2>1. /\ Tail(dataQ) \in Seq(Item(DataCmd)) /\ Head(dataQ) \in Item(CmdKind)
    <3>1. Head(dataQ) \in Item(DataCmd) /\ Tail(dataQ) \in Seq(Item(DataCmd))
      BY <1>2, HeadType DEF DataForwards, TypeInv, FwdOK
    <3> QED BY <3>1 DEF Item, CmdKind
  <2>2. CmdsOK'
    <3>1. CASE Head(dataQ).kind = "Close"
      BY <1>2, <3>1 DEF DataForwards, TypeInv, CmdsOK
    <3>2. CASE Head(dataQ).kind # "Close"
      BY <1>2, <2>1, <3>2, PushesType DEF DataForwards
    <3> QED BY <3>1, <3>2
  <2>3. FwdOK'
    <3>1. dataTask' \in BOOLEAN
      BY <1>2, <2>2 DEF DataForwards, CmdsOK
    <3> QED BY <1>2, <2>1, <3>1 DEF DataForwards, TypeInv, FwdOK
  <2> QED BY <1>2, <2>2, <2>3, Stays DEF DataForwards, TypeInv
<1> QED BY <1>1, <1>2

LEMMA TypeInvInit == Init => TypeInv
<1> SUFFICES ASSUME Init PROVE TypeInv
  OBVIOUS
<1>1. 0 \in 0..MaxGives /\ 0 \in 0..MaxIn /\ 0 \in 0..MaxIce
  BY WebrtcAssumption
<1>2. TaskOK /\ CallOK
  BY DEF Init, TaskOK, CallOK
<1>3. OwnOK
  BY <1>1 DEF Init, OwnOK, Seen
<1>4. LibOK
  BY <1>1 DEF Init, LibOK
<1>5. CmdsOK /\ EvtsOK
  BY DEF Init, CmdsOK, EvtsOK, CmdSeq, EvtSeq
<1>6. MgrOK /\ FwdOK
  <2>1. << >> \in Seq(Addressable) /\ << >> \in Seq(Item(PeerCmd)) /\ << >> \in Seq(Item(DataCmd))
    OBVIOUS
  <2>2. /\ mgr = << >> /\ peerQ = << >> /\ dataQ = << >>
        /\ reg = FALSE /\ peerTask = FALSE /\ dataTask = FALSE
    BY DEF Init
  <2> QED BY <2>1, <2>2 DEF MgrOK, FwdOK
<1> QED BY <1>2, <1>3, <1>4, <1>5, <1>6 DEF TypeInv

LEMMA TypeInvNext == TypeInv /\ [Next]_vars => TypeInv'
<1> SUFFICES ASSUME TypeInv, [Next]_vars PROVE TypeInv'
  OBVIOUS
<1>1. CASE UNCHANGED vars
  BY <1>1, Stays DEF vars, TypeInv, cmdVars
<1> QED BY <1>1, OwnerType, TaskType, LibType, ManagerType, ForwardType DEF Next

(* The state keeps its types, and in the manager's queue every event names *)
(* an object that has such events.                                         *)
THEOREM TypeInvHolds == Spec => []TypeInv
  BY TypeInvInit, TypeInvNext, PTL DEF Spec

(* A backend's state is well typed.                                        *)
THEOREM WebrtcTypeOK == Spec => []TypeOK
  BY TypeInvHolds, TypeInvMeans, PTL

-----------------------------------------------------------------------------
(* A task without a data channel has told nothing, and cannot: an opening  *)
(* is queued only behind the channel it is of.                             *)

HasChannel(q) == \E j \in 1..Len(q) : q[j].kind = "DataChan"
Behind(q) == \A i \in 1..Len(q) :
  q[i].kind = "Open" => \E j \in 1..Len(q) : j < i /\ q[j].kind = "DataChan"
Silent(es) == \A i \in 1..Len(es) : es[i].kind # "Ready"

Untold == ~seen.ready /\ Silent(evts)
Queued ==
  /\ Behind(cmds)
  /\ backend # "go" /\ chan # "none" /\ cmdOpen => HasChannel(cmds)
Deaf == ~dataTask /\ task # "sent" /\ (task = "loop" => polite)
Waiting == Untold /\ Queued /\ Deaf
ReadyInv ==
  /\ task = "setup" => ~data
  /\ data \/ Waiting

LEMMA BehindAppend ==
  ASSUME NEW q \in CmdSeq, NEW c \in Item(CmdKind)
  PROVE  /\ Behind(q) /\ (c.kind = "Open" => HasChannel(q)) => Behind(Append(q, c))
         /\ HasChannel(q) \/ c.kind = "DataChan" => HasChannel(Append(q, c))
<1> DEFINE a == Append(q, c)
<1>1. /\ Len(a) = Len(q) + 1 /\ Len(q) \in Nat
      /\ a[Len(q) + 1] = c /\ \A i \in 1..Len(q) : a[i] = q[i]
  BY DEF CmdSeq
<1> HIDE DEF a
<1>2. HasChannel(q) \/ c.kind = "DataChan" => HasChannel(a)
  BY <1>1 DEF HasChannel
<1>3. ASSUME Behind(q), c.kind = "Open" => HasChannel(q)
      PROVE  Behind(a)
  <2> SUFFICES ASSUME NEW i \in 1..Len(a), a[i].kind = "Open"
               PROVE  \E j \in 1..Len(a) : j < i /\ a[j].kind = "DataChan"
    BY DEF Behind
  <2>1. CASE i \in 1..Len(q)
    BY <1>1, <1>3, <2>1 DEF Behind
  <2>2. CASE i = Len(q) + 1
    BY <1>1, <1>3, <2>2 DEF HasChannel
  <2> QED BY <1>1, <2>1, <2>2
<1> QED BY <1>2, <1>3 DEF a

LEMMA BehindTail ==
  ASSUME NEW q \in CmdSeq, q # << >>, Head(q).kind # "DataChan"
  PROVE  /\ Behind(q) => Behind(Tail(q))
         /\ HasChannel(q) => HasChannel(Tail(q))
<1> DEFINE t == Tail(q)
<1>1. /\ Len(q) \in Nat /\ Len(t) = Len(q) - 1 /\ Head(q) = q[1]
      /\ \A i \in 1..Len(t) : t[i] = q[i + 1]
  BY DEF CmdSeq
<1> HIDE DEF t
<1>2. ASSUME NEW j \in 1..Len(q), q[j].kind = "DataChan"
      PROVE  j - 1 \in 1..Len(t) /\ t[j - 1].kind = "DataChan"
  <2>1. j # 1
    BY <1>1, <1>2
  <2>2. j - 1 \in 1..Len(t) /\ (j - 1) + 1 = j
    BY <1>1, <2>1
  <2> QED BY <1>1, <1>2, <2>2
<1>3. HasChannel(q) => HasChannel(t)
  BY <1>2 DEF HasChannel
<1>4. ASSUME Behind(q) PROVE Behind(t)
  <2> SUFFICES ASSUME NEW i \in 1..Len(t), t[i].kind = "Open"
               PROVE  \E j \in 1..Len(t) : j < i /\ t[j].kind = "DataChan"
    BY DEF Behind
  <2>1. i + 1 \in 1..Len(q) /\ q[i + 1].kind = "Open"
    BY <1>1
  <2>2. PICK j \in 1..Len(q) : j < i + 1 /\ q[j].kind = "DataChan"
    BY <1>4, <2>1 DEF Behind
  <2>3. j - 1 < i
    BY <2>2
  <2> QED BY <1>2, <2>2, <2>3
<1> QED BY <1>3, <1>4 DEF t

LEMMA BehindHead ==
  ASSUME NEW q \in CmdSeq, q # << >>, Behind(q)
  PROVE  Head(q).kind # "Open"
<1>1. Len(q) \in Nat /\ 1 \in 1..Len(q) /\ Head(q) = q[1]
  BY DEF CmdSeq
<1> QED BY <1>1 DEF Behind

LEMMA WaitingStays ==
  ASSUME Waiting
  PROVE  /\ UNCHANGED << seen, evts >> => Untold'
         /\ UNCHANGED << backend, chan, cmdVars >> => Queued'
         /\ UNCHANGED << polite, task, dataTask >> => Deaf'
<1>1. UNCHANGED << seen, evts >> => Untold'
  BY DEF Waiting, Untold
<1>2. UNCHANGED << backend, chan, cmdVars >> => Queued'
  BY DEF Waiting, Queued, cmdVars
<1>3. UNCHANGED << polite, task, dataTask >> => Deaf'
  BY DEF Waiting, Deaf
<1> QED BY <1>1, <1>2, <1>3

(* What is pushed is no opening, or there is a channel before it; and if   *)
(* the library's channel has just appeared, it is what is pushed.          *)
LEMMA PushesQueued ==
  ASSUME TypeInv, Waiting, NEW c \in Item(CmdKind), Pushes(c), backend' = backend,
         c.kind = "Open" => backend # "go" /\ chan # "none",
         chan' = chan \/ c.kind = "DataChan" \/ (chan # "none" /\ chan' # "none")
  PROVE  Queued'
<1>1. cmds \in CmdSeq /\ cmdOpen \in BOOLEAN
  BY DEF TypeInv, CmdsOK
<1>2. Queued
  BY DEF Waiting
<1>3. CASE CmdFits
  <2>1. cmds' = Append(cmds, c) /\ cmdOpen
    BY <1>3 DEF Pushes, CmdFits
  <2>2. Behind(cmds')
    BY <1>1, <1>2, <2>1, BehindAppend DEF Queued
  <2>3. backend' # "go" /\ chan' # "none" => HasChannel(cmds')
    BY <1>1, <1>2, <2>1, BehindAppend DEF Queued
  <2> QED BY <2>2, <2>3 DEF Queued
<1>4. CASE ~CmdFits
  BY <1>2, <1>4 DEF Pushes, Queued
<1> QED BY <1>3, <1>4

LEMMA TakenQueued ==
  ASSUME TypeInv, Waiting, Taken, cmds # << >>, Head(cmds).kind # "DataChan",
         UNCHANGED << backend, chan >>
  PROVE  Queued'
<1>1. cmds \in CmdSeq
  BY DEF TypeInv, CmdsOK
<1> QED BY <1>1, BehindTail DEF Waiting, Queued, Taken

LEMMA SilentAppend ==
  ASSUME NEW es \in EvtSeq, NEW e, Silent(es), e.kind # "Ready"
  PROVE  Silent(Append(es, e))
<1>1. /\ Len(Append(es, e)) = Len(es) + 1 /\ Len(es) \in Nat
      /\ Append(es, e)[Len(es) + 1] = e
      /\ \A i \in 1..Len(es) : Append(es, e)[i] = es[i]
  BY DEF EvtSeq
<1> QED BY <1>1 DEF Silent

LEMMA EndsWaiting ==
  ASSUME Waiting, NEW how \in Gone, NEW es, Silent(es), EndsSaying(how, es), ~seen'.ready
  PROVE  Waiting'
<1>1. Untold'
  BY DEF EndsSaying, Untold
<1>2. Queued'
  <2>1. cmds' = << >> /\ cmdOpen' = FALSE /\ Len(<< >>) = 0
    BY DEF EndsSaying
  <2> QED BY <2>1 DEF Queued, Behind
<1>3. Deaf'
  BY KindsAre DEF EndsSaying, Deaf
<1> QED BY <1>1, <1>2, <1>3 DEF Waiting

LEMMA EndsPlainWaiting ==
  ASSUME Waiting, NEW how \in Gone, Ends(how), seen' = seen
  PROVE  Waiting'
  BY EndsWaiting DEF Ends, Waiting, Untold


LEMMA OwnerWaiting ==
  ASSUME TypeInv, Waiting, OwnerStep
  PROVE  Waiting'
<1>1. ASSUME NEW k \in Given, Gives(k) PROVE Waiting'
  <2>1. It(k, 0) \in Item(CmdKind) /\ It(k, 0).kind # "Open"
    BY ItType, KindsAre
  <2>2. Queued'
    BY <1>1, <2>1, PushesQueued DEF Gives, kind, lib
  <2>3. Untold' /\ Deaf'
    BY <1>1, WaitingStays DEF Gives, kind, evtVars, fwd
  <2> QED BY <2>2, <2>3 DEF Waiting
<1>2. ASSUME NEW m \in Calls, Message(m) PROVE Waiting'
  <2>0. m \in Nat /\ "Send" \in CmdKind
    BY KindsAre, WebrtcAssumption
  <2>1. It("Send", m) \in Item(CmdKind) /\ It("Send", m).kind # "Open"
    BY <2>0, ItType
  <2>2. Queued'
    BY <1>2, <2>1, PushesQueued DEF Message, kind, lib
  <2>3. Untold' /\ Deaf'
    BY <1>2, WaitingStays DEF Message, kind, evtVars, own, fwd
  <2> QED BY <2>2, <2>3 DEF Waiting
<1>3. CASE Receives
  <2>1. evts \in EvtSeq /\ seen \in Seen /\ Silent(evts) /\ ~seen.ready
    BY DEF TypeInv, EvtsOK, OwnOK, Waiting, Untold
  <2>2. /\ Len(evts) \in Nat /\ 1 \in 1..Len(evts) /\ Head(evts) = evts[1]
        /\ Len(evts') = Len(evts) - 1
        /\ \A i \in 1..Len(evts') : evts'[i] = evts[i + 1]
    BY <1>3, <2>1 DEF Receives, EvtSeq
  <2>3. Silent(evts') /\ Head(evts).kind # "Ready"
    BY <2>1, <2>2 DEF Silent
  <2>4. ~seen'.ready
    BY <1>3, <2>1, <2>3 DEF Receives, Seen
  <2>5. Queued' /\ Deaf'
    BY <1>3, WaitingStays DEF Receives, kind, lib, fwd
  <2> QED BY <2>3, <2>4, <2>5 DEF Waiting, Untold
<1>4. CASE Drops
  <2>1. ~seen'.ready /\ Silent(evts) /\ "ended" \in Gone
    BY <1>4, KindsAre DEF Drops, TypeInv, OwnOK, Seen, Waiting, Untold
  <2> QED BY <1>4, <2>1, EndsWaiting DEF Drops, Ends
<1> QED BY <1>1, <1>2, <1>3, <1>4 DEF OwnerStep

LEMMA IgnoresWaiting ==
  ASSUME TypeInv, Waiting, NEW k, k # "DataChan", Ignores(k)
  PROVE  Waiting'
<1>1. Queued'
  BY TakenQueued DEF Ignores, Takes, kind, lib
<1>2. Untold' /\ Deaf'
  BY WaitingStays DEF Ignores, Goes, kind, evtVars, own, fwd
<1> QED BY <1>1, <1>2 DEF Waiting

LEMMA ErrsWaiting ==
  ASSUME Waiting, NEW k, Errs(k)
  PROVE  Waiting'
  BY EndsPlainWaiting, KindsAre DEF Errs, own

LEMMA TellsWaiting ==
  ASSUME TypeInv, Waiting, NEW k, NEW j, NEW n \in Nat, k # "DataChan", j # "Ready",
         Tells(k, It(j, n))
  PROVE  Waiting'
<1>1. CASE evts' = Append(evts, It(j, n)) /\ Taken /\ Goes
  <2>1. Silent(evts')
    BY <1>1, SilentAppend DEF It, Waiting, Untold, TypeInv, EvtsOK
  <2>2. Untold'
    BY <2>1 DEF Tells, own, Waiting, Untold
  <2>3. Queued'
    BY <1>1, TakenQueued DEF Tells, Takes, kind, lib
  <2>4. Deaf'
    BY <1>1, WaitingStays DEF Tells, Goes, kind, fwd
  <2> QED BY <2>2, <2>3, <2>4 DEF Waiting
<1>2. CASE Ends("ended")
  BY <1>2, EndsPlainWaiting, KindsAre DEF Tells, own
<1> QED BY <1>1, <1>2 DEF Tells

LEMMA DescriptionWaiting ==
  ASSUME TypeInv, Waiting, TakesDescription
  PROVE  Waiting'
<1>0. evts \in EvtSeq /\ Silent(evts) /\ It("Answer", 0).kind # "Ready" /\ ~seen.ready
  BY DEF TypeInv, EvtsOK, Waiting, Untold, It
<1>1. CASE AcceptsOffer
  <2>1. Silent(evts')
    BY <1>0, <1>1, SilentAppend DEF AcceptsOffer
  <2>2. Untold'
    BY <1>0, <1>1, <2>1 DEF AcceptsOffer, own, Untold
  <2>3. Queued'
    BY <1>1, TakenQueued DEF AcceptsOffer, Takes, kind
  <2>4. Deaf'
    BY <1>1, WaitingStays DEF AcceptsOffer, Goes, kind, fwd
  <2> QED BY <2>2, <2>3, <2>4 DEF Waiting
<1>2. CASE AnswersInVain
  <2>1. Silent(Append(evts, It("Answer", 0))) /\ ~seen'.ready
    BY <1>0, <1>2, SilentAppend DEF AnswersInVain, own
  <2> QED BY <1>2, <2>1, EndsWaiting, KindsAre DEF AnswersInVain
<1>3. CASE AcceptsAnswer
  <2>1. Queued'
    BY <1>3, TakenQueued DEF AcceptsAnswer, Takes, kind, lib
  <2>2. Untold' /\ Deaf'
    BY <1>3, WaitingStays DEF AcceptsAnswer, Goes, kind, evtVars, own, fwd
  <2> QED BY <2>1, <2>2 DEF Waiting
<1> QED BY <1>1, <1>2, <1>3, IgnoresWaiting, ErrsWaiting DEF TakesDescription

LEMMA SendWaiting ==
  ASSUME TypeInv, Waiting, ~data, Buffers \/ SendFails \/ ReadsAmount \/ TakesLow
  PROVE  Waiting'
<1>1. CASE ReadsAmount
  BY <1>1 DEF ReadsAmount, Waiting, Deaf
<1>2. CASE TakesLow
  <2>1. Queued'
    BY <1>2, TakenQueued DEF TakesLow, Takes, kind, lib
  <2>2. Untold' /\ Deaf'
    BY <1>2, WaitingStays DEF TakesLow, kind, evtVars, own, fwd
  <2> QED BY <2>1, <2>2 DEF Waiting
<1> QED BY <1>1, <1>2, ErrsWaiting DEF SendFails, Buffers

LEMMA TaskWaiting ==
  ASSUME TypeInv, Waiting, ~data, TaskStep
  PROVE  data' \/ Waiting'
<1>0. "ended" \in Gone /\ "stillborn" \in Gone
  BY KindsAre
<1>1. CASE SetsUp
  <2>1. CASE ~polite
    BY <1>1, <2>1 DEF SetsUp
  <2>2. CASE polite
    <3>1. evts' = << >> /\ Len(<< >>) = 0 /\ seen' = seen
      BY <1>1, <2>2 DEF SetsUp, own
    <3>2. Untold'
      BY <3>1 DEF Waiting, Untold, Silent
    <3>3. Queued'
      BY <1>1, <2>2 DEF SetsUp, Waiting, Queued, cmdVars
    <3>4. Deaf'
      BY <1>1, <2>2 DEF SetsUp, Deaf, kind
    <3> QED BY <3>2, <3>3, <3>4 DEF Waiting
  <2> QED BY <2>1, <2>2
<1>2. CASE SetupFails
  BY <1>0, <1>2, EndsPlainWaiting DEF SetupFails, own
<1>3. CASE TakesIce
  BY <1>3, IgnoresWaiting, ErrsWaiting DEF TakesIce
<1>4. CASE Forwards
  <2>1. CASE Tells("Message", It("Message", Head(cmds).n))
    <3>1. Head(cmds).n \in Nat
      BY <2>1, HeadType DEF Tells, Takes, TypeInv, CmdsOK, CmdSeq
    <3> QED BY <2>1, <3>1, TellsWaiting
  <2>2. ASSUME NEW k \in {"Offer", "Answer", "GeneratedIce"}, Tells(k, It(k, 0))
        PROVE  Waiting'
    BY <2>2, TellsWaiting
  <2>3. ~Tells("Open", It("Ready", 0))
    BY BehindHead DEF Tells, Takes, Waiting, Queued, TypeInv, CmdsOK
  <2> QED BY <1>4, <2>1, <2>2, <2>3 DEF Forwards
<1>5. CASE TakesClose
  <2> DEFINE es == IF EvtFits THEN Append(evts, It("Closed", 0)) ELSE evts
  <2>1. Silent(es)
    BY SilentAppend DEF Waiting, Untold, TypeInv, EvtsOK, It
  <2>2. EndsSaying("ended", es) /\ ~seen'.ready
    BY <1>5 DEF TakesClose, own, Waiting, Untold
  <2> HIDE DEF es
  <2> QED BY <1>0, <2>1, <2>2, EndsWaiting
<1>6. CASE RunsDry
  BY <1>0, <1>6, EndsPlainWaiting DEF RunsDry, own
<1>7. CASE TakesDataChan
  BY <1>7 DEF TakesDataChan
<1> QED
  BY <1>1, <1>2, <1>3, <1>4, <1>5, <1>6, <1>7, DescriptionWaiting, SendWaiting, ErrsWaiting
  DEF TaskStep, RefusesDataChan

(* What the library says of a channel is pushed behind the channel.        *)
LEMMA EmitsQueued ==
  ASSUME TypeInv, Waiting, NEW to, NEW k \in CmdKind, NEW n \in Nat, Emits(to, k, n),
         backend' = backend,
         k = "Open" => chan # "none",
         chan' = chan \/ k = "DataChan" \/ (chan # "none" /\ chan' # "none")
  PROVE  Queued'
<1>1. CASE backend = "go"
  BY <1>1 DEF Emits, Waiting, Queued, cmdVars
<1>2. CASE backend # "go"
  BY <1>2, ItType, PushesQueued DEF Emits
<1> QED BY <1>1, <1>2

LEMMA LibWaiting ==
  ASSUME TypeInv, Waiting, LibStep \/ Describes \/ Drains
  PROVE  Waiting'
<1>0. ASSUME Queued', UNCHANGED Rest PROVE Waiting'
  BY <1>0, WaitingStays DEF Rest, kind, evtVars, own, fwd, Waiting
<1>1. CASE Describes
  <2>1. desc \in CmdKind /\ desc # "Open"
    BY <1>1, KindsAre DEF Describes, TypeInv, LibOK
  <2>2. It(desc, 0) \in Item(CmdKind) /\ It(desc, 0).kind # "Open"
    BY <2>1, ItType
  <2>3. Queued'
    BY <1>1, <2>2, PushesQueued DEF Describes, Rest, kind
  <2> QED BY <1>0, <1>1, <2>3 DEF Describes
<1>2. CASE FindsIce
  <2>1. Queued'
    BY <1>2, EmitsQueued, KindsAre DEF FindsIce, Rest, kind
  <2> QED BY <1>0, <1>2, <2>1 DEF FindsIce
<1>3. CASE Announces
  <2>1. Queued'
    BY <1>3, EmitsQueued, KindsAre DEF Announces, Rest, kind
  <2> QED BY <1>0, <1>3, <2>1 DEF Announces
<1>4. CASE ChanOpens
  <2>1. Queued'
    BY <1>4, EmitsQueued, KindsAre DEF ChanOpens, Rest, kind
  <2> QED BY <1>0, <1>4, <2>1 DEF ChanOpens
<1>5. CASE MessageArrives
  <2>1. arrived + 1 \in Nat
    BY WebrtcAssumption DEF TypeInv, LibOK
  <2>2. Queued'
    BY <1>5, <2>1, EmitsQueued, KindsAre DEF MessageArrives, Rest, kind
  <2> QED BY <1>0, <1>5, <2>2 DEF MessageArrives
<1>6. CASE Drains
  <2>1. CASE amount = SendBuffer + 1
    <3>1. Queued'
      BY <1>6, <2>1, EmitsQueued, KindsAre DEF Drains, Rest, kind
    <3> QED BY <1>0, <1>6, <3>1 DEF Drains
  <2>2. CASE amount # SendBuffer + 1
    <3>1. Queued'
      BY <1>6, <2>2, WaitingStays DEF Drains, Rest, kind
    <3> QED BY <1>0, <1>6, <3>1 DEF Drains
  <2> QED BY <2>1, <2>2
<1>7. CASE ChanCloses
  <2>1. Queued'
    BY <1>7, EmitsQueued, KindsAre DEF ChanCloses, Rest, kind
  <2> QED BY <1>0, <1>7, <2>1 DEF ChanCloses
<1>8. CASE ConnectionLost
  <2>1. Queued'
    BY <1>8, EmitsQueued, KindsAre DEF ConnectionLost, Rest, kind
  <2> QED BY <1>0, <1>8, <2>1 DEF ConnectionLost
<1> QED BY <1>1, <1>2, <1>3, <1>4, <1>5, <1>6, <1>7, <1>8 DEF LibStep

LEMMA ForwardWaiting ==
  ASSUME TypeInv, Waiting, ManagerStep \/ PeerForwards \/ DataForwards
  PROVE  Waiting'
<1>1. CASE ManagerStep
  <2>1. UNCHANGED ManagerRest
    BY <1>1 DEF ManagerStep, MakesChannel, Looks, Registers, Delivers
  <2> QED BY <2>1, WaitingStays DEF ManagerRest, kind, evtVars, own, lib, Waiting
<1>2. CASE PeerForwards
  <2>1. Head(peerQ) \in Item(PeerCmd)
    BY <1>2, HeadType DEF PeerForwards, TypeInv, FwdOK
  <2>2. Head(peerQ) \in Item(CmdKind) /\ Head(peerQ).kind # "Open"
    BY <2>1, KindsAre DEF Item
  <2>3. cmds \in CmdSeq /\ Queued
    BY DEF TypeInv, CmdsOK, Waiting
  <2>4. CASE CmdFits
    <3>1. cmds' = Append(cmds, Head(peerQ)) /\ cmdOpen
      BY <1>2, <2>4 DEF PeerForwards, CmdFits
    <3>2. Behind(cmds') /\ (HasChannel(cmds) => HasChannel(cmds'))
      BY <2>2, <2>3, <3>1, BehindAppend DEF Queued
    <3> QED
      BY <1>2, <2>3, <3>1, <3>2, WaitingStays
      DEF PeerForwards, Waiting, Queued, kind, evtVars, own, lib
  <2>5. CASE ~CmdFits
    BY <1>2, <2>3, <2>5, WaitingStays DEF PeerForwards, Waiting, Queued, kind, evtVars, own, lib
  <2> QED BY <2>4, <2>5
<1>3. CASE DataForwards
  BY <1>3 DEF DataForwards, Waiting, Deaf
<1> QED BY <1>1, <1>2, <1>3

(* A task leaves its setup once, and keeps its data channel.               *)
LEMMA Onward ==
  ASSUME Next
  PROVE  /\ task # "setup" => task' # "setup" /\ (data => data')
         /\ task' = "setup" => data' = data
<1>0. "setup" \notin Gone
  BY KindsAre
<1>1. CASE OwnerStep
  BY <1>0, <1>1 DEF OwnerStep, Gives, Message, Receives, Drops, Ends, EndsSaying
<1>2. CASE TaskStep
  <2>1. CASE SetsUp
    BY <2>1 DEF SetsUp
  <2>2. CASE SetupFails \/ RunsDry \/ TakesClose
    BY <1>0, <2>2, KindsAre DEF SetupFails, RunsDry, TakesClose, Ends, EndsSaying
  <2>3. ASSUME NEW k, Errs(k) \/ Ignores(k)
        PROVE  task # "setup" /\ task' # "setup" /\ data' = data
    BY <2>3 DEF Errs, Ignores, Takes, Goes, Ends, EndsSaying
  <2>4. ASSUME NEW k, NEW e, Tells(k, e)
        PROVE  task # "setup" /\ task' # "setup" /\ data' = data
    BY <2>4 DEF Tells, Takes, Goes, Ends, EndsSaying
  <2>5. CASE TakesDescription
    BY <2>3, <2>5 DEF TakesDescription, AcceptsOffer, AcceptsAnswer, AnswersInVain,
                      Takes, Goes, EndsSaying
  <2>6. CASE TakesDataChan \/ Buffers \/ ReadsAmount \/ TakesLow
    BY <2>6 DEF TakesDataChan, Buffers, ReadsAmount, TakesLow, Takes
  <2> QED
    BY <1>2, <2>1, <2>2, <2>3, <2>4, <2>5, <2>6
    DEF TaskStep, TakesIce, RefusesDataChan, SendFails, Forwards
<1>3. CASE LibStep \/ Describes \/ Drains
  BY <1>3 DEF LibStep, Describes, Drains, FindsIce, Announces, ChanOpens, MessageArrives,
              ChanCloses, ConnectionLost, Rest
<1>4. CASE ManagerStep \/ PeerForwards \/ DataForwards
  <2>1. ManagerStep => UNCHANGED ManagerRest
    BY DEF ManagerStep, MakesChannel, Looks, Registers, Delivers
  <2>2. UNCHANGED << task, data >>
    BY <1>4, <2>1 DEF ManagerRest, PeerForwards, DataForwards
  <2> QED BY <2>2
<1> QED BY <1>1, <1>2, <1>3, <1>4 DEF Next

LEMMA ReadyInvInit == Init => ReadyInv
<1> SUFFICES ASSUME Init PROVE ReadyInv
  OBVIOUS
<1>1. Len(<< >>) = 0
  OBVIOUS
<1>2. Untold
  BY <1>1 DEF Init, Untold, Silent
<1>3. Queued
  BY <1>1 DEF Init, Queued, Behind
<1>4. Deaf /\ ~data
  BY DEF Init, Deaf
<1> QED BY <1>2, <1>3, <1>4 DEF ReadyInv, Waiting

LEMMA ReadyInvNext == TypeInv /\ ReadyInv /\ [Next]_vars => ReadyInv'
<1> SUFFICES ASSUME TypeInv, ReadyInv, [Next]_vars PROVE ReadyInv'
  OBVIOUS
<1>1. CASE UNCHANGED vars
  BY <1>1, WaitingStays DEF vars, kind, evtVars, own, lib, fwd, ReadyInv, Waiting
<1>2. CASE Next
  <2>1. task' = "setup" => ~data'
    BY <1>2, Onward DEF ReadyInv
  <2>2. CASE data
    BY <1>2, <2>1, <2>2, Onward DEF ReadyInv
  <2>3. CASE ~data
    <3>1. Waiting
      BY <2>3 DEF ReadyInv
    <3>2. data' \/ Waiting'
      BY <1>2, <2>3, <3>1, OwnerWaiting, TaskWaiting, LibWaiting, ForwardWaiting DEF Next
    <3> QED BY <2>1, <3>2 DEF ReadyInv
  <2> QED BY <2>2, <2>3
<1> QED BY <1>1, <1>2

(* An owner that was told Ready has a task with the data channel: in the   *)
(* command channel no opening overtakes the channel that opened, nor when  *)
(* one of them found no room and the channel closed.                       *)
THEOREM ReadyHasAChannel == Spec => []ReadyHasChannel
<1>1. ReadyInv => ReadyHasChannel
  BY DEF ReadyInv, Waiting, Untold, ReadyHasChannel
<1> QED BY <1>1, TypeInvHolds, ReadyInvInit, ReadyInvNext, PTL DEF Spec

-----------------------------------------------------------------------------
(***************************************************************************)
(* The messages of the data channel.  Along the event channel, the command *)
(* channel, the queue of the data channel and the manager's queue they are *)
(* numbered without a gap, up to the last that arrived: a queue that finds *)
(* no room behind it closes the command channel, and only what was queued  *)
(* is still told (Numbered).  Only before its registration is an accepted  *)
(* channel of pion deaf, and nothing of it is heard then (Unheard).  The   *)
(* opening is in front of the messages (Ordered), although the manager may *)
(* drop it like them: DataChannel::new looks for what it missed.           *)
(***************************************************************************)

NoMsg(q) == \A i \in 1..Len(q) : q[i].kind # "Message"

(* The messages in q are a+1, ..., b, in this order.                       *)
Run(q, a, b) ==
  /\ a \in Nat /\ b \in Nat /\ a <= b
  /\ \A i \in 1..Len(q) : q[i].kind = "Message" => q[i].n \in (a + 1)..b
  /\ \A i, j \in 1..Len(q) :
       i < j /\ q[i].kind = "Message" /\ q[j].kind = "Message" => q[i].n < q[j].n
  /\ \A n \in (a + 1)..b :
       \E i \in 1..Len(q) : q[i].kind = "Message" /\ q[i].n = n

(* What of an accepted channel of pion came first may be lost.             *)
Accepting == backend = "go" /\ polite
Heard(l) == l = seen.last \/ (seen.last = 0 /\ Accepting)

(* While the command channel is open, what is behind it will still come.   *)
Flows(b) ==
  cmdOpen => IF backend = "go"
               THEN \E c \in Nat : Run(dataQ, b, c) /\ Run(mgr, c, arrived)
               ELSE b = arrived

Numbered ==
  \E l, a, b \in Nat : Heard(l) /\ Run(evts, l, a) /\ Run(cmds, a, b) /\ Flows(b)

Unheard ==
  backend = "go" /\ cmdOpen /\ ~reg =>
    seen.last = 0 /\ NoMsg(evts) /\ NoMsg(cmds) /\ NoMsg(dataQ)

(* Messages come behind something of the given kinds.                      *)
Has(q, K) == \E i \in 1..Len(q) : q[i].kind \in K
After(q, K) ==
  \A i \in 1..Len(q) : q[i].kind = "Message" => \E j \in 1..Len(q) : j < i /\ q[j].kind \in K

ToldReady == seen.ready \/ Has(evts, {"Ready"})
Opening == ToldReady \/ Has(cmds, {"Open"})
Coming == Opening \/ Has(dataQ, {"Open", "Close"})

(* The manager knows the channel by the time it gets to place i of q.      *)
Known(q, r, i) == r \/ \E k \in 1..Len(q) : k < i /\ q[k].kind = "Reg"
Opened(q, r, i) ==
  \E j \in 1..Len(q) : j < i /\ q[j].kind = "Open" /\ Known(q, r, j)
Kept(q, r, open) ==
  /\ \A i \in 1..Len(q) : q[i].kind = "Message" /\ Known(q, r, i) => Opened(q, r, i)
  /\ open /\ Known(q, r, Len(q) + 1) => Opened(q, r, Len(q) + 1)

(* An accepted channel is about to be looked at.                           *)
LooksNext(q) == polite /\ 1 \in 1..Len(q) /\ q[1].kind = "Look"

Ordered ==
  /\ seen.ready \/ After(evts, {"Ready"})
  /\ ToldReady \/ After(cmds, {"Open"})
  /\ cmdOpen => Opening \/ After(dataQ, {"Open", "Close"})
  /\ cmdOpen /\ backend # "go" /\ chan = "open" => Opening
  /\ cmdOpen /\ backend = "go" =>
       Coming \/ LooksNext(mgr) \/ Kept(mgr, reg, chan = "open")

StreamInv == Numbered /\ Unheard /\ Ordered

(* Where the task and the library are.  The impolite side registers its    *)
(* channel before anything of it comes.                                    *)
RegisteredFirst(q) ==
  \E j \in 1..Len(q) : q[j].kind = "Reg" /\ \A i \in 1..Len(q) : i < j => q[i].to # "data"

PlaceInv ==
  /\ task = "sent" => Head(cmds).kind = "Send"
  /\ task = "setup" => mgr = << >> /\ evts = << >> /\ ~announced /\ chan = "none"
  /\ task \in Gone => mgr = << >>
  /\ polite /\ ~announced => chan = "none"
  /\ chan \in {"none", "connecting"} => arrived = 0
  /\ backend = "go" /\ ~polite /\ HasLib /\ ~reg => RegisteredFirst(mgr)
  /\ backend # "go" => mgr = << >> /\ ~dataTask

-----------------------------------------------------------------------------
(* Queues.                                                                 *)

(* A queue gets a last element, loses its first, or differs only in what   *)
(* is no message.                                                          *)
Extended(q, r, x) ==
  /\ Len(q) \in Nat /\ Len(r) = Len(q) + 1 /\ r[Len(q) + 1] = x
  /\ \A i \in 1..Len(q) : r[i] = q[i]
Shortened(q, r) ==
  /\ Len(q) \in Nat \ {0} /\ Len(r) = Len(q) - 1 /\ Head(q) = q[1]
  /\ \A i \in 1..Len(r) : r[i] = q[i + 1]
SameMsgs(q, r) ==
  /\ \A i \in 1..Len(r) : r[i].kind = "Message" => i \in 1..Len(q) /\ r[i] = q[i]
  /\ \A i \in 1..Len(q) : q[i].kind = "Message" => i \in 1..Len(r) /\ r[i] = q[i]

LEMMA AppendExtends ==
  ASSUME NEW S, NEW q \in Seq(S), NEW x \in S
  PROVE  Extended(q, Append(q, x), x)
BY DEF Extended

LEMMA TailShortens ==
  ASSUME NEW S, NEW q \in Seq(S), q # << >>
  PROVE  Shortened(q, Tail(q))
<1>1. Len(q) \in Nat \ {0} /\ Len(Tail(q)) = Len(q) - 1 /\ Head(q) = q[1]
  OBVIOUS
<1>2. \A i \in 1..Len(Tail(q)) : Tail(q)[i] = q[i + 1]
  OBVIOUS
<1> QED
  BY <1>1, <1>2 DEF Shortened

(* Where the elements of a changed queue come from, and where they go.     *)
LEMMA ExtendedPlaces ==
  ASSUME NEW q, NEW r, NEW x, Extended(q, r, x)
  PROVE  /\ Len(q) \in Nat /\ Len(q) + 1 \in 1..Len(r) /\ r[Len(q) + 1] = x
         /\ \A i \in 1..Len(q) : i \in 1..Len(r) /\ r[i] = q[i] /\ i < Len(q) + 1
         /\ \A i \in 1..Len(r) : i \in 1..Len(q) \/ i = Len(q) + 1
BY DEF Extended

LEMMA ShortenedPlaces ==
  ASSUME NEW q, NEW r, Shortened(q, r)
  PROVE  /\ 1 \in 1..Len(q) /\ Head(q) = q[1] /\ Len(q) \in Nat
         /\ \A i \in 1..Len(r) : /\ i + 1 \in 1..Len(q) /\ r[i] = q[i + 1] /\ 1 < i + 1
                                 /\ i \in Nat
         /\ \A i \in 1..Len(q) : i # 1 => /\ i - 1 \in 1..Len(r) /\ r[i - 1] = q[i]
                                          /\ (i - 1) + 1 = i /\ i \in Nat
<1>1. Len(q) \in Nat \ {0} /\ Len(r) = Len(q) - 1 /\ Head(q) = q[1]
      /\ \A i \in 1..Len(r) : r[i] = q[i + 1]
  BY DEF Shortened
<1>2. \A i \in 1..Len(q) : i # 1 =>
        i - 1 \in 1..Len(r) /\ (i - 1) + 1 = i /\ i \in Nat
  BY ONLY <1>1
<1>3. \A i \in 1..Len(r) : i + 1 \in 1..Len(q) /\ 1 < i + 1 /\ i \in Nat
  BY ONLY <1>1
<1>4. \A i \in 1..Len(q) : i # 1 => r[i - 1] = q[i]
  BY <1>1, <1>2
<1>5. 1 \in 1..Len(q)
  BY ONLY <1>1
<1> QED
  BY <1>1, <1>2, <1>3, <1>4, <1>5

LEMMA RunOfNone ==
  ASSUME NEW q, NoMsg(q), NEW a \in Nat
  PROVE  Run(q, a, a) /\ \A b : Run(q, a, b) => b = a
<1>1. Run(q, a, a)
  BY DEF Run, NoMsg
<1>2. ASSUME NEW b, Run(q, a, b), b # a
      PROVE  FALSE
  <2>1. a + 1 \in (a + 1)..b
    BY <1>2 DEF Run
  <2> QED
    BY <1>2, <2>1 DEF Run, NoMsg
<1> QED
  BY <1>1, <1>2

LEMMA RunKept ==
  ASSUME NEW q, NEW r, NEW a, NEW b, Run(q, a, b), SameMsgs(q, r)
  PROVE  Run(r, a, b)
BY DEF Run, SameMsgs

LEMMA RunExtended ==
  ASSUME NEW q, NEW r, NEW x, NEW a, NEW b, Run(q, a, b), Extended(q, r, x)
  PROVE  /\ x.kind # "Message" => Run(r, a, b)
         /\ x.kind = "Message" /\ x.n = b + 1 => Run(r, a, b + 1)
<1>1. a \in Nat /\ b \in Nat /\ a <= b /\ b + 1 \in Nat /\ a <= b + 1
  BY DEF Run
<1>2. ASSUME x.kind # "Message" PROVE Run(r, a, b)
  <2>1. SameMsgs(q, r)
    BY <1>2, ExtendedPlaces DEF SameMsgs
  <2> QED
    BY <2>1, RunKept
<1>3. ASSUME x.kind = "Message", x.n = b + 1 PROVE Run(r, a, b + 1)
  <2>1. ASSUME NEW i \in 1..Len(r), r[i].kind = "Message"
        PROVE  r[i].n \in (a + 1)..(b + 1)
    <3>1. CASE i \in 1..Len(q)
      <4>1. r[i].n \in (a + 1)..b
        BY <2>1, <3>1 DEF Run, Extended
      <4> QED
        BY <1>1, <4>1
    <3>2. CASE i = Len(q) + 1
      BY <1>1, <1>3, <3>2 DEF Extended
    <3> QED
      BY <3>1, <3>2, ExtendedPlaces
  <2>2. ASSUME NEW i \in 1..Len(r), NEW j \in 1..Len(r), i < j,
               r[i].kind = "Message", r[j].kind = "Message"
        PROVE  r[i].n < r[j].n
    <3>1. i \in 1..Len(q)
      BY <2>2 DEF Extended
    <3>2. CASE j \in 1..Len(q)
      BY <2>2, <3>1, <3>2 DEF Run, Extended
    <3>3. CASE j = Len(q) + 1
      <4>1. r[j].n = b + 1 /\ r[i].n \in (a + 1)..b
        BY <1>3, <2>2, <3>1, <3>3 DEF Run, Extended
      <4> QED
        BY <1>1, <4>1
    <3> QED
      BY <3>2, <3>3, ExtendedPlaces
  <2>3. ASSUME NEW n \in (a + 1)..(b + 1)
        PROVE  \E i \in 1..Len(r) : r[i].kind = "Message" /\ r[i].n = n
    <3>1. CASE n \in (a + 1)..b
      <4>1. PICK i \in 1..Len(q) : q[i].kind = "Message" /\ q[i].n = n
        BY <3>1 DEF Run
      <4> QED
        BY <4>1, ExtendedPlaces
    <3>2. CASE n = b + 1
      BY <1>3, <3>2, ExtendedPlaces
    <3> QED
      BY <1>1, <3>1, <3>2
  <2> QED
    BY <1>1, <2>1, <2>2, <2>3 DEF Run
<1> QED
  BY <1>2, <1>3

LEMMA RunShortened ==
  ASSUME NEW q, NEW r, NEW a, NEW b, Run(q, a, b), Shortened(q, r)
  PROVE  /\ Head(q).kind # "Message" => Run(r, a, b)
         /\ Head(q).kind = "Message" => Head(q).n = a + 1 /\ Run(r, a + 1, b)
<1>1. a \in Nat /\ b \in Nat /\ a <= b
  BY DEF Run
<1>2. \A i, j \in 1..Len(r) :
        i < j /\ r[i].kind = "Message" /\ r[j].kind = "Message" => r[i].n < r[j].n
  <2> SUFFICES ASSUME NEW i \in 1..Len(r), NEW j \in 1..Len(r), i < j,
                      r[i].kind = "Message", r[j].kind = "Message"
               PROVE  r[i].n < r[j].n
    OBVIOUS
  <2>1. i + 1 \in 1..Len(q) /\ j + 1 \in 1..Len(q) /\ i + 1 < j + 1
        /\ r[i] = q[i + 1] /\ r[j] = q[j + 1]
    BY ShortenedPlaces
  <2> QED
    BY <2>1 DEF Run
<1>3. ASSUME Head(q).kind # "Message" PROVE Run(r, a, b)
  <2>1. \A i \in 1..Len(r) : r[i].kind = "Message" => r[i].n \in (a + 1)..b
    BY ShortenedPlaces DEF Run
  <2>2. ASSUME NEW n \in (a + 1)..b
        PROVE  \E i \in 1..Len(r) : r[i].kind = "Message" /\ r[i].n = n
    <3>1. PICK i \in 1..Len(q) : q[i].kind = "Message" /\ q[i].n = n
      BY DEF Run
    <3>2. i # 1
      BY <1>3, <3>1, ShortenedPlaces
    <3> QED
      BY <3>1, <3>2, ShortenedPlaces
  <2> QED
    BY <1>1, <1>2, <2>1, <2>2 DEF Run
<1>4. ASSUME Head(q).kind = "Message" PROVE Head(q).n = a + 1 /\ Run(r, a + 1, b)
  <2>1. /\ q[1].kind = "Message" /\ Head(q) = q[1] /\ 1 \in 1..Len(q)
        /\ q[1].n \in (a + 1)..b
    BY <1>4, ShortenedPlaces DEF Run
  <2>2. q[1].n = a + 1
    <3>1. a + 1 \in (a + 1)..b
      BY <1>1, <2>1
    <3>2. PICK i \in 1..Len(q) : q[i].kind = "Message" /\ q[i].n = a + 1
      BY <3>1 DEF Run
    <3>3. i = 1 \/ q[1].n < q[i].n
      BY <2>1, <3>2, ShortenedPlaces DEF Run
    <3> QED
      BY <1>1, <2>1, <3>2, <3>3
  <2>3. ASSUME NEW i \in 1..Len(r), r[i].kind = "Message"
        PROVE  r[i].n \in ((a + 1) + 1)..b
    <3>1. i + 1 \in 1..Len(q) /\ 1 < i + 1 /\ r[i] = q[i + 1]
      BY ShortenedPlaces
    <3>2. r[i].n \in (a + 1)..b /\ q[1].n < r[i].n
      BY <2>1, <2>3, <3>1 DEF Run
    <3> QED
      BY <1>1, <2>2, <3>2
  <2>4. ASSUME NEW n \in ((a + 1) + 1)..b
        PROVE  \E i \in 1..Len(r) : r[i].kind = "Message" /\ r[i].n = n
    <3>1. n \in (a + 1)..b /\ n # a + 1
      BY <1>1
    <3>2. PICK i \in 1..Len(q) : q[i].kind = "Message" /\ q[i].n = n
      BY <3>1 DEF Run
    <3>3. i # 1
      BY <2>2, <3>1, <3>2
    <3> QED
      BY <3>2, <3>3, ShortenedPlaces
  <2>5. a + 1 \in Nat /\ a + 1 <= b
    BY <1>1, <2>1
  <2> QED
    BY <1>1, <1>2, <2>1, <2>2, <2>3, <2>4, <2>5 DEF Run
<1> QED
  BY <1>3, <1>4

LEMMA NoMsgChanges ==
  ASSUME NEW q, NEW r, NoMsg(q)
  PROVE  /\ \A x : Extended(q, r, x) /\ x.kind # "Message" => NoMsg(r)
         /\ Shortened(q, r) => NoMsg(r) /\ Head(q).kind # "Message"
BY ExtendedPlaces, ShortenedPlaces DEF NoMsg

LEMMA HasChanges ==
  ASSUME NEW q, NEW r, NEW K
  PROVE  /\ \A x : Extended(q, r, x) /\ (Has(q, K) \/ x.kind \in K) => Has(r, K)
         /\ Shortened(q, r) /\ Has(q, K) /\ Head(q).kind \notin K => Has(r, K)
BY ExtendedPlaces, ShortenedPlaces DEF Has

LEMMA AfterExtended ==
  ASSUME NEW q, NEW r, NEW x, NEW K, Extended(q, r, x), After(q, K),
         x.kind = "Message" => Has(q, K)
  PROVE  After(r, K)
<1> SUFFICES ASSUME NEW i \in 1..Len(r), r[i].kind = "Message"
             PROVE  \E j \in 1..Len(r) : j < i /\ r[j].kind \in K
  BY DEF After
<1>1. CASE i \in 1..Len(q)
  <2>1. PICK j \in 1..Len(q) : j < i /\ q[j].kind \in K
    BY <1>1, ExtendedPlaces DEF After
  <2> QED
    BY <2>1, ExtendedPlaces
<1>2. CASE i = Len(q) + 1
  <2>1. PICK j \in 1..Len(q) : q[j].kind \in K
    BY <1>2, ExtendedPlaces DEF Has
  <2> QED
    BY <1>2, <2>1, ExtendedPlaces
<1> QED
  BY <1>1, <1>2, ExtendedPlaces

LEMMA AfterShortened ==
  ASSUME NEW q, NEW r, NEW K, Shortened(q, r), After(q, K)
  PROVE  /\ Head(q).kind # "Message"
         /\ Head(q).kind \notin K => After(r, K)
<1>1. Head(q).kind # "Message"
  <2> SUFFICES ASSUME q[1].kind = "Message" PROVE FALSE
    BY ShortenedPlaces
  <2>1. PICK j \in 1..Len(q) : j < 1
    BY ShortenedPlaces DEF After
  <2> QED
    BY <2>1, ShortenedPlaces
<1>2. ASSUME Head(q).kind \notin K, NEW i \in 1..Len(r), r[i].kind = "Message"
      PROVE  \E j \in 1..Len(r) : j < i /\ r[j].kind \in K
  <2>1. i + 1 \in 1..Len(q) /\ r[i] = q[i + 1]
    BY ShortenedPlaces
  <2>2. PICK j \in 1..Len(q) : j < i + 1 /\ q[j].kind \in K
    BY <1>2, <2>1 DEF After
  <2>3. j # 1
    BY <1>2, <2>2, ShortenedPlaces
  <2>4. j - 1 \in 1..Len(r) /\ r[j - 1] = q[j] /\ j - 1 < i
    BY <2>2, <2>3, ShortenedPlaces
  <2> QED
    BY <2>2, <2>4
<1> QED
  BY <1>1, <1>2 DEF After

-----------------------------------------------------------------------------
(* The invariant after a step.                                             *)

LEMMA NumberedAfter ==
  ASSUME NEW l \in Nat, NEW a \in Nat, NEW b \in Nat, Heard(l)', Run(evts', l, a),
         Run(cmds', a, b),
         cmdOpen' => IF backend' = "go"
                       THEN \E c \in Nat : Run(dataQ', b, c) /\ Run(mgr', c, arrived')
                       ELSE b = arrived'
  PROVE  Numbered'
<1>1. Run(evts, l, a)' /\ Run(cmds, a, b)'
  BY DEF Run
<1>2. \A c \in Nat : /\ Run(dataQ', b, c) => Run(dataQ, b, c)'
                     /\ Run(mgr', c, arrived') => Run(mgr, c, arrived)'
  BY DEF Run
<1>3. Flows(b)'
  BY <1>2 DEF Flows
<1> QED
  BY <1>1, <1>3 DEF Numbered

LEMMA UnheardAfter ==
  ASSUME backend' = "go" /\ cmdOpen' /\ ~reg' =>
           seen'.last = 0 /\ NoMsg(evts') /\ NoMsg(cmds') /\ NoMsg(dataQ')
  PROVE  Unheard'
BY DEF Unheard, NoMsg

Told(s, es) == s.ready \/ Has(es, {"Ready"})
Opens(s, es, cs) == Told(s, es) \/ Has(cs, {"Open"})
Comes(s, es, cs, ds) == Opens(s, es, cs) \/ Has(ds, {"Open", "Close"})

LEMMA TellsWhat ==
  /\ ToldReady <=> Told(seen, evts)
  /\ Opening <=> Opens(seen, evts, cmds)
  /\ Coming <=> Comes(seen, evts, cmds, dataQ)
BY DEF ToldReady, Told, Opening, Opens, Coming, Comes

LEMMA OrderedAfter ==
  ASSUME seen'.ready \/ After(evts', {"Ready"}),
         Told(seen', evts') \/ After(cmds', {"Open"}),
         cmdOpen' => Opens(seen', evts', cmds') \/ After(dataQ', {"Open", "Close"}),
         cmdOpen' /\ backend' # "go" /\ chan' = "open" => Opens(seen', evts', cmds'),
         cmdOpen' /\ backend' = "go" =>
           \/ Comes(seen', evts', cmds', dataQ')
           \/ polite' /\ 1 \in 1..Len(mgr') /\ mgr'[1].kind = "Look"
           \/ Kept(mgr', reg', chan' = "open")
  PROVE  Ordered'
<1>1. /\ After(evts', {"Ready"}) => After(evts, {"Ready"})'
      /\ After(cmds', {"Open"}) => After(cmds, {"Open"})'
      /\ After(dataQ', {"Open", "Close"}) => After(dataQ, {"Open", "Close"})'
  BY DEF After
<1>2. /\ Told(seen', evts') => ToldReady'
      /\ Opens(seen', evts', cmds') => Opening'
      /\ Comes(seen', evts', cmds', dataQ') => Coming'
  BY DEF Told, Opens, Comes, ToldReady, Opening, Coming, Has
<1>3. Kept(mgr', reg', chan' = "open") => Kept(mgr, reg, chan = "open")'
  BY DEF Kept, Opened, Known
<1>4. (polite' /\ 1 \in 1..Len(mgr') /\ mgr'[1].kind = "Look") => LooksNext(mgr)'
  BY DEF LooksNext
<1> QED
  BY <1>1, <1>2, <1>3, <1>4 DEF Ordered

(* What the invariant says now, in the same form.                          *)
LEMMA OrderedNow ==
  ASSUME Ordered
  PROVE  /\ seen.ready \/ After(evts, {"Ready"})
         /\ Told(seen, evts) \/ After(cmds, {"Open"})
         /\ cmdOpen => Opens(seen, evts, cmds) \/ After(dataQ, {"Open", "Close"})
         /\ cmdOpen /\ backend # "go" /\ chan = "open" => Opens(seen, evts, cmds)
         /\ cmdOpen /\ backend = "go" =>
              Comes(seen, evts, cmds, dataQ) \/ LooksNext(mgr) \/ Kept(mgr, reg, chan = "open")
BY TellsWhat DEF Ordered

LEMMA NumberedNow ==
  ASSUME Numbered
  PROVE  \E l, a, b \in Nat :
           /\ Heard(l) /\ Run(evts, l, a) /\ Run(cmds, a, b)
           /\ cmdOpen => IF backend = "go"
                           THEN \E c \in Nat : Run(dataQ, b, c) /\ Run(mgr, c, arrived)
                           ELSE b = arrived
BY DEF Numbered, Flows

-----------------------------------------------------------------------------
(* What a step does to the messages on their way.                          *)

rear == << dataQ, mgr, reg, arrived >>
front == << seen, evts, cmds, cmdOpen >>
SameOwner == seen'.last = seen.last /\ seen'.ready = seen.ready
NoOpening == chan' = "open" => chan = "open"

Plain(x) == x.kind \notin {"Message", "Open", "Ready", "Reg", "Look"}
AddsPlain(q, r) == r = q \/ \E x : Extended(q, r, x) /\ Plain(x)

(* The task ends.                                                          *)
Ending ==
  /\ ~cmdOpen' /\ NoMsg(cmds') /\ AddsPlain(evts, evts') /\ SameOwner /\ UNCHANGED kind

(* The task takes a command that is neither a message nor an opening.      *)
Taking ==
  /\ Shortened(cmds, cmds') /\ Head(cmds).kind \notin {"Message", "Open"}
  /\ AddsPlain(evts, evts') /\ UNCHANGED << kind, cmdOpen, seen, rear, chan >>

TellingMessage ==
  /\ Shortened(cmds, cmds') /\ Head(cmds).kind = "Message"
  /\ \E x : Extended(evts, evts', x) /\ x.kind = "Message" /\ x.n = Head(cmds).n
  /\ UNCHANGED << kind, cmdOpen, seen, rear, chan >>

TellingReady ==
  /\ Shortened(cmds, cmds') /\ Head(cmds).kind = "Open"
  /\ \E x : Extended(evts, evts', x) /\ x.kind = "Ready"
  /\ UNCHANGED << kind, cmdOpen, seen, rear, chan >>

(* A command is queued, or the channel is closed.                          *)
Queues(x) ==
  /\ cmds' = cmds \/ Extended(cmds, cmds', x)
  /\ cmdOpen' => cmdOpen /\ Extended(cmds, cmds', x)

Pushing ==
  /\ \E x : Queues(x) /\ Plain(x)
  /\ NoOpening /\ UNCHANGED << kind, seen, evts, rear >>

PushingOpen ==
  /\ backend # "go" /\ \E x : Queues(x) /\ x.kind = "Open"
  /\ UNCHANGED << kind, seen, evts, rear >>

PushingMessage ==
  /\ backend # "go" /\ chan = "open"
  /\ \E x : Queues(x) /\ x.kind = "Message" /\ x.n = arrived + 1
  /\ ~cmdOpen' => cmds' = cmds
  /\ arrived' = arrived + 1
  /\ UNCHANGED << kind, seen, evts, dataQ, mgr, reg, chan >>

(* The manager's queue gets an event.                                      *)
Emitting ==
  /\ backend = "go" /\ \E x : Extended(mgr, mgr', x) /\ Plain(x)
  /\ NoOpening /\ UNCHANGED << kind, front, dataQ, reg, arrived >>

EmittingOpen ==
  /\ backend = "go" /\ \E x : Extended(mgr, mgr', x) /\ x.kind = "Open"
  /\ UNCHANGED << kind, front, dataQ, reg, arrived >>

EmittingMessage ==
  /\ backend = "go" /\ chan = "open"
  /\ \E x : Extended(mgr, mgr', x) /\ x.kind = "Message" /\ x.n = arrived + 1
  /\ arrived' = arrived + 1
  /\ UNCHANGED << kind, front, dataQ, reg, chan >>

Still == UNCHANGED << kind, front, rear >> /\ NoOpening

-----------------------------------------------------------------------------
LEMMA RunAddsPlain ==
  ASSUME NEW q, NEW r, NEW a, NEW b, Run(q, a, b), AddsPlain(q, r)
  PROVE  Run(r, a, b)
BY RunExtended DEF AddsPlain, Plain

LEMMA ToldAddsPlain ==
  ASSUME NEW q, NEW r, NEW s, AddsPlain(q, r)
  PROVE  /\ Told(s, q) => Told(s, r)
         /\ After(q, {"Ready"}) => After(r, {"Ready"})
         /\ NoMsg(q) => NoMsg(r)
BY HasChanges, AfterExtended, NoMsgChanges DEF AddsPlain, Plain, Told

LEMMA EndingKeeps ==
  ASSUME StreamInv, Ending
  PROVE  StreamInv'
<1>1. Numbered'
  <2>1. PICK l, a, b \in Nat : Heard(l) /\ Run(evts, l, a) /\ Run(cmds, a, b)
    BY DEF StreamInv, Numbered
  <2>2. Heard(l)'
    BY <2>1 DEF Ending, SameOwner, Heard, Accepting, kind
  <2>3. Run(evts', l, a) /\ Run(cmds', a, a) /\ ~cmdOpen'
    BY <2>1, RunAddsPlain, RunOfNone DEF Ending
  <2> QED
    BY <2>2, <2>3, NumberedAfter
<1>2. Unheard'
  BY UnheardAfter DEF Ending
<1>3. Ordered'
  <2>1. Ordered
    BY DEF StreamInv
  <2>2. seen.ready \/ After(evts, {"Ready"})
    BY <2>1, OrderedNow
  <2>3. seen'.ready \/ After(evts', {"Ready"})
    BY <2>2, ToldAddsPlain DEF Ending, SameOwner
  <2>4. After(cmds', {"Open"}) /\ ~cmdOpen'
    BY DEF Ending, NoMsg, After
  <2> QED
    BY <2>3, <2>4, OrderedAfter
<1> QED
  BY <1>1, <1>2, <1>3 DEF StreamInv

LEMMA TakingKeeps ==
  ASSUME StreamInv, Taking
  PROVE  StreamInv'
<1>0. Numbered /\ Unheard /\ Ordered
  BY DEF StreamInv
<1>1. /\ Shortened(cmds, cmds') /\ Head(cmds).kind \notin {"Message", "Open"}
      /\ AddsPlain(evts, evts') /\ seen' = seen /\ cmdOpen' = cmdOpen
      /\ backend' = backend /\ polite' = polite /\ chan' = chan
      /\ dataQ' = dataQ /\ mgr' = mgr /\ reg' = reg /\ arrived' = arrived
  BY DEF Taking, kind, rear
<1>2. Numbered'
  <2>1. PICK l, a, b \in Nat :
          /\ Heard(l) /\ Run(evts, l, a) /\ Run(cmds, a, b)
          /\ cmdOpen => IF backend = "go"
                          THEN \E c \in Nat : Run(dataQ, b, c) /\ Run(mgr, c, arrived)
                          ELSE b = arrived
    BY <1>0, NumberedNow
  <2>2. Heard(l)'
    BY <1>1, <2>1 DEF Heard, Accepting
  <2>3. Run(evts', l, a) /\ Run(cmds', a, b)
    BY <1>1, <2>1, RunAddsPlain, RunShortened
  <2> QED
    BY <1>1, <2>1, <2>2, <2>3, NumberedAfter
<1>3. Unheard'
  <2>1. backend = "go" /\ cmdOpen /\ ~reg =>
          seen.last = 0 /\ NoMsg(evts) /\ NoMsg(cmds) /\ NoMsg(dataQ)
    BY <1>0 DEF Unheard
  <2>2. /\ NoMsg(evts) => NoMsg(evts')
        /\ NoMsg(cmds) => NoMsg(cmds')
    BY <1>1, ToldAddsPlain, NoMsgChanges
  <2> QED
    BY <1>1, <2>1, <2>2, UnheardAfter
<1>4. Ordered'
  <2>1. /\ seen.ready \/ After(evts, {"Ready"}) => seen.ready \/ After(evts', {"Ready"})
        /\ Told(seen, evts) => Told(seen, evts')
        /\ After(cmds, {"Open"}) => After(cmds', {"Open"})
        /\ Has(cmds, {"Open"}) => Has(cmds', {"Open"})
    BY <1>1, ToldAddsPlain, AfterShortened, HasChanges
  <2>2. /\ Opens(seen, evts, cmds) => Opens(seen, evts', cmds')
        /\ Comes(seen, evts, cmds, dataQ) => Comes(seen, evts', cmds', dataQ)
    BY <2>1 DEF Opens, Comes
  <2>3. (polite /\ 1 \in 1..Len(mgr) /\ mgr[1].kind = "Look") <=> LooksNext(mgr)
    BY DEF LooksNext
  <2> QED
    BY <1>0, <1>1, <2>1, <2>2, <2>3, OrderedNow, OrderedAfter
<1> QED
  BY <1>2, <1>3, <1>4 DEF StreamInv

LEMMA TellingMessageKeeps ==
  ASSUME StreamInv, TellingMessage
  PROVE  StreamInv'
<1>0. Numbered /\ Unheard /\ Ordered
  BY DEF StreamInv
<1>1. /\ Shortened(cmds, cmds') /\ Head(cmds).kind = "Message"
      /\ seen' = seen /\ cmdOpen' = cmdOpen
      /\ backend' = backend /\ polite' = polite /\ chan' = chan
      /\ dataQ' = dataQ /\ mgr' = mgr /\ reg' = reg /\ arrived' = arrived
  BY DEF TellingMessage, kind, rear
<1>2. PICK x : Extended(evts, evts', x) /\ x.kind = "Message" /\ x.n = Head(cmds).n
  BY DEF TellingMessage
<1>3. Numbered'
  <2>1. PICK l, a, b \in Nat :
          /\ Heard(l) /\ Run(evts, l, a) /\ Run(cmds, a, b)
          /\ cmdOpen => IF backend = "go"
                          THEN \E c \in Nat : Run(dataQ, b, c) /\ Run(mgr, c, arrived)
                          ELSE b = arrived
    BY <1>0, NumberedNow
  <2>2. Heard(l)'
    BY <1>1, <2>1 DEF Heard, Accepting
  <2>3. Head(cmds).n = a + 1 /\ Run(cmds', a + 1, b)
    BY <1>1, <2>1, RunShortened
  <2>4. Run(evts', l, a + 1) /\ a + 1 \in Nat
    BY <1>2, <2>1, <2>3, RunExtended
  <2> QED
    BY <1>1, <2>1, <2>2, <2>3, <2>4, NumberedAfter
<1>4. ~NoMsg(cmds)
  BY <1>1, ShortenedPlaces DEF NoMsg
<1>5. Unheard'
  BY <1>0, <1>1, <1>4, UnheardAfter DEF Unheard
<1>6. Ordered'
  <2>1. Told(seen, evts)
    BY <1>0, <1>1, OrderedNow, AfterShortened
  <2>2. Told(seen, evts')
    BY <1>2, <2>1, HasChanges DEF Told
  <2>3. seen.ready \/ After(evts', {"Ready"})
    BY <1>0, <1>2, <2>1, OrderedNow, AfterExtended DEF Told
  <2>4. Opens(seen, evts', cmds') /\ Comes(seen, evts', cmds', dataQ)
    BY <2>2 DEF Opens, Comes
  <2> QED
    BY <1>1, <2>2, <2>3, <2>4, OrderedAfter
<1> QED
  BY <1>3, <1>5, <1>6 DEF StreamInv

LEMMA TellingReadyKeeps ==
  ASSUME StreamInv, TellingReady
  PROVE  StreamInv'
<1>0. Numbered /\ Unheard /\ Ordered
  BY DEF StreamInv
<1>1. /\ Shortened(cmds, cmds') /\ Head(cmds).kind = "Open"
      /\ seen' = seen /\ cmdOpen' = cmdOpen
      /\ backend' = backend /\ polite' = polite /\ chan' = chan
      /\ dataQ' = dataQ /\ mgr' = mgr /\ reg' = reg /\ arrived' = arrived
  BY DEF TellingReady, kind, rear
<1>2. PICK x : Extended(evts, evts', x) /\ x.kind = "Ready"
  BY DEF TellingReady
<1>3. Numbered'
  <2>1. PICK l, a, b \in Nat :
          /\ Heard(l) /\ Run(evts, l, a) /\ Run(cmds, a, b)
          /\ cmdOpen => IF backend = "go"
                          THEN \E c \in Nat : Run(dataQ, b, c) /\ Run(mgr, c, arrived)
                          ELSE b = arrived
    BY <1>0, NumberedNow
  <2>2. Heard(l)'
    BY <1>1, <2>1 DEF Heard, Accepting
  <2>3. Run(cmds', a, b)
    BY <1>1, <2>1, RunShortened
  <2>4. Run(evts', l, a)
    BY <1>2, <2>1, RunExtended
  <2> QED
    BY <1>1, <2>1, <2>2, <2>3, <2>4, NumberedAfter
<1>4. Unheard'
  <2>1. NoMsg(cmds) /\ NoMsg(evts) => NoMsg(cmds') /\ NoMsg(evts')
    BY <1>1, <1>2, NoMsgChanges
  <2> QED
    BY <1>0, <1>1, <2>1, UnheardAfter DEF Unheard
<1>5. Ordered'
  <2>1. Told(seen, evts')
    BY <1>2, HasChanges DEF Told
  <2>2. seen.ready \/ After(evts', {"Ready"})
    BY <1>0, <1>2, OrderedNow, AfterExtended
  <2>3. Opens(seen, evts', cmds') /\ Comes(seen, evts', cmds', dataQ)
    BY <2>1 DEF Opens, Comes
  <2> QED
    BY <1>1, <2>1, <2>2, <2>3, OrderedAfter
<1> QED
  BY <1>3, <1>4, <1>5 DEF StreamInv

(* What is queued changes nothing in front of it.                          *)
LEMMA QueuesFront ==
  ASSUME NEW x, Queues(x)
  PROVE  /\ cmdOpen' => cmdOpen
         /\ \A a, b : Run(cmds, a, b) /\ x.kind # "Message" => Run(cmds', a, b)
         /\ \A s, es : Opens(s, es, cmds) => Opens(s, es, cmds')
         /\ \A s, es, ds : Comes(s, es, cmds, ds) => Comes(s, es, cmds', ds)
         /\ NoMsg(cmds) /\ x.kind # "Message" => NoMsg(cmds')
         /\ After(cmds, {"Open"}) /\ (x.kind = "Message" => Has(cmds, {"Open"}))
              => After(cmds', {"Open"})
<1>1. Has(cmds, {"Open"}) => Has(cmds', {"Open"})
  BY HasChanges DEF Queues
<1> QED
  BY <1>1, RunExtended, NoMsgChanges, AfterExtended DEF Queues, Opens, Comes

LEMMA PushingKeeps ==
  ASSUME StreamInv, Pushing \/ PushingOpen
  PROVE  StreamInv'
<1>0. Numbered /\ Unheard /\ Ordered
  BY DEF StreamInv
<1>1. PICK x :
        /\ Queues(x) /\ x.kind # "Message"
        /\ chan' = "open" /\ backend # "go" => chan = "open" \/ x.kind = "Open"
        /\ backend = "go" /\ chan' = "open" => chan = "open"
  BY DEF Pushing, PushingOpen, Plain, NoOpening
<1>2. /\ seen' = seen /\ evts' = evts /\ backend' = backend /\ polite' = polite
      /\ dataQ' = dataQ /\ mgr' = mgr /\ reg' = reg /\ arrived' = arrived
      /\ cmdOpen' => cmdOpen
  BY <1>1, QueuesFront DEF Pushing, PushingOpen, kind, rear
<1>3. Numbered'
  <2>1. PICK l, a, b \in Nat :
          /\ Heard(l) /\ Run(evts, l, a) /\ Run(cmds, a, b)
          /\ cmdOpen => IF backend = "go"
                          THEN \E c \in Nat : Run(dataQ, b, c) /\ Run(mgr, c, arrived)
                          ELSE b = arrived
    BY <1>0, NumberedNow
  <2>2. Heard(l)'
    BY <1>2, <2>1 DEF Heard, Accepting
  <2>3. Run(cmds', a, b)
    BY <1>1, <2>1, QueuesFront
  <2> QED
    BY <1>2, <2>1, <2>2, <2>3, NumberedAfter
<1>4. Unheard'
  <2>1. NoMsg(cmds) => NoMsg(cmds')
    BY <1>1, QueuesFront
  <2> QED
    BY <1>0, <1>2, <2>1, UnheardAfter DEF Unheard
<1>5. Ordered'
  <2>1. /\ Opens(seen, evts, cmds) => Opens(seen, evts, cmds')
        /\ Comes(seen, evts, cmds, dataQ) => Comes(seen, evts, cmds', dataQ)
        /\ After(cmds, {"Open"}) => After(cmds', {"Open"})
    BY <1>1, QueuesFront
  <2>2. cmdOpen' /\ backend # "go" /\ chan' = "open" => Opens(seen, evts, cmds')
    <3>1. CASE chan = "open"
      BY <1>0, <1>2, <2>1, <3>1, OrderedNow
    <3>2. CASE cmdOpen' /\ x.kind = "Open"
      BY <1>1, <3>2, HasChanges DEF Queues, Opens
    <3> QED
      BY <1>1, <3>1, <3>2
  <2>3. cmdOpen' /\ backend = "go" =>
          Comes(seen, evts, cmds', dataQ) \/ LooksNext(mgr) \/ Kept(mgr, reg, chan' = "open")
    <3>1. backend = "go" /\ Kept(mgr, reg, chan = "open") => Kept(mgr, reg, chan' = "open")
      BY <1>1 DEF Kept
    <3> QED
      BY <1>0, <1>2, <2>1, <3>1, OrderedNow
  <2> QED
    BY <1>0, <1>2, <2>1, <2>2, <2>3, OrderedNow, OrderedAfter DEF LooksNext
<1> QED
  BY <1>3, <1>4, <1>5 DEF StreamInv

LEMMA PushingMessageKeeps ==
  ASSUME StreamInv, PushingMessage
  PROVE  StreamInv'
<1>0. Numbered /\ Unheard /\ Ordered
  BY DEF StreamInv
<1>1. PICK x : Queues(x) /\ x.kind = "Message" /\ x.n = arrived + 1
  BY DEF PushingMessage
<1>2. /\ seen' = seen /\ evts' = evts /\ backend' = backend /\ polite' = polite
      /\ dataQ' = dataQ /\ mgr' = mgr /\ reg' = reg /\ arrived' = arrived + 1
      /\ chan' = chan /\ chan = "open" /\ backend # "go"
      /\ cmdOpen' => cmdOpen
  BY <1>1, QueuesFront DEF PushingMessage, kind
<1>3. Numbered'
  <2>1. PICK l, a, b \in Nat :
          /\ Heard(l) /\ Run(evts, l, a) /\ Run(cmds, a, b)
          /\ cmdOpen => b = arrived
    BY <1>0, <1>2, NumberedNow
  <2>2. Heard(l)'
    BY <1>2, <2>1 DEF Heard, Accepting
  <2>3. CASE cmdOpen'
    <3>1. Run(cmds', a, b + 1) /\ b + 1 = arrived' /\ b + 1 \in Nat
      BY <1>1, <1>2, <2>1, <2>3, RunExtended DEF Queues
    <3> QED
      BY <1>2, <2>1, <2>2, <3>1, NumberedAfter
  <2>4. CASE ~cmdOpen'
    <3>1. cmds' = cmds
      BY <2>4 DEF PushingMessage
    <3> QED
      BY <1>2, <2>1, <2>2, <2>4, <3>1, NumberedAfter
  <2> QED
    BY <2>3, <2>4
<1>4. Unheard'
  BY <1>2, UnheardAfter
<1>5. Ordered'
  <2>1. Opens(seen, evts, cmds) => Opens(seen, evts, cmds')
    BY <1>1, QueuesFront
  <2>2. cmdOpen => Opens(seen, evts, cmds)
    BY <1>0, <1>2, OrderedNow
  <2>3. Told(seen, evts) \/ After(cmds', {"Open"})
    <3>1. CASE cmdOpen
      <4>1. Told(seen, evts) \/ Has(cmds, {"Open"})
        BY <2>2, <3>1 DEF Opens
      <4>2. Told(seen, evts) \/ After(cmds, {"Open"})
        BY <1>0, OrderedNow
      <4> QED
        BY <1>1, <4>1, <4>2, QueuesFront
    <3>2. CASE ~cmdOpen
      <4>1. cmds' = cmds
        BY <1>2, <3>2 DEF PushingMessage
      <4> QED
        BY <1>0, <4>1, OrderedNow
    <3> QED
      BY <3>1, <3>2
  <2> QED
    BY <1>0, <1>2, <2>1, <2>2, <2>3, OrderedNow, OrderedAfter
<1> QED
  BY <1>3, <1>4, <1>5 DEF StreamInv

-----------------------------------------------------------------------------
(* The manager's queue and that of the data channel.                       *)

LEMMA KnownExtended ==
  ASSUME NEW q, NEW r, NEW x, NEW g, Extended(q, r, x)
  PROVE  /\ \A i \in 1..Len(q) + 1 : /\ Known(r, g, i) <=> Known(q, g, i)
                                     /\ Opened(q, g, i) => Opened(r, g, i)
         /\ x.kind # "Reg" => (Known(r, g, Len(r) + 1) <=> Known(q, g, Len(q) + 1))
         /\ Opened(q, g, Len(q) + 1) => Opened(r, g, Len(r) + 1)
         /\ x.kind = "Open" /\ Known(q, g, Len(q) + 1) => Opened(r, g, Len(r) + 1)
<1>1. Len(q) \in Nat /\ Len(r) = Len(q) + 1 /\ r[Len(q) + 1] = x
      /\ \A i \in 1..Len(q) : r[i] = q[i]
  BY DEF Extended
<1>2. ASSUME NEW i \in 1..Len(q) + 1
      PROVE  Known(r, g, i) <=> Known(q, g, i)
  <2>1. \A k \in 1..Len(r) : k < i => k \in 1..Len(q)
    BY <1>1
  <2>2. \A k \in 1..Len(q) : k \in 1..Len(r)
    BY <1>1
  <2> QED
    BY <1>1, <2>1, <2>2 DEF Known
<1>3. ASSUME NEW i \in 1..Len(q) + 1, Opened(q, g, i)
      PROVE  Opened(r, g, i)
  <2>1. PICK j \in 1..Len(q) : j < i /\ q[j].kind = "Open" /\ Known(q, g, j)
    BY <1>3 DEF Opened
  <2>2. j \in 1..Len(q) + 1 /\ j \in 1..Len(r) /\ r[j] = q[j]
    BY <1>1
  <2> QED
    BY <1>2, <2>1, <2>2 DEF Opened
<1>4. x.kind # "Reg" => (Known(r, g, Len(r) + 1) <=> Known(q, g, Len(q) + 1))
  <2>1. \A k \in 1..Len(r) : /\ k < Len(r) + 1
                             /\ k \in 1..Len(q) \/ k = Len(q) + 1
    BY <1>1
  <2>2. \A k \in 1..Len(q) : k \in 1..Len(r) /\ k < Len(q) + 1
    BY <1>1
  <2> QED
    BY <1>1, <2>1, <2>2 DEF Known
<1>5. ASSUME Opened(q, g, Len(q) + 1) PROVE Opened(r, g, Len(r) + 1)
  <2>1. PICK j \in 1..Len(q) : q[j].kind = "Open" /\ Known(q, g, j)
    BY <1>5 DEF Opened
  <2>2. j \in 1..Len(q) + 1 /\ j \in 1..Len(r) /\ r[j] = q[j] /\ j < Len(r) + 1
    BY <1>1
  <2> QED
    BY <1>2, <2>1, <2>2 DEF Opened
<1>6. ASSUME x.kind = "Open", Known(q, g, Len(q) + 1) PROVE Opened(r, g, Len(r) + 1)
  <2>1. Len(q) + 1 \in 1..Len(r) /\ Len(q) + 1 < Len(r) + 1 /\ Len(q) + 1 \in 1..Len(q) + 1
    BY <1>1
  <2> QED
    BY <1>1, <1>2, <1>6, <2>1 DEF Opened
<1> QED
  BY <1>2, <1>3, <1>4, <1>5, <1>6

LEMMA KeptExtended ==
  ASSUME NEW q, NEW r, NEW x, NEW g, NEW o, NEW p, Extended(q, r, x), Kept(q, g, o),
         x.kind # "Reg", x.kind = "Message" => o, p => o \/ x.kind = "Open"
  PROVE  Kept(r, g, p)
<1>1. Len(q) \in Nat /\ Len(r) = Len(q) + 1 /\ r[Len(q) + 1] = x
      /\ \A i \in 1..Len(q) : r[i] = q[i]
  BY DEF Extended
<1>2. ASSUME NEW i \in 1..Len(r), r[i].kind = "Message", Known(r, g, i)
      PROVE  Opened(r, g, i)
  <2>1. i \in 1..Len(q) + 1
    BY <1>1
  <2>2. CASE i \in 1..Len(q)
    BY <1>1, <1>2, <2>1, <2>2, KnownExtended DEF Kept
  <2>3. CASE i = Len(q) + 1
    <3>1. o /\ Known(q, g, Len(q) + 1)
      BY <1>1, <1>2, <2>1, <2>3, KnownExtended
    <3>2. Opened(q, g, Len(q) + 1)
      BY <3>1 DEF Kept
    <3> QED
      BY <2>1, <2>3, <3>2, KnownExtended
  <2> QED
    BY <1>1, <2>2, <2>3
<1>3. ASSUME p, Known(r, g, Len(r) + 1)
      PROVE  Opened(r, g, Len(r) + 1)
  <2>1. Known(q, g, Len(q) + 1)
    BY <1>3, KnownExtended
  <2>2. CASE o
    BY <2>1, <2>2, KnownExtended DEF Kept
  <2>3. CASE x.kind = "Open"
    BY <2>1, <2>3, KnownExtended
  <2> QED
    BY <1>3, <2>2, <2>3
<1> QED
  BY <1>2, <1>3 DEF Kept

LEMMA KnownShortened ==
  ASSUME NEW q, NEW r, NEW g, NEW h, Shortened(q, r), h <=> g \/ Head(q).kind = "Reg"
  PROVE  \A i \in 1..Len(r) + 1 :
           /\ i + 1 \in 1..Len(q) + 1
           /\ Known(r, h, i) <=> Known(q, g, i + 1)
           /\ Opened(q, g, i + 1) /\ ~(Head(q).kind = "Open" /\ g) => Opened(r, h, i)
<1>1. /\ Len(q) \in Nat \ {0} /\ Len(r) = Len(q) - 1 /\ Head(q) = q[1] /\ 1 \in 1..Len(q)
      /\ \A i \in 1..Len(r) : r[i] = q[i + 1] /\ i + 1 \in 1..Len(q)
      /\ \A i \in 1..Len(q) : i # 1 => i - 1 \in 1..Len(r) /\ r[i - 1] = q[i]
  BY ShortenedPlaces DEF Shortened
<1>2. ASSUME NEW i \in 1..Len(r) + 1
      PROVE  i + 1 \in 1..Len(q) + 1 /\ (Known(r, h, i) <=> Known(q, g, i + 1))
  <2>0. i + 1 \in 1..Len(q) + 1 /\ 1 < i + 1
    BY <1>1
  <2>1. \A k \in 1..Len(r) : k < i => k + 1 \in 1..Len(q) /\ k + 1 < i + 1
    BY <1>1
  <2>2. \A k \in 1..Len(q) : k < i + 1 /\ k # 1 => k - 1 \in 1..Len(r) /\ k - 1 < i
    BY <1>1
  <2>3. ASSUME Known(r, h, i) PROVE Known(q, g, i + 1)
    <3>1. CASE h
      BY <1>1, <2>0, <3>1 DEF Known
    <3>2. CASE ~h
      <4>1. PICK k \in 1..Len(r) : k < i /\ r[k].kind = "Reg"
        BY <2>3, <3>2 DEF Known
      <4> QED
        BY <1>1, <2>1, <4>1 DEF Known
    <3> QED
      BY <3>1, <3>2
  <2>4. ASSUME Known(q, g, i + 1) PROVE Known(r, h, i)
    <3>1. CASE g
      BY <3>1 DEF Known
    <3>2. CASE ~g
      <4>1. PICK k \in 1..Len(q) : k < i + 1 /\ q[k].kind = "Reg"
        BY <2>4, <3>2 DEF Known
      <4>2. CASE k = 1
        BY <1>1, <4>1, <4>2 DEF Known
      <4>3. CASE k # 1
        BY <1>1, <2>2, <4>1, <4>3 DEF Known
      <4> QED
        BY <4>2, <4>3
    <3> QED
      BY <3>1, <3>2
  <2> QED
    BY <2>0, <2>3, <2>4
<1>3. ASSUME NEW i \in 1..Len(r) + 1, Opened(q, g, i + 1), ~(Head(q).kind = "Open" /\ g)
      PROVE  Opened(r, h, i)
  <2>1. PICK j \in 1..Len(q) : j < i + 1 /\ q[j].kind = "Open" /\ Known(q, g, j)
    BY <1>3 DEF Opened
  <2>2. j # 1
    <3> SUFFICES ASSUME j = 1 PROVE FALSE
      OBVIOUS
    <3>1. ~ \E k \in 1..Len(q) : k < 1
      BY <1>1
    <3> QED
      BY <1>1, <1>3, <2>1, <3>1 DEF Known
  <2>3. /\ j - 1 \in 1..Len(r) /\ r[j - 1] = q[j] /\ j - 1 < i /\ j - 1 \in 1..Len(r) + 1
        /\ (j - 1) + 1 = j
    <3>1. j - 1 \in 1..Len(r) /\ r[j - 1] = q[j]
      BY <1>1, <2>2
    <3>2. j - 1 < i /\ j - 1 \in 1..Len(r) + 1 /\ (j - 1) + 1 = j
      BY <1>1, <2>1, <3>1
    <3> QED
      BY <3>1, <3>2
  <2>4. Known(r, h, j - 1)
    BY <1>2, <2>1, <2>3
  <2> QED
    BY <2>1, <2>3, <2>4 DEF Opened
<1> QED
  BY <1>2, <1>3

LEMMA KeptShortened ==
  ASSUME NEW q, NEW r, NEW g, NEW h, NEW o, Shortened(q, r), Kept(q, g, o),
         h <=> g \/ Head(q).kind = "Reg", ~(Head(q).kind = "Open" /\ g)
  PROVE  Kept(r, h, o)
<1>1. /\ \A i \in 1..Len(r) : /\ i + 1 \in 1..Len(q) /\ r[i] = q[i + 1]
                              /\ i \in 1..Len(r) + 1
      /\ Len(r) + 1 \in 1..Len(r) + 1 /\ (Len(r) + 1) + 1 = Len(q) + 1
  <2>1. Len(q) \in Nat \ {0} /\ Len(r) = Len(q) - 1
        /\ \A i \in 1..Len(r) : r[i] = q[i + 1]
    BY DEF Shortened
  <2> QED
    BY <2>1
<1>2. ASSUME NEW i \in 1..Len(r), r[i].kind = "Message", Known(r, h, i)
      PROVE  Opened(r, h, i)
  <2>1. Known(q, g, i + 1) /\ q[i + 1].kind = "Message" /\ i + 1 \in 1..Len(q)
    BY <1>1, <1>2, KnownShortened
  <2>2. Opened(q, g, i + 1)
    BY <2>1 DEF Kept
  <2> QED
    BY <1>1, <2>2, KnownShortened
<1>3. ASSUME o, Known(r, h, Len(r) + 1)
      PROVE  Opened(r, h, Len(r) + 1)
  <2>1. Known(q, g, Len(q) + 1)
    BY <1>1, <1>3, KnownShortened
  <2>2. Opened(q, g, Len(q) + 1)
    BY <1>3, <2>1 DEF Kept
  <2> QED
    BY <1>1, <2>2, KnownShortened
<1> QED
  BY <1>2, <1>3 DEF Kept

LEMMA KeptHead ==
  ASSUME NEW q, NEW r, NEW o, Shortened(q, r), Kept(q, TRUE, o)
  PROVE  Head(q).kind # "Message"
<1>1. 1 \in 1..Len(q) /\ Head(q) = q[1] /\ ~ \E j \in 1..Len(q) : j < 1
  BY ShortenedPlaces
<1> QED
  BY <1>1 DEF Kept, Known, Opened

-----------------------------------------------------------------------------
(* A step that changes nothing in front of the command channel.            *)

LEMMA RearNumbered ==
  ASSUME Numbered, UNCHANGED << kind, front >>, backend = "go",
         \A b, c \in Nat :
           cmdOpen /\ Run(dataQ, b, c) /\ Run(mgr, c, arrived) =>
             \E d \in Nat : Run(dataQ', b, d) /\ Run(mgr', d, arrived')
  PROVE  Numbered'
<1>1. PICK l, a, b \in Nat :
        /\ Heard(l) /\ Run(evts, l, a) /\ Run(cmds, a, b)
        /\ cmdOpen => \E c \in Nat : Run(dataQ, b, c) /\ Run(mgr, c, arrived)
  BY NumberedNow
<1>2. /\ evts' = evts /\ cmds' = cmds /\ cmdOpen' = cmdOpen /\ seen' = seen
      /\ backend' = backend /\ polite' = polite
  BY DEF kind, front
<1>3. Heard(l)'
  BY <1>1, <1>2 DEF Heard, Accepting
<1> QED
  BY <1>1, <1>2, <1>3, NumberedAfter

LEMMA RearKeeps ==
  ASSUME Unheard, Ordered, Numbered', UNCHANGED << kind, front >>,
         ~reg' /\ backend = "go" => ~reg /\ (NoMsg(dataQ) => NoMsg(dataQ')),
         cmdOpen /\ ~Opens(seen, evts, cmds) /\ After(dataQ, {"Open", "Close"}) =>
           After(dataQ', {"Open", "Close"}),
         cmdOpen /\ backend # "go" /\ chan' = "open" => chan = "open",
         cmdOpen /\ backend = "go" =>
           \/ Comes(seen, evts, cmds, dataQ') \/ LooksNext(mgr')
           \/ Kept(mgr', reg', chan' = "open")
  PROVE  StreamInv'
<1>1. /\ evts' = evts /\ cmds' = cmds /\ cmdOpen' = cmdOpen /\ seen' = seen
      /\ backend' = backend /\ polite' = polite
  BY DEF kind, front
<1>2. Unheard'
  BY <1>1, UnheardAfter DEF Unheard
<1>3. Ordered'
  BY <1>1, OrderedNow, OrderedAfter DEF LooksNext
<1> QED
  BY <1>2, <1>3 DEF StreamInv

LEMMA EmittingKeeps ==
  ASSUME StreamInv, Emitting \/ EmittingOpen \/ EmittingMessage
  PROVE  StreamInv'
<1>0. Numbered /\ Unheard /\ Ordered
  BY DEF StreamInv
<1>1. PICK x :
        /\ Extended(mgr, mgr', x) /\ x.kind # "Reg"
        /\ x.kind = "Message" => chan = "open" /\ x.n = arrived + 1
        /\ arrived' = IF x.kind = "Message" THEN arrived + 1 ELSE arrived
        /\ chan' = "open" => chan = "open" \/ x.kind = "Open"
  BY DEF Emitting, EmittingOpen, EmittingMessage, Plain, NoOpening
<1>2. UNCHANGED << kind, front >> /\ backend = "go" /\ dataQ' = dataQ /\ reg' = reg
  BY DEF Emitting, EmittingOpen, EmittingMessage
<1>3. Numbered'
  <2>1. ASSUME NEW b \in Nat, NEW c \in Nat, Run(dataQ, b, c), Run(mgr, c, arrived)
        PROVE  Run(mgr', c, arrived')
    BY <1>1, <2>1, RunExtended
  <2> QED
    BY <1>0, <1>2, <2>1, RearNumbered
<1>4. LooksNext(mgr) => LooksNext(mgr')
  BY <1>1, ExtendedPlaces DEF LooksNext
<1>5. Kept(mgr, reg, chan = "open") => Kept(mgr', reg', chan' = "open")
  BY <1>1, <1>2, KeptExtended
<1> QED
  BY <1>0, <1>2, <1>3, <1>4, <1>5, OrderedNow, RearKeeps

LEMMA StillKeeps ==
  ASSUME StreamInv, Still
  PROVE  StreamInv'
<1>0. Numbered /\ Unheard /\ Ordered
  BY DEF StreamInv
<1>1. /\ UNCHANGED << kind, front >> /\ dataQ' = dataQ /\ mgr' = mgr /\ reg' = reg
      /\ arrived' = arrived /\ (chan' = "open" => chan = "open")
  BY DEF Still, rear, NoOpening
<1>2. Numbered'
  <2>1. PICK l, a, b \in Nat :
          /\ Heard(l) /\ Run(evts, l, a) /\ Run(cmds, a, b)
          /\ cmdOpen => IF backend = "go"
                          THEN \E c \in Nat : Run(dataQ, b, c) /\ Run(mgr, c, arrived)
                          ELSE b = arrived
    BY <1>0, NumberedNow
  <2>2. Heard(l)'
    BY <1>1, <2>1 DEF Heard, Accepting, kind, front
  <2> QED
    BY <1>1, <2>1, <2>2, NumberedAfter DEF kind, front
<1>3. Kept(mgr, reg, chan = "open") => Kept(mgr, reg, chan' = "open")
  BY <1>1 DEF Kept
<1> QED
  BY <1>0, <1>1, <1>2, <1>3, OrderedNow, RearKeeps

-----------------------------------------------------------------------------
(* The manager's steps.                                                    *)

(* The queues of the manager and of the data channel move, and a command   *)
(* channel that is open keeps what it has.                                 *)
LEMMA ManagerKeeps ==
  ASSUME StreamInv, backend = "go", UNCHANGED << kind, front, arrived, chan >>,
         ~reg' => ~reg /\ (NoMsg(dataQ) => NoMsg(dataQ')),
         \A b, c \in Nat :
           cmdOpen /\ Run(dataQ, b, c) /\ Run(mgr, c, arrived) =>
             \E d \in Nat : Run(dataQ', b, d) /\ Run(mgr', d, arrived),
         cmdOpen /\ ~Opens(seen, evts, cmds) /\ After(dataQ, {"Open", "Close"}) =>
           After(dataQ', {"Open", "Close"}),
         cmdOpen /\ (Comes(seen, evts, cmds, dataQ) \/ LooksNext(mgr)
                       \/ Kept(mgr, reg, chan = "open")) =>
           \/ Comes(seen, evts, cmds, dataQ') \/ LooksNext(mgr')
           \/ Kept(mgr', reg', chan = "open")
  PROVE  StreamInv'
<1>0. Numbered /\ Unheard /\ Ordered
  BY DEF StreamInv
<1>1. UNCHANGED << kind, front >> /\ arrived' = arrived /\ chan' = chan
  OBVIOUS
<1>2. Numbered'
  BY <1>0, <1>1, RearNumbered
<1>3. cmdOpen => \/ Comes(seen, evts, cmds, dataQ) \/ LooksNext(mgr)
                 \/ Kept(mgr, reg, chan = "open")
  BY <1>0, OrderedNow
<1>4. Kept(mgr', reg', chan = "open") => Kept(mgr', reg', chan' = "open")
  BY <1>1
<1>5. cmdOpen =>
        \/ Comes(seen, evts, cmds, dataQ') \/ LooksNext(mgr')
        \/ Kept(mgr', reg', chan' = "open")
  BY <1>3, <1>4
<1> QED
  BY <1>0, <1>1, <1>2, <1>5, RearKeeps

(* What was made stands in for the announcement, and its registration      *)
(* comes last.                                                             *)
LEMMA MadeQueue ==
  ASSUME NEW S, NEW q \in Seq(S), q # << >>, NEW x \in S, NEW e \in S,
         NEW t \in Seq(S), Len(t) \in {0, 1}, \A i \in 1..Len(t) : t[i] = x
  PROVE  LET r == << e >> \o Tail(q) \o t
         IN /\ Len(r) = Len(q) + Len(t) /\ r[1] = e
            /\ \A i \in 1..Len(q) : i # 1 => r[i] = q[i]
            /\ \A i \in 1..Len(r) : i \in 1..Len(q) \/ (i = Len(q) + 1 /\ r[i] = x)
            /\ Len(t) \in {0, 1} /\ Len(q) \in Nat \ {0}
<1> DEFINE u == << e >> \o Tail(q)
           r == u \o t
<1>1. /\ Len(q) \in Nat \ {0} /\ Tail(q) \in Seq(S) /\ Len(Tail(q)) = Len(q) - 1
      /\ \A i \in 1..Len(Tail(q)) : Tail(q)[i] = q[i + 1]
  OBVIOUS
<1>3. /\ u \in Seq(S) /\ Len(u) = Len(q) /\ u[1] = e
      /\ \A i \in 1..Len(q) : i # 1 => u[i] = q[i]
  <2>1. << e >> \in Seq(S) /\ Len(<< e >>) = 1 /\ << e >>[1] = e
    OBVIOUS
  <2>2. u \in Seq(S) /\ Len(u) = Len(q) /\ u[1] = e
    BY <1>1, <2>1
  <2>3. ASSUME NEW i \in 1..Len(q), i # 1 PROVE u[i] = q[i]
    <3>1. i - 1 \in 1..Len(Tail(q)) /\ (i - 1) + 1 = i
      BY <1>1, <2>3
    <3>2. u[i] = Tail(q)[i - 1]
      BY <1>1, <2>1, <2>3, <3>1
    <3> QED
      BY <1>1, <3>1, <3>2
  <2> QED
    BY <2>2, <2>3
<1> HIDE DEF u
<1>4. /\ Len(r) = Len(q) + Len(t)
      /\ \A i \in 1..Len(q) + Len(t) : r[i] = IF i <= Len(q) THEN u[i] ELSE t[i - Len(q)]
  BY <1>3, ConcatProperties
<1> HIDE DEF r
<1>5. /\ 1 \in 1..Len(q)
      /\ \A i \in 1..Len(q) : i \in 1..Len(q) + Len(t) /\ i <= Len(q)
      /\ \A i \in 1..Len(q) + Len(t) :
           \/ i \in 1..Len(q)
           \/ i = Len(q) + 1 /\ ~(i <= Len(q)) /\ i - Len(q) \in 1..Len(t)
  BY <1>1
<1>6. \A i \in 1..Len(q) : r[i] = u[i]
  BY <1>4, <1>5
<1>7. r[1] = e /\ \A i \in 1..Len(q) : i # 1 => r[i] = q[i]
  BY <1>3, <1>5, <1>6
<1>8. \A i \in 1..Len(r) : i \in 1..Len(q) \/ (i = Len(q) + 1 /\ r[i] = x)
  BY <1>4, <1>5
<1> QED
  BY <1>1, <1>4, <1>7, <1>8 DEF r, u

Marks == {"Message", "Open", "Reg"}

LEMMA KeptSame ==
  ASSUME NEW q, NEW r, NEW g, NEW o, Len(r) = Len(q), Kept(q, g, o),
         \A i \in 1..Len(q) :
           r[i].kind = q[i].kind \/ (r[i].kind \notin Marks /\ q[i].kind \notin Marks)
  PROVE  Kept(r, g, o)
<1>1. \A i : Known(r, g, i) <=> Known(q, g, i)
  BY DEF Known, Marks
<1>2. \A i : Opened(r, g, i) <=> Opened(q, g, i)
  BY <1>1 DEF Opened, Marks
<1> QED
  BY <1>1, <1>2 DEF Kept, Marks

(* An accepted channel is looked at next, and registered last.  The other  *)
(* side's is made of an announcement like any.                             *)
LEMMA MakesQueue ==
  ASSUME TypeInv, MakesChannel
  PROVE  /\ 1 \in 1..Len(mgr) /\ 1 \in 1..Len(mgr') /\ Len(mgr) \in Nat /\ Len(mgr') \in Nat
         /\ mgr[1].kind = "DataChan" /\ mgr'[1] = [to |-> "manager", kind |-> "Look", n |-> 0]
         /\ \A i \in 1..Len(mgr) : i \in 1..Len(mgr') /\ (i # 1 => mgr'[i] = mgr[i])
         /\ \A i \in 1..Len(mgr') :
              i \in 1..Len(mgr) \/ (i = Len(mgr) + 1 /\ mgr'[i].kind = "Reg")
         /\ ~polite => Len(mgr') = Len(mgr)
<1> DEFINE x == [to |-> "manager", kind |-> "Reg", n |-> 0]
           e == [to |-> "manager", kind |-> "Look", n |-> 0]
           t == IF polite THEN << x >> ELSE << >>
<1>1. /\ mgr \in Seq(Addressable) /\ mgr # << >> /\ Head(mgr).kind = "DataChan"
      /\ mgr' = << e >> \o Tail(mgr) \o t
  BY DEF TypeInv, MgrOK, MakesChannel, IsFirst
<1>2. x \in Addressable /\ e \in Addressable
  BY DEF Addressable, Addressed, MgrItem, MgrKind
<1>3. /\ t \in Seq(Addressable) /\ Len(t) \in {0, 1} /\ \A i \in 1..Len(t) : t[i] = x
      /\ ~polite => Len(t) = 0
  <2>1. CASE polite
    BY <1>2, <2>1
  <2>2. CASE ~polite
    BY <2>2
  <2> QED
    BY <2>1, <2>2
<1>4. x.kind = "Reg"
  OBVIOUS
<1> HIDE DEF x, e, t
<1>5. /\ Len(mgr') = Len(mgr) + Len(t) /\ mgr'[1] = e
      /\ \A i \in 1..Len(mgr) : i # 1 => mgr'[i] = mgr[i]
      /\ \A i \in 1..Len(mgr') : i \in 1..Len(mgr) \/ (i = Len(mgr) + 1 /\ mgr'[i] = x)
      /\ Len(mgr) \in Nat \ {0}
  BY <1>1, <1>2, <1>3, MadeQueue
<1>6. /\ 1 \in 1..Len(mgr) /\ 1 \in 1..Len(mgr') /\ Len(mgr') \in Nat
      /\ \A i \in 1..Len(mgr) : i \in 1..Len(mgr')
      /\ Len(t) = 0 => Len(mgr') = Len(mgr)
  BY <1>3, <1>5
<1>7. Head(mgr) = mgr[1]
  BY <1>1
<1> QED
  BY <1>1, <1>3, <1>4, <1>5, <1>6, <1>7 DEF e

LEMMA MakesChannelKeeps ==
  ASSUME TypeInv, PlaceInv, StreamInv, MakesChannel, backend = "go"
  PROVE  StreamInv'
<1>1. UNCHANGED << kind, front, arrived, chan >> /\ dataQ' = dataQ /\ reg' = reg
  BY DEF MakesChannel, ManagerRest, front, own, evtVars, cmdVars, lib, kind
<1>2. mgr'[1].kind = "Look"
  BY MakesQueue
<1>3. \A b, c : Run(mgr, b, c) => Run(mgr', b, c)
  <2>1. SameMsgs(mgr, mgr')
    BY <1>2, MakesQueue DEF SameMsgs
  <2> QED
    BY <2>1, RunKept
<1>4. CASE polite
  <2>1. LooksNext(mgr')
    BY <1>2, <1>4, MakesQueue DEF LooksNext
  <2> QED
    BY <1>1, <1>3, <2>1, ManagerKeeps
<1>5. CASE ~polite
  <2>1. \A i \in 1..Len(mgr) :
          \/ mgr'[i].kind = mgr[i].kind
          \/ mgr'[i].kind \notin Marks /\ mgr[i].kind \notin Marks
    BY <1>2, MakesQueue DEF Marks
  <2>2. Kept(mgr, reg, chan = "open") => Kept(mgr', reg, chan = "open")
    BY <1>5, <2>1, MakesQueue, KeptSame
  <2>3. ~LooksNext(mgr)
    BY <1>5 DEF LooksNext
  <2> QED
    BY <1>1, <1>3, <2>2, <2>3, ManagerKeeps
<1> QED
  BY <1>4, <1>5

(* No message of a channel that is not open has come.                      *)
LEMMA NothingCame ==
  ASSUME NEW c, Run(mgr, c, 0)
  PROVE  NoMsg(mgr)
BY DEF Run, NoMsg

LEMMA LooksKeeps ==
  ASSUME TypeInv, PlaceInv, StreamInv, Looks, backend = "go"
  PROVE  StreamInv'
<1>1. UNCHANGED << kind, front, arrived, chan >> /\ reg' = reg
  BY DEF Looks, ManagerRest, front, own, evtVars, cmdVars, lib, kind
<1>2. Shortened(mgr, mgr') /\ Head(mgr).kind = "Look"
  BY TailShortens DEF Looks, IsFirst, TypeInv, MgrOK
<1>3. /\ dataQ' = dataQ \/ \E x : Extended(dataQ, dataQ', x) /\ x.kind \in {"Open", "Close"}
      /\ polite /\ chan \in {"open", "closed"} =>
           \E x : Extended(dataQ, dataQ', x) /\ x.kind \in {"Open", "Close"}
  <2>1. dataQ \in Seq(Item(DataCmd)) /\ dataQ' = dataQ \o Missed
    BY DEF Looks, TypeInv, FwdOK
  <2>2. ASSUME NEW k \in {"Open", "Close"}, Missed = << It(k, 0) >>
        PROVE  \E x : Extended(dataQ, dataQ', x) /\ x.kind \in {"Open", "Close"}
    <3>1. It(k, 0) \in Item(DataCmd) /\ It(k, 0).kind = k
      BY ItType, KindsAre
    <3>2. dataQ' = Append(dataQ, It(k, 0))
      BY <2>1, <2>2, <3>1
    <3> QED
      BY <2>1, <3>1, <3>2, AppendExtends
  <2>3. CASE polite /\ chan = "open"
    BY <2>2, <2>3 DEF Missed
  <2>4. CASE polite /\ chan = "closed"
    BY <2>2, <2>4 DEF Missed
  <2>5. CASE ~(polite /\ chan \in {"open", "closed"})
    BY <2>1, <2>5 DEF Missed
  <2> QED
    BY <2>3, <2>4, <2>5
<1>4. /\ \A b, c : Run(dataQ, b, c) => Run(dataQ', b, c)
      /\ NoMsg(dataQ) => NoMsg(dataQ')
      /\ After(dataQ, {"Open", "Close"}) => After(dataQ', {"Open", "Close"})
      /\ Has(dataQ, {"Open", "Close"}) => Has(dataQ', {"Open", "Close"})
  BY <1>3, RunExtended, NoMsgChanges, AfterExtended, HasChanges
<1>5. \A b, c : Run(mgr, b, c) => Run(mgr', b, c)
  BY <1>2, RunShortened
<1>6. Comes(seen, evts, cmds, dataQ) => Comes(seen, evts, cmds, dataQ')
  BY <1>4 DEF Comes
<1>7. Kept(mgr, reg, chan = "open") => Kept(mgr', reg', chan = "open")
  BY <1>1, <1>2, KeptShortened
<1>8. cmdOpen /\ LooksNext(mgr) =>
        Comes(seen, evts, cmds, dataQ') \/ Kept(mgr', reg', chan = "open")
  <2> SUFFICES ASSUME cmdOpen, polite
               PROVE  Comes(seen, evts, cmds, dataQ') \/ Kept(mgr', reg', chan = "open")
    BY DEF LooksNext
  <2>1. CASE chan \in {"open", "closed"}
    BY <1>3, <2>1, HasChanges DEF Comes
  <2>2. CASE chan \notin {"open", "closed"}
    <3>1. arrived = 0
      BY <2>2 DEF PlaceInv, TypeInv, LibOK
    <3>2. \E c : Run(mgr, c, 0)
      BY <3>1, NumberedNow DEF StreamInv
    <3>3. NoMsg(mgr')
      BY <1>2, <3>2, NothingCame, NoMsgChanges
    <3> QED
      BY <2>2, <3>3 DEF Kept, NoMsg
  <2> QED
    BY <2>1, <2>2
<1> QED
  BY <1>1, <1>4, <1>5, <1>6, <1>7, <1>8, ManagerKeeps

LEMMA RegistersKeeps ==
  ASSUME TypeInv, StreamInv, Registers, backend = "go"
  PROVE  StreamInv'
<1>1. UNCHANGED << kind, front, arrived, chan >> /\ reg' = TRUE /\ dataQ' = dataQ
  BY DEF Registers, ManagerRest, front, own, evtVars, cmdVars, lib, kind
<1>2. Shortened(mgr, mgr') /\ Head(mgr).kind = "Reg"
  BY TailShortens DEF Registers, IsFirst, TypeInv, MgrOK
<1>3. \A b, c : Run(mgr, b, c) => Run(mgr', b, c)
  BY <1>2, RunShortened
<1>4. Kept(mgr, reg, chan = "open") => Kept(mgr', reg', chan = "open")
  BY <1>1, <1>2, KeptShortened
<1>5. ~LooksNext(mgr)
  BY <1>2, ShortenedPlaces DEF LooksNext
<1> QED
  BY <1>1, <1>3, <1>4, <1>5, ManagerKeeps

(* A message the manager does not know the channel of is the first that is *)
(* lost, or follows one that was.                                          *)
LEMMA DeliversKeeps ==
  ASSUME TypeInv, PlaceInv, StreamInv, Delivers, backend = "go", HasLib
  PROVE  StreamInv'
<1> DEFINE e == Head(mgr)
           c == It(e.kind, e.n)
<1>0. Numbered /\ Unheard /\ Ordered
  BY DEF StreamInv
<1>1. UNCHANGED << kind, front, arrived, chan >> /\ reg' = reg
  BY DEF Delivers, ManagerRest, front, own, evtVars, cmdVars, lib, kind
<1>2. Shortened(mgr, mgr') /\ e \in MgrItem /\ Addressed(e)
  <2>1. mgr \in Seq(Addressable) /\ mgr # << >> /\ mgr' = Tail(mgr)
    BY DEF Delivers, TypeInv, MgrOK
  <2>2. Shortened(mgr, mgr') /\ e \in Addressable
    BY <2>1, TailShortens
  <2> QED
    BY <2>2 DEF Addressable
<1>3. c.kind = e.kind /\ c.n = e.n
  BY DEF It
<1>4. \/ /\ e.to = "peer" /\ e.kind \in {"GeneratedIce", "Close", "Error"} /\ dataQ' = dataQ
      \/ /\ e.to = "data" /\ e.kind \in DataCmd
         /\ IF reg THEN Extended(dataQ, dataQ', c) ELSE dataQ' = dataQ
  <2>1. CASE e.to = "peer" /\ e.kind # "DataChan" /\ dataQ' = dataQ
    BY <1>2, <2>1, KindsAre DEF Addressed
  <2>2. CASE e.to = "data" /\ dataQ' = IF reg THEN Append(dataQ, c) ELSE dataQ
    <3>1. e.kind \in DataCmd /\ e.n \in Nat /\ dataQ \in Seq(Item(DataCmd))
      BY <1>2, <2>2 DEF Addressed, MgrItem, TypeInv, FwdOK
    <3>2. c \in Item(DataCmd)
      BY <3>1, ItType
    <3>3. Extended(dataQ, Append(dataQ, c), c)
      BY <3>1, <3>2, AppendExtends
    <3> HIDE DEF c
    <3> QED
      BY <2>2, <3>1, <3>3
  <2> QED
    BY <2>1, <2>2 DEF Delivers
<1> HIDE DEF c
<1>5. e.kind \notin {"Look", "Reg"}
  BY <1>4, KindsAre
<1>6. ~LooksNext(mgr)
  BY <1>2, <1>5, ShortenedPlaces DEF LooksNext
<1>7. CASE dataQ' = dataQ /\ (e.kind \in {"Message", "Open"} => ~reg)
  <2>1. Kept(mgr, reg, chan = "open") => Kept(mgr', reg', chan = "open")
    BY <1>1, <1>2, <1>4, <1>5, <1>7, KeptShortened
  <2>2. CASE e.kind # "Message"
    <3>1. \A a, b : Run(mgr, a, b) => Run(mgr', a, b)
      BY <1>2, <2>2, RunShortened
    <3> QED
      BY <1>1, <1>6, <1>7, <2>1, <3>1, ManagerKeeps
  <2>3. CASE e.kind = "Message"
    <3>0. ~reg /\ e.to = "data"
      BY <1>4, <1>7, <2>3
    <3>1. polite
      <4>1. ASSUME ~polite PROVE FALSE
        <5>1. PICK j \in 1..Len(mgr) :
                mgr[j].kind = "Reg" /\ \A i \in 1..Len(mgr) : i < j => mgr[i].to # "data"
          BY <3>0, <4>1 DEF PlaceInv, RegisteredFirst
        <5>2. j # 1 /\ 1 \in 1..Len(mgr) /\ mgr[1].to = "data"
          BY <1>2, <2>3, <3>0, <5>1, ShortenedPlaces
        <5>3. 1 < j
          BY <5>2
        <5> QED
          BY <5>1, <5>2, <5>3
      <4> QED
        BY <4>1
    <3>2. Numbered'
      <4>1. CASE cmdOpen
        <5>1. seen.last = 0 /\ NoMsg(evts) /\ NoMsg(cmds) /\ NoMsg(dataQ)
          BY <1>0, <3>0, <4>1 DEF Unheard
        <5>2. PICK d \in Nat : Run(mgr, d, arrived)
          BY <1>0, <4>1, NumberedNow
        <5>3. Run(mgr', d + 1, arrived) /\ d + 1 \in Nat
          BY <1>2, <2>3, <5>2, RunShortened
        <5>4. /\ evts' = evts /\ cmds' = cmds /\ dataQ' = dataQ /\ arrived' = arrived
              /\ cmdOpen' = cmdOpen /\ seen' = seen /\ backend' = backend /\ polite' = polite
          BY <1>1, <1>7 DEF front, kind
        <5>5. Heard(d + 1)'
          BY <3>1, <5>1, <5>4 DEF Heard, Accepting
        <5>6. Run(evts, d + 1, d + 1) /\ Run(cmds, d + 1, d + 1) /\ Run(dataQ, d + 1, d + 1)
          BY <5>1, <5>3, RunOfNone
        <5> QED
          BY <5>3, <5>4, <5>5, <5>6, NumberedAfter
      <4>2. CASE ~cmdOpen
        BY <1>0, <1>1, <4>2, RearNumbered
      <4> QED
        BY <4>1, <4>2
    <3> QED
      BY <1>0, <1>1, <1>6, <1>7, <2>1, <3>2, OrderedNow, RearKeeps
  <2> QED
    BY <2>2, <2>3
<1>8. CASE Extended(dataQ, dataQ', c) /\ reg
  <2>1. /\ Has(dataQ, {"Open", "Close"}) => Has(dataQ', {"Open", "Close"})
        /\ e.kind \in {"Open", "Close"} => Has(dataQ', {"Open", "Close"})
    BY <1>3, <1>8, HasChanges
  <2>2. Comes(seen, evts, cmds, dataQ) => Comes(seen, evts, cmds, dataQ')
    BY <2>1 DEF Comes
  <2>3. Kept(mgr, reg, chan = "open") =>
          e.kind # "Message" /\ (e.kind # "Open" => Kept(mgr', reg', chan = "open"))
    <3>1. reg = TRUE
      BY <1>8 DEF TypeInv, MgrOK
    <3>2. Kept(mgr, reg, chan = "open") => e.kind # "Message"
      BY <1>2, <3>1, KeptHead
    <3> QED
      BY <1>1, <1>2, <1>5, <3>2, KeptShortened
  <2>4. cmdOpen => \/ Comes(seen, evts, cmds, dataQ) \/ Kept(mgr, reg, chan = "open")
    BY <1>0, <1>6, OrderedNow
  <2>5. cmdOpen /\ ~Opens(seen, evts, cmds) /\ After(dataQ, {"Open", "Close"}) =>
          After(dataQ', {"Open", "Close"})
    BY <1>3, <1>8, <2>3, <2>4, AfterExtended DEF Comes
  <2>6. \A b, d \in Nat :
          Run(dataQ, b, d) /\ Run(mgr, d, arrived) =>
            \E f \in Nat : Run(dataQ', b, f) /\ Run(mgr', f, arrived)
    <3> SUFFICES ASSUME NEW b \in Nat, NEW d \in Nat, Run(dataQ, b, d), Run(mgr, d, arrived)
                 PROVE  \E f \in Nat : Run(dataQ', b, f) /\ Run(mgr', f, arrived)
      OBVIOUS
    <3>1. CASE e.kind = "Message"
      <4>1. e.n = d + 1 /\ Run(mgr', d + 1, arrived) /\ d + 1 \in Nat
        BY <1>2, <3>1, RunShortened
      <4>2. Run(dataQ', b, d + 1)
        BY <1>3, <1>8, <3>1, <4>1, RunExtended
      <4> QED
        BY <4>1, <4>2
    <3>2. CASE e.kind # "Message"
      BY <1>2, <1>3, <1>8, <3>2, RunShortened, RunExtended
    <3> QED
      BY <3>1, <3>2
  <2> QED
    BY <1>1, <1>6, <1>8, <2>1, <2>2, <2>3, <2>4, <2>5, <2>6, ManagerKeeps DEF Comes
<1> QED
  BY <1>4, <1>7, <1>8

LEMMA DataForwardsKeeps ==
  ASSUME TypeInv, PlaceInv, StreamInv, DataForwards
  PROVE  StreamInv'
<1> DEFINE x == Head(dataQ)
           OC == {"Open", "Close"}
<1>0. Numbered /\ Unheard /\ Ordered
  BY DEF StreamInv
<1>1. /\ seen' = seen /\ evts' = evts /\ backend' = backend /\ polite' = polite
      /\ mgr' = mgr /\ reg' = reg /\ arrived' = arrived /\ chan' = chan
  BY DEF DataForwards, kind, evtVars, own, lib
<1>2. Shortened(dataQ, dataQ') /\ backend = "go" /\ x \in Item(DataCmd)
  BY TailShortens, HeadType DEF DataForwards, TypeInv, FwdOK, PlaceInv
<1>3. CASE x.kind = "Close"
  <2>1. cmds' = cmds /\ ~cmdOpen'
    BY <1>3 DEF DataForwards
  <2>2. PICK l, a, b \in Nat : Heard(l) /\ Run(evts, l, a) /\ Run(cmds, a, b)
    BY <1>0, NumberedNow
  <2>3. Heard(l)'
    BY <1>1, <2>2 DEF Heard, Accepting
  <2>4. Numbered'
    BY <1>1, <2>1, <2>2, <2>3, NumberedAfter
  <2>5. Unheard'
    BY <2>1, UnheardAfter
  <2>6. Ordered'
    BY <1>0, <1>1, <2>1, OrderedNow, OrderedAfter
  <2> QED
    BY <2>4, <2>5, <2>6 DEF StreamInv
<1>4. CASE x.kind # "Close"
  <2>1. Queues(x) /\ (~cmdOpen' => cmds' = cmds)
    <3>1. Pushes(x) /\ cmds \in CmdSeq /\ x \in Item(CmdKind)
      BY <1>2, <1>4 DEF DataForwards, TypeInv, CmdsOK, CmdKind, Item
    <3>2. Extended(cmds, Append(cmds, x), x)
      BY <3>1, AppendExtends DEF CmdSeq
    <3> QED
      BY <3>1, <3>2 DEF Pushes, CmdFits, Queues
  <2>2. cmdOpen' => cmdOpen /\ Extended(cmds, cmds', x)
    BY <2>1 DEF Queues
  <2>3. Numbered'
    <3>1. PICK l, a, b \in Nat :
            /\ Heard(l) /\ Run(evts, l, a) /\ Run(cmds, a, b)
            /\ cmdOpen => \E c \in Nat : Run(dataQ, b, c) /\ Run(mgr, c, arrived)
      BY <1>0, <1>2, NumberedNow
    <3>2. Heard(l)'
      BY <1>1, <3>1 DEF Heard, Accepting
    <3>3. CASE ~cmdOpen'
      BY <1>1, <2>1, <3>1, <3>2, <3>3, NumberedAfter
    <3>4. CASE cmdOpen'
      <4>1. PICK c \in Nat : Run(dataQ, b, c) /\ Run(mgr, c, arrived)
        BY <2>2, <3>1, <3>4
      <4>2. CASE x.kind = "Message"
        <5>1. x.n = b + 1 /\ Run(dataQ', b + 1, c) /\ b + 1 \in Nat
          BY <1>2, <4>1, <4>2, RunShortened
        <5>2. Run(cmds', a, b + 1)
          BY <2>2, <3>1, <3>4, <4>2, <5>1, RunExtended
        <5> QED
          BY <1>1, <1>2, <3>1, <3>2, <4>1, <5>1, <5>2, NumberedAfter
      <4>3. CASE x.kind # "Message"
        <5>1. Run(dataQ', b, c) /\ Run(cmds', a, b)
          BY <1>2, <2>2, <3>1, <3>4, <4>1, <4>3, RunShortened, RunExtended
        <5> QED
          BY <1>1, <1>2, <3>1, <3>2, <4>1, <5>1, NumberedAfter
      <4> QED
        BY <4>2, <4>3
    <3> QED
      BY <3>3, <3>4
  <2>4. Unheard'
    <3>1. NoMsg(dataQ) => NoMsg(dataQ') /\ x.kind # "Message"
      BY <1>2, NoMsgChanges
    <3>2. NoMsg(cmds) /\ x.kind # "Message" => NoMsg(cmds')
      BY <2>1, QueuesFront
    <3> QED
      BY <1>0, <1>1, <2>2, <3>1, <3>2, UnheardAfter DEF Unheard
  <2>5. Ordered'
    <3>1. After(dataQ, OC) => x.kind # "Message" /\ (x.kind # "Open" => After(dataQ', OC))
      BY <1>2, <1>4, AfterShortened
    <3>2. /\ Opens(seen, evts, cmds) => Opens(seen, evts, cmds')
          /\ Comes(seen, evts, cmds, dataQ) => Comes(seen, evts, cmds', dataQ)
          /\ After(cmds, {"Open"}) /\ (x.kind = "Message" => Has(cmds, {"Open"}))
               => After(cmds', {"Open"})
      BY <2>1, QueuesFront
    <3>3. cmdOpen' /\ x.kind = "Open" => Opens(seen, evts, cmds')
      BY <2>2, HasChanges DEF Opens
    <3>4. Told(seen, evts) \/ After(cmds', {"Open"})
      <4>1. CASE cmds' = cmds
        BY <1>0, <4>1, OrderedNow
      <4>2. CASE cmdOpen
        <5>1. x.kind = "Message" => Told(seen, evts) \/ Has(cmds, {"Open"})
          BY <1>0, <3>1, <4>2, OrderedNow DEF Opens
        <5> QED
          BY <1>0, <3>2, <5>1, OrderedNow
      <4> QED
        BY <2>1, <2>2, <4>1, <4>2
    <3>5. cmdOpen' => Opens(seen, evts, cmds') \/ After(dataQ', OC)
      BY <1>0, <2>2, <3>1, <3>2, <3>3, OrderedNow
    <3>6. cmdOpen' /\ Comes(seen, evts, cmds, dataQ) => Comes(seen, evts, cmds', dataQ')
      <4>1. Has(dataQ, OC) /\ x.kind # "Open" => Has(dataQ', OC)
        BY <1>2, <1>4, HasChanges
      <4> QED
        BY <3>2, <3>3, <4>1 DEF Comes
    <3>7. cmdOpen' => \/ Comes(seen, evts, cmds', dataQ') \/ LooksNext(mgr)
                      \/ Kept(mgr, reg, chan = "open")
      BY <1>0, <1>2, <2>2, <3>6, OrderedNow
    <3>8. Kept(mgr, reg, chan = "open") => Kept(mgr', reg', chan' = "open")
      BY <1>1
    <3> QED
      BY <1>0, <1>1, <1>2, <3>4, <3>5, <3>7, <3>8, OrderedNow, OrderedAfter DEF LooksNext
  <2> QED
    BY <2>3, <2>4, <2>5 DEF StreamInv
<1> QED
  BY <1>3, <1>4

-----------------------------------------------------------------------------
(* The owner takes what it was told; the task sets up.                     *)

(* A message that is received is the next one, and the owner knows of the  *)
(* opening.                                                                *)
LEMMA ReceivedNext ==
  ASSUME TypeInv, StreamInv, Receives, Head(evts).kind = "Message"
  PROVE  /\ seen.ready
         /\ \E l, a \in Nat : Heard(l) /\ Head(evts).n = l + 1 /\ Run(evts, l, a)
<1>1. Shortened(evts, evts')
  BY TailShortens DEF Receives, TypeInv, EvtsOK, EvtSeq
<1>2. seen.ready
  BY <1>1, OrderedNow, AfterShortened DEF StreamInv
<1>3. PICK l, a \in Nat : Heard(l) /\ Run(evts, l, a)
  BY DEF StreamInv, Numbered
<1>4. Head(evts).n = l + 1
  BY <1>1, <1>3, RunShortened
<1> QED
  BY <1>2, <1>3, <1>4

LEMMA ReceivesKeeps ==
  ASSUME TypeInv, StreamInv, Receives
  PROVE  StreamInv'
<1> DEFINE x == Head(evts)
<1>0. Numbered /\ Unheard /\ Ordered
  BY DEF StreamInv
<1>1. /\ cmds' = cmds /\ cmdOpen' = cmdOpen /\ backend' = backend /\ polite' = polite
      /\ dataQ' = dataQ /\ mgr' = mgr /\ reg' = reg /\ arrived' = arrived /\ chan' = chan
  BY DEF Receives, kind, cmdVars, lib, fwd
<1>2. Shortened(evts, evts')
  BY TailShortens DEF Receives, TypeInv, EvtsOK, EvtSeq
<1>3. /\ seen'.ready <=> seen.ready \/ x.kind = "Ready"
      /\ seen'.last = IF x.kind = "Message" THEN x.n ELSE seen.last
  BY DEF Receives, TypeInv, OwnOK, Seen
<1>4. Numbered'
  <2>1. PICK l, a, b \in Nat :
          /\ Heard(l) /\ Run(evts, l, a) /\ Run(cmds, a, b)
          /\ cmdOpen => IF backend = "go"
                          THEN \E c \in Nat : Run(dataQ, b, c) /\ Run(mgr, c, arrived)
                          ELSE b = arrived
    BY <1>0, NumberedNow
  <2>2. CASE x.kind = "Message"
    <3>1. x.n = l + 1 /\ Run(evts', l + 1, a) /\ l + 1 \in Nat
      BY <1>2, <2>1, <2>2, RunShortened
    <3>2. Heard(l + 1)'
      BY <1>3, <2>2, <3>1 DEF Heard
    <3> QED
      BY <1>1, <2>1, <3>1, <3>2, NumberedAfter
  <2>3. CASE x.kind # "Message"
    <3>1. Run(evts', l, a)
      BY <1>2, <2>1, <2>3, RunShortened
    <3>2. Heard(l)'
      BY <1>1, <1>3, <2>1, <2>3 DEF Heard, Accepting
    <3> QED
      BY <1>1, <2>1, <3>1, <3>2, NumberedAfter
  <2> QED
    BY <2>2, <2>3
<1>5. Unheard'
  <2>1. NoMsg(evts) => NoMsg(evts') /\ x.kind # "Message"
    BY <1>2, NoMsgChanges
  <2> QED
    BY <1>0, <1>1, <1>3, <2>1, UnheardAfter DEF Unheard
<1>6. Ordered'
  <2>1. seen.ready \/ After(evts, {"Ready"}) => seen'.ready \/ After(evts', {"Ready"})
    BY <1>2, <1>3, AfterShortened
  <2>2. Told(seen, evts) => Told(seen', evts')
    BY <1>2, <1>3, HasChanges DEF Told
  <2>3. /\ Opens(seen, evts, cmds) => Opens(seen', evts', cmds)
        /\ Comes(seen, evts, cmds, dataQ) => Comes(seen', evts', cmds, dataQ)
    BY <2>2 DEF Opens, Comes
  <2>4. LooksNext(mgr) <=> (polite /\ 1 \in 1..Len(mgr) /\ mgr[1].kind = "Look")
    BY DEF LooksNext
  <2>5. Kept(mgr, reg, chan = "open") => Kept(mgr', reg', chan' = "open")
    BY <1>1
  <2> QED
    BY <1>0, <1>1, <2>1, <2>2, <2>3, <2>4, <2>5, OrderedNow, OrderedAfter
<1> QED
  BY <1>4, <1>5, <1>6 DEF StreamInv

LEMMA SetsUpKeeps ==
  ASSUME TypeInv, PlaceInv, StreamInv, SetsUp
  PROVE  StreamInv'
<1>0. Numbered /\ Unheard /\ Ordered
  BY DEF StreamInv
<1>1. /\ cmds' = cmds /\ cmdOpen' = cmdOpen /\ backend' = backend /\ polite' = polite
      /\ dataQ' = dataQ /\ reg' = reg /\ arrived' = arrived /\ seen' = seen
      /\ chan' # "open" /\ evts = << >> /\ mgr = << >>
  BY DEF SetsUp, PlaceInv, kind, cmdVars, own
<1>2. AddsPlain(evts, evts')
  <2>1. evts \in EvtSeq /\ It("Offer", 0) \in Item(EvtKind) /\ It("Offer", 0).kind = "Offer"
    BY ItType, KindsAre DEF TypeInv, EvtsOK
  <2>2. Plain(It("Offer", 0))
    BY <2>1 DEF Plain
  <2>3. CASE evts' = << It("Offer", 0) >>
    <3>1. evts' = Append(evts, It("Offer", 0))
      BY <1>1, <2>1, <2>3 DEF EvtSeq
    <3> QED
      BY <2>1, <2>2, <3>1, AppendExtends DEF AddsPlain, EvtSeq
  <2>4. CASE evts' = << >>
    BY <1>1, <2>4 DEF AddsPlain
  <2> QED
    BY <2>3, <2>4 DEF SetsUp
<1>3. NoMsg(mgr') /\ NoMsg(mgr)
  <2> DEFINE r == [to |-> "manager", kind |-> "Reg", n |-> 0]
  <2>1. /\ NoMsg(<< >>)
        /\ Len(<< r >>) = 1 /\ << r >>[1] = r /\ r.kind # "Message"
    BY DEF NoMsg
  <2>2. NoMsg(<< r >>)
    BY <2>1 DEF NoMsg
  <2> QED
    BY <1>1, <2>1, <2>2 DEF SetsUp
<1>4. Numbered'
  <2>1. PICK l, a, b \in Nat :
          /\ Heard(l) /\ Run(evts, l, a) /\ Run(cmds, a, b)
          /\ cmdOpen => IF backend = "go"
                          THEN \E c \in Nat : Run(dataQ, b, c) /\ Run(mgr, c, arrived)
                          ELSE b = arrived
    BY <1>0, NumberedNow
  <2>2. Heard(l)'
    BY <1>1, <2>1 DEF Heard, Accepting
  <2>3. Run(evts', l, a)
    BY <1>2, <2>1, RunAddsPlain
  <2>4. \A c \in Nat : Run(mgr, c, arrived) => Run(mgr', c, arrived)
    BY <1>3, RunOfNone
  <2> QED
    BY <1>1, <2>1, <2>2, <2>3, <2>4, NumberedAfter
<1>5. Unheard'
  BY <1>0, <1>1, <1>2, ToldAddsPlain, UnheardAfter DEF Unheard
<1>6. Ordered'
  <2>1. /\ seen.ready \/ After(evts, {"Ready"}) => seen.ready \/ After(evts', {"Ready"})
        /\ Told(seen, evts) => Told(seen, evts')
    BY <1>2, ToldAddsPlain
  <2>2. Opens(seen, evts, cmds) => Opens(seen, evts', cmds)
    BY <2>1 DEF Opens
  <2>3. Kept(mgr', reg', chan' = "open")
    BY <1>1, <1>3 DEF Kept, NoMsg
  <2> QED
    BY <1>0, <1>1, <2>1, <2>2, <2>3, OrderedNow, OrderedAfter
<1> QED
  BY <1>4, <1>5, <1>6 DEF StreamInv

-----------------------------------------------------------------------------
(* Both invariants, step by step.                                          *)

TalkInv == PlaceInv /\ StreamInv

LEMMA PlaceAfter ==
  ASSUME task' = "sent" => Head(cmds').kind = "Send",
         task' = "setup" => mgr' = << >> /\ evts' = << >> /\ ~announced' /\ chan' = "none",
         task' \in Gone => mgr' = << >>,
         polite' /\ ~announced' => chan' = "none",
         chan' \in {"none", "connecting"} => arrived' = 0,
         backend' = "go" /\ ~polite' /\ task' \in {"loop", "sent"} /\ ~reg' =>
           RegisteredFirst(mgr'),
         backend' # "go" => mgr' = << >> /\ ~dataTask'
  PROVE  PlaceInv'
<1>1. RegisteredFirst(mgr') => RegisteredFirst(mgr)'
  BY DEF RegisteredFirst
<1> QED
  BY <1>1 DEF PlaceInv, HasLib, Gone

(* The task stays where it is or goes on, and the library does nothing.    *)
LEMMA PlaceKept ==
  ASSUME PlaceInv, UNCHANGED << kind, chan, announced, arrived, mgr, reg >>,
         task' = task \/ (task \in {"loop", "sent"} /\ task' = "loop"),
         task' = "sent" => Head(cmds') = Head(cmds),
         task' = "setup" => evts' = evts,
         dataTask' => dataTask \/ backend = "go"
  PROVE  PlaceInv'
<1>1. "loop" \notin Gone
  BY KindsAre
<1> QED
  BY <1>1, PlaceAfter DEF PlaceInv, HasLib, kind

LEMMA PushesWhat ==
  ASSUME TypeInv, NEW c \in Item(CmdKind), Pushes(c)
  PROVE  /\ Queues(c) /\ (~cmdOpen' => cmds' = cmds)
         /\ task = "sent" => Head(cmds') = Head(cmds)
<1>1. cmds \in CmdSeq /\ cmdOpen \in BOOLEAN /\ (task = "sent" => cmds # << >>)
  BY DEF TypeInv, CmdsOK
<1>2. Extended(cmds, Append(cmds, c), c)
  BY <1>1, AppendExtends DEF CmdSeq
<1>3. cmds # << >> => Head(Append(cmds, c)) = Head(cmds)
  BY <1>1 DEF CmdSeq
<1> QED
  BY <1>1, <1>2, <1>3 DEF Pushes, CmdFits, Queues

(* Something other than a message or an opening is pushed.                 *)
LEMMA PushesKeeps ==
  ASSUME TypeInv, TalkInv, NEW c \in Item(CmdKind), Pushes(c), Plain(c),
         UNCHANGED << kind, task, seen, evts, rear, chan, announced, dataTask >>
  PROVE  TalkInv'
<1>1. Queues(c) /\ (task = "sent" => Head(cmds') = Head(cmds))
  BY PushesWhat
<1>2. PlaceInv'
  BY <1>1, PlaceKept DEF TalkInv, rear
<1>3. StreamInv'
  BY <1>1, PushingKeeps DEF TalkInv, Pushing, NoOpening
<1> QED
  BY <1>2, <1>3 DEF TalkInv

LEMMA EndsTalk ==
  ASSUME TalkInv, NEW how \in Gone, NEW es, AddsPlain(evts, es), EndsSaying(how, es),
         SameOwner, UNCHANGED << kind, lib >>
  PROVE  TalkInv'
<1>1. PlaceInv'
  <2>1. /\ task' \in {"ended", "stillborn"} /\ mgr' = << >> /\ ~dataTask'
        /\ chan' = chan /\ announced' = announced /\ arrived' = arrived /\ polite' = polite
    BY KindsAre DEF EndsSaying, kind, lib
  <2> QED
    BY <2>1, PlaceAfter DEF TalkInv, PlaceInv
<1>2. StreamInv'
  <2>1. NoMsg(cmds') /\ ~cmdOpen' /\ evts' = es
    BY DEF EndsSaying, NoMsg
  <2> QED
    BY <2>1, EndingKeeps DEF TalkInv, Ending
<1> QED
  BY <1>1, <1>2 DEF TalkInv

LEMMA EndsPlainTalk ==
  ASSUME TalkInv, NEW how \in Gone, Ends(how), UNCHANGED << kind, own, lib >>
  PROVE  TalkInv'
BY EndsTalk DEF Ends, AddsPlain, SameOwner, own

LEMMA AppendsPlain ==
  ASSUME TypeInv, NEW k \in {"Offer", "Answer", "GeneratedIce", "Closed"}
  PROVE  AddsPlain(evts, Append(evts, It(k, 0)))
<1>1. It(k, 0) \in Item(EvtKind) /\ It(k, 0).kind = k
  BY ItType, KindsAre
<1>2. Extended(evts, Append(evts, It(k, 0)), It(k, 0))
  BY <1>1, AppendExtends DEF TypeInv, EvtsOK, EvtSeq
<1> QED
  BY <1>1, <1>2 DEF AddsPlain, Plain

LEMMA TakenTalk ==
  ASSUME TypeInv, TalkInv, cmds # << >>, Taken, task \in {"loop", "sent"}, task' = "loop",
         Head(cmds).kind \notin {"Message", "Open"}, AddsPlain(evts, evts'),
         UNCHANGED << kind, seen, rear, chan, announced >>,
         dataTask' => dataTask \/ backend = "go"
  PROVE  TalkInv'
<1>1. PlaceInv'
  BY PlaceKept DEF TalkInv, rear
<1>2. Shortened(cmds, cmds')
  BY TailShortens DEF Taken, TypeInv, CmdsOK, CmdSeq
<1>3. StreamInv'
  BY <1>2, TakingKeeps DEF TalkInv, Taking, Taken
<1> QED
  BY <1>1, <1>3 DEF TalkInv

LEMMA OwnerTalk ==
  ASSUME TypeInv, TalkInv, OwnerStep
  PROVE  TalkInv'
<1>1. ASSUME NEW k \in Given, Gives(k) PROVE TalkInv'
  <2>1. It(k, 0) \in Item(CmdKind) /\ Plain(It(k, 0))
    BY ItType, KindsAre DEF Plain
  <2> QED
    BY <1>1, <2>1, PushesKeeps DEF Gives, kind, evtVars, lib, rear, fwd
<1>2. ASSUME NEW m \in Calls, Message(m) PROVE TalkInv'
  <2>1. m \in Nat /\ "Send" \in CmdKind
    BY KindsAre, WebrtcAssumption
  <2>2. It("Send", m) \in Item(CmdKind) /\ Plain(It("Send", m))
    BY <2>1, ItType DEF Plain
  <2> QED
    BY <1>2, <2>2, PushesKeeps DEF Message, kind, evtVars, own, lib, rear, fwd
<1>3. CASE Receives
  <2>1. PlaceInv'
    <3>1. task' = "setup" => FALSE
      BY <1>3 DEF Receives, TalkInv, PlaceInv
    <3> QED
      BY <1>3, <3>1, PlaceKept DEF Receives, TalkInv, cmdVars, lib, fwd
  <2> QED
    BY <1>3, <2>1, ReceivesKeeps DEF TalkInv
<1>4. CASE Drops
  <2>1. SameOwner /\ "ended" \in Gone /\ AddsPlain(evts, evts)
    BY <1>4, KindsAre DEF Drops, TypeInv, OwnOK, Seen, SameOwner, AddsPlain
  <2> QED
    BY <1>4, <2>1, EndsTalk DEF Drops, Ends
<1> QED
  BY <1>1, <1>2, <1>3, <1>4 DEF OwnerStep

-----------------------------------------------------------------------------
LEMMA IgnoresTalk ==
  ASSUME TypeInv, TalkInv, NEW k, k \notin {"Message", "Open"}, Ignores(k)
  PROVE  TalkInv'
BY TakenTalk DEF Ignores, Takes, Goes, AddsPlain, kind, evtVars, own, lib, fwd, rear

LEMMA ErrsTalk ==
  ASSUME TalkInv, NEW k, Errs(k)
  PROVE  TalkInv'
BY EndsPlainTalk, KindsAre DEF Errs

LEMMA TellsTalk ==
  ASSUME TypeInv, TalkInv, Forwards
  PROVE  TalkInv'
<1>1. ASSUME NEW k, NEW e, Tells(k, e)
      PROVE  TalkInv' \/ /\ evts' = Append(evts, e) /\ Taken /\ Goes /\ mgr' = mgr
                         /\ Takes(k) /\ UNCHANGED << kind, own, lib >>
  BY <1>1, EndsPlainTalk, KindsAre DEF Tells
<1>2. ASSUME NEW k \in {"Offer", "Answer", "GeneratedIce"}, Tells(k, It(k, 0))
      PROVE  TalkInv'
  BY <1>1, <1>2, TakenTalk, AppendsPlain DEF Takes, Goes, own, lib, fwd, rear
<1>3. ASSUME NEW k, NEW e \in Item(EvtKind), Tells(k, e), ~TalkInv'
      PROVE  /\ PlaceInv' /\ Shortened(cmds, cmds') /\ Head(cmds).kind = k
             /\ Extended(evts, evts', e)
             /\ UNCHANGED << kind, cmdOpen, seen, rear, chan >>
  <2>1. /\ evts' = Append(evts, e) /\ Taken /\ Goes /\ mgr' = mgr /\ Takes(k)
        /\ UNCHANGED << kind, own, lib >>
    BY <1>1, <1>3
  <2>2. Shortened(cmds, cmds') /\ Extended(evts, evts', e)
    BY <2>1, TailShortens, AppendExtends
    DEF Takes, Taken, TypeInv, CmdsOK, CmdSeq, EvtsOK, EvtSeq
  <2>3. PlaceInv'
    BY <2>1, PlaceKept DEF Takes, Goes, TalkInv, lib, fwd
  <2> QED
    BY <2>1, <2>2, <2>3 DEF Takes, Taken, Goes, own, lib, fwd, rear
<1>4. CASE Tells("Message", It("Message", Head(cmds).n))
  <2> DEFINE e == It("Message", Head(cmds).n)
  <2>1. Head(cmds).n \in Nat
    BY <1>4, HeadType DEF Tells, Takes, TypeInv, CmdsOK, CmdSeq
  <2>2. e \in Item(EvtKind) /\ e.kind = "Message" /\ e.n = Head(cmds).n
    BY <2>1, ItType, KindsAre
  <2> HIDE DEF e
  <2>3. ~TalkInv' => PlaceInv' /\ TellingMessage
    BY <1>3, <1>4, <2>2 DEF TellingMessage, e
  <2> QED
    BY <2>3, TellingMessageKeeps DEF TalkInv
<1>5. CASE Tells("Open", It("Ready", 0))
  <2>1. It("Ready", 0) \in Item(EvtKind) /\ It("Ready", 0).kind = "Ready"
    BY ItType, KindsAre
  <2>2. ~TalkInv' => PlaceInv' /\ TellingReady
    BY <1>3, <1>5, <2>1 DEF TellingReady
  <2> QED
    BY <2>2, TellingReadyKeeps DEF TalkInv
<1> QED
  BY <1>2, <1>4, <1>5 DEF Forwards

LEMMA DescriptionTalk ==
  ASSUME TypeInv, TalkInv, TakesDescription
  PROVE  TalkInv'
<1>1. CASE AcceptsOffer
  <2>1. AddsPlain(evts, evts')
    BY <1>1, AppendsPlain DEF AcceptsOffer, AddsPlain
  <2> QED
    BY <1>1, <2>1, TakenTalk DEF AcceptsOffer, Takes, Goes, own, fwd, rear
<1>2. CASE AnswersInVain
  <2>1. AddsPlain(evts, Append(evts, It("Answer", 0))) /\ "ended" \in Gone
    BY AppendsPlain, KindsAre
  <2> QED
    BY <1>2, <2>1, EndsTalk DEF AnswersInVain, SameOwner, own
<1>3. CASE AcceptsAnswer
  BY <1>3, TakenTalk DEF AcceptsAnswer, Takes, Goes, AddsPlain, evtVars, own, lib, fwd, rear
<1> QED
  BY <1>1, <1>2, <1>3, IgnoresTalk, ErrsTalk DEF TakesDescription

LEMMA TaskTalk ==
  ASSUME TypeInv, TalkInv, TaskStep
  PROVE  TalkInv'
<1>0. "ended" \in Gone /\ "stillborn" \in Gone
  BY KindsAre
<1>1. CASE SetsUp
  <2>1. RegisteredFirst(<< [to |-> "manager", kind |-> "Reg", n |-> 0] >>)
    <3> DEFINE q == << [to |-> "manager", kind |-> "Reg", n |-> 0] >>
    <3>1. 1 \in 1..Len(q) /\ q[1].kind = "Reg" /\ q[1].to = "manager"
          /\ \A i \in 1..Len(q) : ~(i < 1)
      OBVIOUS
    <3> HIDE DEF q
    <3>2. RegisteredFirst(q)
      BY <3>1 DEF RegisteredFirst
    <3> QED
      BY <3>2 DEF q
  <2>2. PlaceInv'
    <3>1. /\ task = "setup" /\ task' = "loop" /\ backend' = backend /\ polite' = polite
          /\ chan' = IF polite THEN "none" ELSE "connecting"
          /\ announced' = announced /\ arrived' = arrived /\ arrived = 0 /\ ~announced
          /\ dataTask' = (backend = "go" /\ ~polite)
          /\ mgr' = IF backend = "go" /\ ~polite
                      THEN << [to |-> "manager", kind |-> "Reg", n |-> 0] >> ELSE << >>
      BY <1>1 DEF SetsUp, kind, TalkInv, PlaceInv
    <3> QED
      BY <2>1, <3>1, KindsAre, PlaceAfter
  <2> QED
    BY <1>1, <2>2, SetsUpKeeps DEF TalkInv
<1>2. CASE SetupFails
  BY <1>0, <1>2, EndsPlainTalk DEF SetupFails
<1>3. CASE TakesIce
  BY <1>3, IgnoresTalk, ErrsTalk DEF TakesIce
<1>4. CASE TakesDataChan
  BY <1>4, TakenTalk DEF TakesDataChan, Takes, AddsPlain, evtVars, own, lib, rear
<1>5. CASE RefusesDataChan
  BY <1>5, IgnoresTalk, ErrsTalk DEF RefusesDataChan
<1>6. CASE Buffers
  <2>1. PlaceInv'
    <3>1. /\ task' = "sent" /\ task = "loop" /\ cmds' = cmds /\ Head(cmds).kind = "Send"
          /\ backend' = backend /\ polite' = polite /\ chan' = chan /\ announced' = announced
          /\ arrived' = arrived /\ mgr' = mgr /\ reg' = reg /\ dataTask' = dataTask
      BY <1>6 DEF Buffers, Takes, kind, cmdVars, fwd
    <3> QED
      BY <3>1, KindsAre, PlaceAfter DEF TalkInv, PlaceInv, HasLib
  <2>2. StreamInv'
    BY <1>6, StillKeeps DEF Buffers, TalkInv, Still, NoOpening, front, rear,
                            cmdVars, evtVars, own, fwd
  <2> QED
    BY <2>1, <2>2 DEF TalkInv
<1>7. CASE ReadsAmount
  <2>1. cmds # << >> /\ Head(cmds).kind = "Send"
    BY <1>7 DEF ReadsAmount, TypeInv, CmdsOK, TalkInv, PlaceInv
  <2> QED
    BY <1>7, <2>1, TakenTalk DEF ReadsAmount, AddsPlain, evtVars, own, lib, fwd, rear
<1>8. CASE TakesLow
  BY <1>8, TakenTalk DEF TakesLow, Takes, AddsPlain, evtVars, own, lib, fwd, rear
<1>9. CASE TakesClose
  <2> DEFINE es == IF EvtFits THEN Append(evts, It("Closed", 0)) ELSE evts
  <2>1. AddsPlain(evts, es)
    BY AppendsPlain DEF AddsPlain
  <2>2. EndsSaying("ended", es) /\ SameOwner /\ UNCHANGED << kind, lib >>
    BY <1>9 DEF TakesClose, SameOwner, own
  <2> HIDE DEF es
  <2> QED
    BY <1>0, <2>1, <2>2, EndsTalk
<1>10. CASE RunsDry
  BY <1>0, <1>10, EndsPlainTalk DEF RunsDry
<1> QED
  BY <1>1, <1>2, <1>3, <1>4, <1>5, <1>6, <1>7, <1>8, <1>9, <1>10,
     DescriptionTalk, TellsTalk, ErrsTalk
  DEF TaskStep, SendFails

-----------------------------------------------------------------------------
LEMMA FirstExtended ==
  ASSUME NEW q, NEW r, NEW x, Extended(q, r, x), RegisteredFirst(q)
  PROVE  RegisteredFirst(r)
<1>1. PICK j \in 1..Len(q) :
        q[j].kind = "Reg" /\ \A i \in 1..Len(q) : i < j => q[i].to # "data"
  BY DEF RegisteredFirst
<1>2. j \in 1..Len(r) /\ r[j] = q[j]
  BY ExtendedPlaces
<1>3. ASSUME NEW i \in 1..Len(r), i < j PROVE r[i].to # "data"
  <2>1. i \in 1..Len(q) /\ r[i] = q[i]
    BY <1>3, ExtendedPlaces
  <2> QED
    BY <1>1, <1>3, <2>1
<1> QED
  BY <1>1, <1>2, <1>3 DEF RegisteredFirst

LEMMA FirstShortened ==
  ASSUME NEW q, NEW r, Shortened(q, r), RegisteredFirst(q), Head(q).kind # "Reg"
  PROVE  RegisteredFirst(r)
<1>1. PICK j \in 1..Len(q) :
        q[j].kind = "Reg" /\ \A i \in 1..Len(q) : i < j => q[i].to # "data"
  BY DEF RegisteredFirst
<1>2. j # 1
  BY <1>1, ShortenedPlaces
<1>3. j - 1 \in 1..Len(r) /\ r[j - 1] = q[j]
  BY <1>2, ShortenedPlaces
<1>4. ASSUME NEW i \in 1..Len(r), i < j - 1 PROVE r[i].to # "data"
  <2>1. i + 1 \in 1..Len(q) /\ r[i] = q[i + 1] /\ i \in Nat
    BY ShortenedPlaces
  <2>2. i + 1 < j
    BY <1>4, <2>1
  <2> QED
    BY <1>1, <2>1, <2>2
<1> QED
  BY <1>1, <1>3, <1>4 DEF RegisteredFirst

LibRest == << kind, task, seen, evts, dataQ, reg, dataTask >>

(* What the library says is pushed, or queued for the manager.             *)
LEMMA EmitsWhat ==
  ASSUME TypeInv, NEW to \in {"peer", "data"}, NEW k \in CmdKind, NEW n \in Nat,
         Emits(to, k, n)
  PROVE  /\ backend = "go" => /\ \E x : Extended(mgr, mgr', x) /\ x.kind = k /\ x.n = n
                              /\ UNCHANGED << cmds, cmdOpen >>
         /\ backend # "go" => /\ \E x : Queues(x) /\ x.kind = k /\ x.n = n
                              /\ ~cmdOpen' => cmds' = cmds
                              /\ mgr' = mgr
         /\ task = "sent" => Head(cmds') = Head(cmds)
<1>1. CASE backend = "go"
  <2> DEFINE x == [to |-> to, kind |-> k, n |-> n]
  <2>1. mgr' = Append(mgr, x) /\ UNCHANGED << cmds, cmdOpen >>
    BY <1>1 DEF Emits, cmdVars
  <2>2. mgr \in Seq(MgrItem)
    BY DEF TypeInv, MgrOK, Addressable
  <2>3. x \in MgrItem /\ x.kind = k /\ x.n = n
    BY DEF MgrItem, MgrKind
  <2> HIDE DEF x
  <2>4. Extended(mgr, mgr', x)
    BY <2>1, <2>2, <2>3, AppendExtends
  <2> QED
    BY <1>1, <2>1, <2>3, <2>4
<1>2. CASE backend # "go"
  <2>1. It(k, n) \in Item(CmdKind) /\ It(k, n).kind = k /\ It(k, n).n = n
    BY ItType
  <2> QED
    BY <1>2, <2>1, PushesWhat DEF Emits
<1> QED
  BY <1>1, <1>2

LEMMA EmitsPlace ==
  ASSUME TypeInv, TalkInv, NEW to \in {"peer", "data"}, NEW k \in CmdKind, NEW n \in Nat,
         Emits(to, k, n), HasLib, UNCHANGED LibRest,
         polite /\ ~announced' => chan' = "none",
         chan' \in {"none", "connecting"} => arrived' = 0
  PROVE  PlaceInv'
<1>1. /\ task' = task /\ task \in {"loop", "sent"} /\ backend' = backend /\ polite' = polite
      /\ reg' = reg /\ dataTask' = dataTask
  BY DEF HasLib, LibRest, kind
<1>2. backend = "go" /\ RegisteredFirst(mgr) => RegisteredFirst(mgr')
  BY EmitsWhat, FirstExtended
<1>3. backend # "go" => mgr' = mgr
  BY EmitsWhat
<1>4. task' = "sent" => Head(cmds').kind = "Send"
  BY <1>1, EmitsWhat DEF TalkInv, PlaceInv
<1> QED
  BY <1>1, <1>2, <1>3, <1>4, KindsAre, PlaceAfter DEF TalkInv, PlaceInv, HasLib

(* A callback that is neither a message nor the opening.                   *)
LEMMA EmitsPlainTalk ==
  ASSUME TypeInv, TalkInv, NEW to \in {"peer", "data"},
         NEW k \in CmdKind \ {"Message", "Open"}, Emits(to, k, 0), HasLib,
         UNCHANGED << LibRest, arrived >>, NoOpening,
         polite /\ ~announced' => chan' = "none",
         chan' \in {"none", "connecting"} => arrived' = 0
  PROVE  TalkInv'
<1>1. PlaceInv'
  BY EmitsPlace
<1>2. k \notin {"Message", "Open", "Ready", "Reg", "Look"}
  BY KindsAre
<1>3. CASE backend = "go"
  <2>1. \E x : Extended(mgr, mgr', x) /\ Plain(x)
    BY <1>2, <1>3, EmitsWhat DEF Plain
  <2>2. UNCHANGED << cmds, cmdOpen >>
    BY <1>3, EmitsWhat
  <2> QED
    BY <1>1, <1>3, <2>1, <2>2, EmittingKeeps DEF TalkInv, Emitting, LibRest, front
<1>4. CASE backend # "go"
  <2>1. (\E x : Queues(x) /\ Plain(x)) /\ mgr' = mgr
    BY <1>2, <1>4, EmitsWhat DEF Plain
  <2> QED
    BY <1>1, <2>1, PushingKeeps DEF TalkInv, Pushing, LibRest, rear
<1> QED
  BY <1>3, <1>4

LEMMA LibTalk ==
  ASSUME TypeInv, TalkInv, LibStep \/ Describes \/ Drains
  PROVE  TalkInv'
<1>0. /\ HasLib /\ UNCHANGED LibRest /\ UNCHANGED << peerQ, peerTask >>
      /\ polite /\ ~announced => chan = "none"
      /\ chan \in {"none", "connecting"} => arrived = 0
  BY DEF LibStep, Describes, Drains, FindsIce, Announces, ChanOpens, MessageArrives,
         ChanCloses, ConnectionLost, LibUp, Rest, LibRest, evtVars, own, fwd, TalkInv, PlaceInv
<1>1. CASE Describes
  <2>1. desc \in {"Offer", "Answer"}
    BY <1>1 DEF Describes, TypeInv, LibOK
  <2>2. It(desc, 0) \in Item(CmdKind) /\ Plain(It(desc, 0))
    BY <2>1, ItType, KindsAre DEF Plain
  <2> QED
    BY <1>0, <1>1, <2>2, PushesKeeps DEF Describes, LibRest, rear
<1>2. CASE FindsIce
  BY <1>0, <1>2, EmitsPlainTalk, KindsAre DEF FindsIce, NoOpening
<1>3. CASE Announces
  BY <1>0, <1>3, EmitsPlainTalk, KindsAre DEF Announces, NoOpening
<1>4. CASE ChanOpens
  <2>1. Emits("data", "Open", 0) /\ "Open" \in CmdKind
    BY <1>4, KindsAre DEF ChanOpens
  <2>2. PlaceInv'
    BY <1>0, <1>4, <2>1, EmitsPlace DEF ChanOpens
  <2>3. CASE backend = "go"
    <3>1. (\E x : Extended(mgr, mgr', x) /\ x.kind = "Open") /\ UNCHANGED << cmds, cmdOpen >>
      BY <2>1, <2>3, EmitsWhat
    <3> QED
      BY <1>0, <1>4, <2>2, <2>3, <3>1, EmittingKeeps
      DEF TalkInv, EmittingOpen, ChanOpens, LibRest, front
  <2>4. CASE backend # "go"
    <3>1. (\E x : Queues(x) /\ x.kind = "Open") /\ mgr' = mgr
      BY <2>1, <2>4, EmitsWhat
    <3> QED
      BY <1>0, <1>4, <2>2, <2>4, <3>1, PushingKeeps
      DEF TalkInv, PushingOpen, ChanOpens, LibRest, rear
  <2> QED
    BY <2>3, <2>4
<1>5. CASE MessageArrives
  <2>1. /\ Emits("data", "Message", arrived + 1) /\ "Message" \in CmdKind
        /\ arrived + 1 \in Nat /\ arrived' = arrived + 1 /\ chan = "open" /\ chan' = chan
        /\ announced' = announced
    BY <1>5, KindsAre, WebrtcAssumption DEF MessageArrives, TypeInv, LibOK
  <2>2. PlaceInv'
    BY <1>0, <2>1, EmitsPlace
  <2>3. CASE backend = "go"
    <3>1. /\ \E x : Extended(mgr, mgr', x) /\ x.kind = "Message" /\ x.n = arrived + 1
          /\ UNCHANGED << cmds, cmdOpen >>
      BY <2>1, <2>3, EmitsWhat
    <3> QED
      BY <1>0, <2>1, <2>2, <2>3, <3>1, EmittingKeeps
      DEF TalkInv, EmittingMessage, LibRest, front
  <2>4. CASE backend # "go"
    <3>1. /\ \E x : Queues(x) /\ x.kind = "Message" /\ x.n = arrived + 1
          /\ ~cmdOpen' => cmds' = cmds
          /\ mgr' = mgr
      BY <2>1, <2>4, EmitsWhat
    <3> QED
      BY <1>0, <2>1, <2>2, <2>4, <3>1, PushingMessageKeeps
      DEF TalkInv, PushingMessage, LibRest
  <2> QED
    BY <2>3, <2>4
<1>6. CASE Drains
  <2>1. CASE amount = SendBuffer + 1
    BY <1>0, <1>6, <2>1, EmitsPlainTalk, KindsAre DEF Drains, NoOpening
  <2>2. CASE amount # SendBuffer + 1
    <3>1. UNCHANGED << cmds, cmdOpen, mgr, chan, announced, arrived >>
      BY <1>6, <2>2 DEF Drains, cmdVars
    <3>2. PlaceInv'
      BY <1>0, <3>1, PlaceKept DEF TalkInv, LibRest
    <3> QED
      BY <1>0, <3>1, <3>2, StillKeeps DEF TalkInv, Still, NoOpening, LibRest, front, rear
  <2> QED
    BY <2>1, <2>2
<1>7. CASE ChanCloses
  BY <1>0, <1>7, EmitsPlainTalk, KindsAre DEF ChanCloses, NoOpening
<1>8. CASE ConnectionLost
  BY <1>0, <1>8, EmitsPlainTalk, KindsAre DEF ConnectionLost, NoOpening
<1> QED
  BY <1>1, <1>2, <1>3, <1>4, <1>5, <1>6, <1>7, <1>8 DEF LibStep

LEMMA ManagerTalk ==
  ASSUME TypeInv, TalkInv, ManagerStep
  PROVE  TalkInv'
<1>1. /\ UNCHANGED << kind, task, evts, cmds, chan, announced, arrived, dataTask >>
      /\ mgr # << >>
  BY DEF ManagerStep, MakesChannel, Looks, Registers, Delivers, IsFirst, ManagerRest,
         cmdVars, evtVars, lib
<1>2. backend = "go" /\ HasLib
  BY <1>1 DEF TalkInv, PlaceInv, TypeInv, TaskOK, HasLib
<1>3. mgr \in Seq(Addressable) /\ (mgr' = Tail(mgr) => Shortened(mgr, mgr'))
  BY <1>1, TailShortens DEF TypeInv, MgrOK
<1>4. Head(mgr) \in MgrItem /\ Addressed(Head(mgr))
  <2>1. Head(mgr) \in Addressable
    BY <1>1, <1>3
  <2> QED
    BY <2>1 DEF Addressable
<1>5. ~polite /\ ~reg => RegisteredFirst(mgr)
  BY <1>2 DEF TalkInv, PlaceInv
<1>6. ASSUME ~polite, ~reg' PROVE RegisteredFirst(mgr')
  <2>1. CASE MakesChannel
    <3>1. reg' = reg
      BY <2>1 DEF MakesChannel
    <3>2. PICK j \in 1..Len(mgr) :
            mgr[j].kind = "Reg" /\ \A i \in 1..Len(mgr) : i < j => mgr[i].to # "data"
      BY <1>5, <1>6, <3>1 DEF RegisteredFirst
    <3>3. j \in 1..Len(mgr') /\ mgr'[j].kind = "Reg"
      BY <2>1, <3>2, MakesQueue
    <3>4. ASSUME NEW i \in 1..Len(mgr'), i < j PROVE mgr'[i].to # "data"
      <4>1. i \in 1..Len(mgr)
        BY <2>1, <3>2, <3>4, MakesQueue
      <4>2. CASE i = 1
        BY <2>1, <4>2, MakesQueue
      <4>3. CASE i # 1
        BY <2>1, <3>2, <3>4, <4>1, <4>3, MakesQueue
      <4> QED
        BY <4>2, <4>3
    <3> QED
      BY <3>3, <3>4 DEF RegisteredFirst
  <2>2. CASE Looks
    BY <1>3, <1>5, <1>6, <2>2, FirstShortened DEF Looks, IsFirst
  <2>3. CASE Registers
    BY <1>6, <2>3 DEF Registers
  <2>4. CASE Delivers
    <3>1. Head(mgr).kind # "Reg"
      BY <1>4, <2>4, KindsAre DEF Delivers, Addressed
    <3> QED
      BY <1>3, <1>5, <1>6, <2>4, <3>1, FirstShortened DEF Delivers
  <2> QED
    BY <2>1, <2>2, <2>3, <2>4 DEF ManagerStep
<1>7. PlaceInv'
  <2>1. task \in {"loop", "sent"} /\ task' = task /\ backend' = backend /\ polite' = polite
    BY <1>1, <1>2 DEF HasLib, kind
  <2> QED
    BY <1>1, <1>2, <1>6, <2>1, KindsAre, PlaceAfter DEF TalkInv, PlaceInv
<1> QED
  BY <1>2, <1>7, MakesChannelKeeps, LooksKeeps, RegistersKeeps, DeliversKeeps
  DEF TalkInv, ManagerStep

LEMMA ForwardTalk ==
  ASSUME TypeInv, TalkInv, PeerForwards \/ DataForwards
  PROVE  TalkInv'
<1>0. cmds \in CmdSeq /\ (task = "sent" => cmds # << >>)
  BY DEF TypeInv, CmdsOK
<1>1. CASE PeerForwards
  <2> DEFINE x == Head(peerQ)
  <2>1. x \in Item(PeerCmd) /\ x.kind \in PeerCmd
    BY <1>1, HeadType DEF PeerForwards, TypeInv, FwdOK
  <2>2. x \in Item(CmdKind) /\ Plain(x)
    BY <2>1, KindsAre DEF Item, Plain
  <2>3. Extended(cmds, Append(cmds, x), x)
    BY <1>0, <2>2, AppendExtends DEF CmdSeq
  <2>4. /\ cmds' = IF CmdFits THEN Append(cmds, x) ELSE cmds
        /\ cmdOpen' => CmdFits
    BY <1>1 DEF PeerForwards
  <2>5. cmds # << >> => Head(Append(cmds, x)) = Head(cmds)
    BY <1>0, <2>2 DEF CmdSeq
  <2> HIDE DEF x
  <2>6. Queues(x) /\ (task = "sent" => Head(cmds') = Head(cmds))
    BY <1>0, <2>3, <2>4, <2>5 DEF Queues, CmdFits
  <2>7. /\ UNCHANGED << kind, task, seen, evts, rear, chan, announced, dataTask >>
    BY <1>1 DEF PeerForwards, kind, evtVars, own, lib, rear
  <2>8. PlaceInv'
    BY <2>6, <2>7, PlaceKept DEF TalkInv, rear
  <2>9. StreamInv'
    BY <2>2, <2>6, <2>7, PushingKeeps DEF TalkInv, Pushing, NoOpening
  <2> QED
    BY <2>8, <2>9 DEF TalkInv
<1>2. CASE DataForwards
  <2>1. UNCHANGED << kind, task, evts, chan, announced, arrived, mgr, reg >> /\ dataTask
    BY <1>2 DEF DataForwards, kind, evtVars, lib
  <2>2. task = "sent" => Head(cmds') = Head(cmds)
    <3>1. Head(dataQ) \in Item(CmdKind)
      <4>1. Head(dataQ) \in Item(DataCmd)
        BY <1>2, HeadType DEF DataForwards, TypeInv, FwdOK
      <4> QED
        BY <4>1 DEF CmdKind, Item
    <3> QED
      BY <1>2, <3>1, PushesWhat DEF DataForwards
  <2>3. PlaceInv'
    BY <2>1, <2>2, PlaceKept DEF TalkInv
  <2> QED
    BY <1>2, <2>3, DataForwardsKeeps DEF TalkInv
<1> QED
  BY <1>1, <1>2

LEMMA TalkInvInit == Init => TalkInv
<1> SUFFICES ASSUME Init PROVE TalkInv
  OBVIOUS
<1>1. NoMsg(<< >>) /\ \A K : After(<< >>, K)
  BY DEF NoMsg, After
<1>2. Run(<< >>, 0, 0)
  BY <1>1, RunOfNone
<1>3. /\ Heard(0) /\ Flows(0)
      /\ evts = << >> /\ cmds = << >> /\ dataQ = << >> /\ mgr = << >>
  BY <1>2 DEF Init, Heard, Flows
<1>4. Numbered
  BY <1>2, <1>3 DEF Numbered
<1>5. Unheard
  BY <1>1 DEF Init, Unheard
<1>6. Ordered
  <2>1. Kept(mgr, reg, chan = "open")
    BY <1>1, <1>3 DEF Init, Kept, NoMsg
  <2> QED
    BY <1>1, <1>3, <2>1 DEF Init, Ordered
<1>7. PlaceInv
  BY KindsAre DEF Init, PlaceInv, HasLib
<1> QED
  BY <1>4, <1>5, <1>6, <1>7 DEF TalkInv, StreamInv

LEMMA TalkInvNext == TypeInv /\ TalkInv /\ [Next]_vars => TalkInv'
<1> SUFFICES ASSUME TypeInv, TalkInv, [Next]_vars PROVE TalkInv'
  OBVIOUS
<1>1. CASE UNCHANGED vars
  <2>1. Still /\ UNCHANGED << kind, task, chan, announced, arrived, mgr, reg, cmds, evts, dataTask >>
    BY <1>1 DEF vars, cmdVars, evtVars, own, lib, fwd, Still, front, rear, NoOpening
  <2>2. PlaceInv'
    BY <2>1, PlaceKept DEF TalkInv
  <2> QED
    BY <2>1, <2>2, StillKeeps DEF TalkInv
<1> QED
  BY <1>1, OwnerTalk, TaskTalk, LibTalk, ManagerTalk, ForwardTalk DEF Next

(* Only the owner's receiving changes what it has received.                *)
LEMMA SeenChanges ==
  ASSUME TypeInv, Next, seen'.last # seen.last
  PROVE  Receives
<1>1. CASE OwnerStep
  <2>1. Drops => seen'.last = seen.last
    BY DEF Drops, TypeInv, OwnOK, Seen
  <2> QED
    BY <1>1, <2>1 DEF OwnerStep, Gives, Message, own
<1>2. CASE TaskStep
  <2>1. UNCHANGED own
    BY <1>2 DEF TaskStep, SetsUp, SetupFails, TakesDescription, AcceptsOffer, AcceptsAnswer,
                AnswersInVain, Ignores, Errs, TakesIce, TakesDataChan, RefusesDataChan, Buffers,
                SendFails, ReadsAmount, TakesLow, Forwards, Tells, TakesClose, RunsDry
  <2> QED
    BY <2>1 DEF own
<1>3. CASE LibStep \/ Describes \/ Drains
  BY <1>3 DEF LibStep, Describes, Drains, FindsIce, Announces, ChanOpens, MessageArrives,
              ChanCloses, ConnectionLost, Rest, own
<1>4. CASE ManagerStep \/ PeerForwards \/ DataForwards
  BY <1>4 DEF ManagerStep, MakesChannel, Looks, Registers, Delivers, ManagerRest,
              PeerForwards, DataForwards, own
<1> QED
  BY <1>1, <1>2, <1>3, <1>4 DEF Next

(* The owner receives the messages of the channel one after the other and  *)
(* none before Ready, however the library's callbacks, the manager's look  *)
(* at an accepted channel and its registration, the forwarding tasks and   *)
(* channels that close for want of room fall together.  Only an accepted   *)
(* channel of pion may lose its first messages.                            *)
THEOREM MessagesComeWithoutGap == Spec => MessagesWithoutGap
<1>1. TypeInv /\ TalkInv /\ [Next]_vars =>
        [seen'.last # seen.last =>
           /\ seen.ready
           /\ \/ seen'.last = seen.last + 1
              \/ seen.last = 0 /\ backend = "go" /\ polite]_seen
  <2> SUFFICES ASSUME TypeInv, TalkInv, [Next]_vars, seen' # seen, seen'.last # seen.last
               PROVE  /\ seen.ready
                      /\ \/ seen'.last = seen.last + 1
                         \/ seen.last = 0 /\ backend = "go" /\ polite
    OBVIOUS
  <2>1. Receives
    BY SeenChanges DEF vars, own
  <2>2. Head(evts).kind = "Message" /\ seen'.last = Head(evts).n
    BY <2>1 DEF Receives, TypeInv, OwnOK, Seen
  <2>3. /\ seen.ready
        /\ \E l, a \in Nat : Heard(l) /\ Head(evts).n = l + 1 /\ Run(evts, l, a)
    BY <2>1, <2>2, ReceivedNext DEF TalkInv
  <2> QED
    BY <2>2, <2>3 DEF Heard, Accepting
<1> QED
  BY <1>1, TypeInvHolds, TalkInvInit, TalkInvNext, PTL DEF Spec, MessagesWithoutGap
=============================================================================
