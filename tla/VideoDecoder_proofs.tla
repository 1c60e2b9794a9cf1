------------------------- MODULE VideoDecoder_proofs -------------------------
(***************************************************************************)
(* Theorems about VideoDecoder, for all parameter sets, sizes and          *)
(* addresses and any number of devices.                                    *)
(***************************************************************************)
EXTENDS VideoDecoder, TLAPS

Hardware == [enabled : BOOLEAN, format : {"none", "d3d11", "yuv420p"},
             device : 0..MaxDevices]
Codecs == [open : BOOLEAN, device : 0..MaxDevices, callback : BOOLEAN]
Resources == [shaders : 0..MaxDevices, chain : 0..MaxDevices,
              view : 0..MaxDevices, size : Sizes \cup {0},
              texture : 0..MaxDevices, textureSize : Sizes \cup {0}]
Sources == [address : Addresses \cup {0}, size : Sizes \cup {0}]

(* What a frame is.                                                        *)
LEMMA FrameFacts ==
  ASSUME NEW f \in Frames
  PROVE  /\ f # NoFrame
         /\ f.format \in SoftwareFormats \cup {"d3d11"} /\ f.size \in Sizes
         /\ f.device \in 0..MaxDevices
         /\ ParametersOf(f) \in Parameters /\ ParametersOf(f) # None
         /\ ParametersOf(f).format = f.format
<1>1. /\ f.format \in SoftwareFormats \cup {"d3d11"} /\ f.size \in Sizes
      /\ f.device \in 0..MaxDevices
  BY DecoderAssumption DEF Frames
<1>2. f # NoFrame
  BY <1>1 DEF NoFrame, SoftwareFormats
<1>3. ParametersOf(f) \in Parameters /\ ParametersOf(f).format = f.format
  BY <1>1 DEF ParametersOf, Parameters
<1>4. ParametersOf(f) # None
  BY <1>1 DEF ParametersOf, None, SoftwareFormats
<1> QED
  BY <1>1, <1>2, <1>3, <1>4

LEMMA InMemoryIsAFrame ==
  ASSUME NEW f \in SoftwareFormats, NEW s \in Sizes
  PROVE  InMemory(f, s) \in Frames /\ InMemory(f, s).format = f
BY DEF InMemory, Frames

LEMMA ReceivedFacts ==
  ASSUME codec \in Codecs, NEW f \in Received
  PROVE  /\ f \in Frames
         /\ f.format = "d3d11" => /\ codec.device # 0 /\ f.device = codec.device
                                  /\ ~(codec.callback /\ ~hw.enabled)
<1>1. CASE f \in { InMemory(g, s) : g \in SoftwareFormats, s \in Sizes }
  <2>1. PICK g \in SoftwareFormats, s \in Sizes : f = InMemory(g, s)
    BY <1>1
  <2> QED
    BY <2>1, InMemoryIsAFrame DEF SoftwareFormats
<1>2. CASE /\ "d3d11" \in Formats
           /\ f \in { Surface(s, a) : s \in Sizes, a \in Addresses }
  <2>1. PICK s \in Sizes, a \in Addresses : f = Surface(s, a)
    BY <1>2
  <2>2. codec.device # 0 /\ ~(codec.callback /\ ~hw.enabled)
    BY <1>2 DEF Formats, SoftwareFormats
  <2>3. codec.device \in 1..MaxDevices
    BY <2>2, DecoderAssumption DEF Codecs
  <2> QED
    BY <2>1, <2>2, <2>3 DEF Surface, Frames
<1> QED
  BY <1>1, <1>2 DEF Received

(* Opening a decoder.                                                      *)
LEMMA OpenDecoderTypes ==
  ASSUME TypeOK, NEW p \in BOOLEAN, NEW before \in Hardware,
         OpenDecoder(p, before)
  PROVE  /\ hw' \in Hardware /\ codec' \in Codecs
         /\ devices' \in 0..MaxDevices /\ replaced' \in BOOLEAN
<1>0. devices \in 0..MaxDevices /\ MaxDevices \in Nat /\ replaced \in BOOLEAN
  BY DecoderAssumption DEF TypeOK
<1>1. CASE OpenHardware
  <2>1. devices' \in 0..MaxDevices
    BY <1>0, <1>1 DEF OpenHardware
  <2>2. hw' \in Hardware
    BY <1>1, <2>1 DEF OpenHardware, On, Hardware
  <2>3. codec' \in Codecs
    BY <1>1, <2>1 DEF OpenHardware, Codecs
  <2>4. replaced' \in BOOLEAN
    BY <1>1 DEF OpenHardware
  <2> QED
    BY <2>1, <2>2, <2>3, <2>4
<1>2. CASE OpenSoftware /\ hw' = IF p THEN Off ELSE before
  <2>1. codec' \in Codecs
    BY <1>0, <1>2 DEF OpenSoftware, Codecs
  <2>2. hw' \in Hardware
    BY <1>0, <1>2 DEF Off, Hardware
  <2> QED
    BY <1>0, <1>2, <2>1, <2>2 DEF OpenSoftware
<1> QED
  BY <1>1, <1>2 DEF OpenDecoder

-----------------------------------------------------------------------------
(* Types. *)

Pcs == {"none", "idle", "decode", "scale", "shaders", "chain", "texture",
        "draw", "drop"}

\* The types of the native context, of the managed decoder and of the rest.
NativeTypes ==
  hw \in Hardware /\ codec \in Codecs /\ active \in Frames \cup {NoFrame}
ManagedTypes ==
  /\ extraData \in Params \cup {0} /\ reported \in BOOLEAN
  /\ frame \in Parameters /\ scaler \in Parameters
GpuTypes == resources \in Resources /\ source \in Sources /\ window \in Sizes
ControlTypes ==
  pc \in Pcs /\ toGpu \in BOOLEAN /\ prefer \in BOOLEAN /\ target \in BOOLEAN
HistoryTypes ==
  /\ devices \in 0..MaxDevices
  /\ replaced \in BOOLEAN /\ reused \in BOOLEAN /\ refused \in BOOLEAN

LEMMA TypeParts ==
  TypeOK <=> /\ NativeTypes /\ ManagedTypes /\ GpuTypes
             /\ ControlTypes /\ HistoryTypes
BY DEF TypeOK, NativeTypes, ManagedTypes, GpuTypes, ControlTypes, HistoryTypes,
       Hardware, Codecs, Resources, Sources, Pcs

LEMMA TypePartsNext ==
  ASSUME NativeTypes', ManagedTypes', GpuTypes', ControlTypes', HistoryTypes'
  PROVE  TypeOK'
BY DEF TypeOK, NativeTypes, ManagedTypes, GpuTypes, ControlTypes, HistoryTypes,
       Hardware, Codecs, Resources, Sources, Pcs

LEMMA TypeInit == Init => TypeOK
<1> SUFFICES ASSUME Init PROVE TypeOK
  OBVIOUS
<1>0. MaxDevices \in Nat
  BY DecoderAssumption
<1>1. NativeTypes
  BY <1>0 DEF Init, NativeTypes, Off, Closed, Hardware, Codecs
<1>2. ManagedTypes
  BY DEF Init, ManagedTypes, Parameters
<1>3. GpuTypes
  BY <1>0 DEF Init, GpuTypes, Bare, NoSource, Resources, Sources
<1>4. /\ toGpu \in BOOLEAN /\ prefer \in BOOLEAN /\ target \in BOOLEAN
      /\ replaced \in BOOLEAN /\ reused \in BOOLEAN /\ refused \in BOOLEAN
  BY Zenon DEF Init
<1>5. ControlTypes /\ HistoryTypes
  BY <1>0, <1>4 DEF Init, ControlTypes, HistoryTypes, Pcs
<1> QED
  BY <1>1, <1>2, <1>3, <1>5, TypeParts

LEMMA CreateTypes ==
  ASSUME TypeOK, NEW p \in BOOLEAN, NEW t \in BOOLEAN, Create(p, t)
  PROVE  TypeOK'
<1>0. NativeTypes /\ ManagedTypes /\ GpuTypes /\ ControlTypes /\ HistoryTypes
  BY TypeParts
<1>1. Zeroed \in Hardware
  BY DecoderAssumption DEF Zeroed, Hardware
<1>2. hw' \in Hardware /\ codec' \in Codecs /\ devices' \in 0..MaxDevices
      /\ replaced' \in BOOLEAN
  BY <1>1, OpenDecoderTypes DEF Create
<1>3. NativeTypes'
  BY <1>0, <1>2 DEF Create, NativeTypes
<1>4. reported' \in BOOLEAN
  BY <1>2 DEF Create, Hardware
<1>5. ManagedTypes'
  BY <1>0, <1>4 DEF Create, ManagedTypes
<1>6. GpuTypes'
  BY <1>0 DEF Create, GpuTypes, gpu
<1>7. ControlTypes'
  BY <1>0 DEF Create, ControlTypes, Pcs
<1>8. HistoryTypes'
  BY <1>0, <1>2 DEF Create, HistoryTypes
<1> QED
  BY <1>3, <1>5, <1>6, <1>7, <1>8, TypePartsNext

LEMMA DisposeTypes ==
  ASSUME TypeOK, Dispose
  PROVE  TypeOK'
<1>0. NativeTypes /\ ManagedTypes /\ GpuTypes /\ ControlTypes /\ HistoryTypes
      /\ MaxDevices \in Nat
  BY TypeParts, DecoderAssumption
<1>1. NativeTypes'
  BY <1>0 DEF Dispose, NativeTypes, Off, Closed, Hardware, Codecs
<1>2. ManagedTypes'
  BY DEF Dispose, ManagedTypes, Parameters
<1>3. GpuTypes'
  BY <1>0 DEF Dispose, GpuTypes, Bare, NoSource, Resources, Sources
<1>4. ControlTypes' /\ HistoryTypes'
  BY <1>0 DEF Dispose, ControlTypes, HistoryTypes, Pcs
<1> QED
  BY <1>1, <1>2, <1>3, <1>4, TypePartsNext

LEMMA TryDecodeTypes ==
  ASSUME TypeOK, NEW g \in BOOLEAN, NEW p \in Params \cup {0}, TryDecode(g, p)
  PROVE  TypeOK'
<1>0. NativeTypes /\ ManagedTypes /\ GpuTypes /\ ControlTypes /\ HistoryTypes
      /\ MaxDevices \in Nat
  BY TypeParts, DecoderAssumption
<1>1. GpuTypes'
  BY <1>0 DEF TryDecode, GpuTypes, gpu
<1>2. /\ toGpu' \in BOOLEAN /\ prefer' \in BOOLEAN /\ target' \in BOOLEAN
      /\ reused' \in BOOLEAN
      /\ frame' \in Parameters /\ scaler' \in Parameters
      /\ active' \in Frames \cup {NoFrame}
  BY <1>0 DEF TryDecode, ControlTypes, HistoryTypes, ManagedTypes, NativeTypes
<1>3. /\ hw' \in Hardware /\ codec' \in Codecs /\ pc' \in Pcs
      /\ extraData' \in Params \cup {0}
      /\ reported' \in BOOLEAN /\ devices' \in 0..MaxDevices
      /\ replaced' \in BOOLEAN /\ refused' \in BOOLEAN
  <2>1. CASE p \in {0, extraData}
    BY <1>0, <2>1 DEF TryDecode, native, NativeTypes, ManagedTypes, HistoryTypes,
                     Pcs
  <2>2. CASE p \notin {0, extraData} /\ AcceptExtraData
    <3>1. Off \in Hardware
      BY <1>0 DEF Off, Hardware
    <3>2. /\ hw' \in Hardware /\ codec' \in Codecs
          /\ devices' \in 0..MaxDevices /\ replaced' \in BOOLEAN
      BY <1>0, <2>2, <3>1, OpenDecoderTypes DEF AcceptExtraData, ControlTypes
    <3>3. reported' \in BOOLEAN
      BY <2>2, <3>2 DEF AcceptExtraData, Hardware
    <3> QED
      BY <1>0, <2>2, <3>2, <3>3
         DEF TryDecode, AcceptExtraData, HistoryTypes, Pcs
  <2>3. CASE p \notin {0, extraData} /\ RefuseExtraData
    <3>1. hw' \in Hardware
      BY <1>0, <2>3 DEF RefuseExtraData, Off, Hardware
    <3>2. codec' \in Codecs
      BY <1>0, <2>3 DEF RefuseExtraData, NativeTypes, Codecs
    <3>3. pc' \in Pcs
      BY <2>3 DEF RefuseExtraData, AfterException, Pcs
    <3>4. refused' \in BOOLEAN
      BY <2>3 DEF RefuseExtraData
    <3> QED
      BY <1>0, <2>3, <3>1, <3>2, <3>3, <3>4
         DEF TryDecode, RefuseExtraData, HistoryTypes, ManagedTypes
  <2> QED
    BY <2>1, <2>2, <2>3 DEF TryDecode
<1> QED
  BY <1>1, <1>2, <1>3, TypePartsNext
     DEF NativeTypes, ManagedTypes, ControlTypes, HistoryTypes

\* The types of what a call to the decoder changes.
DecodeTypes ==
  /\ active \in Frames \cup {NoFrame} /\ hw \in Hardware /\ codec \in Codecs
  /\ frame \in Parameters /\ scaler \in Parameters
  /\ reported \in BOOLEAN /\ reused \in BOOLEAN
  /\ pc \in Pcs

LEMMA NotOfferedType == ASSUME hw \in Hardware, codec \in Codecs
                        PROVE  NotOffered \in Hardware
BY DEF NotOffered, Hardware, Codecs

LEMMA FailTypes ==
  ASSUME TypeOK, Fail
  PROVE  DecodeTypes'
<1>0. NativeTypes /\ ManagedTypes /\ HistoryTypes
  BY TypeParts
<1>1. hw' \in Hardware
  BY <1>0, NotOfferedType DEF Fail, NativeTypes
<1>2. reported' \in BOOLEAN
  BY <1>1 DEF Fail, Hardware
<1>3. pc' \in Pcs
  BY DEF Fail, AfterFailure, Pcs
<1> QED
  BY <1>0, <1>1, <1>2, <1>3
     DEF Fail, DecodeTypes, NativeTypes, ManagedTypes, HistoryTypes

LEMMA DeliverTypes ==
  ASSUME TypeOK, NEW f \in Frames, NEW next \in Pcs, Deliver(f, next)
  PROVE  /\ active' \in Frames \cup {NoFrame} /\ codec' \in Codecs
         /\ frame' \in Parameters /\ scaler' \in Parameters
         /\ reported' \in BOOLEAN /\ pc' \in Pcs
<1>0. NativeTypes /\ ManagedTypes
  BY TypeParts
<1>1. frame' \in Parameters
  BY FrameFacts DEF Deliver, UpdateFrameParameters
<1>2. scaler' \in Parameters
  BY <1>0 DEF Deliver, UpdateFrameParameters, ManagedTypes, Parameters
<1>3. pc' \in Pcs
  BY DEF Deliver, Pcs
<1> QED
  BY <1>0, <1>1, <1>2, <1>3 DEF Deliver, NativeTypes, ManagedTypes

LEMMA WithoutDevice ==
  ASSUME NEW c \in [open : BOOLEAN, device : {0}, callback : {FALSE}]
  PROVE  c \in Codecs /\ c.device = 0
<1>1. c.open \in BOOLEAN /\ c.device = 0 /\ c.callback = FALSE
  OBVIOUS
<1>2. 0 \in 0..MaxDevices /\ FALSE \in BOOLEAN
  BY DecoderAssumption
<1>3. c = [open |-> c.open, device |-> c.device, callback |-> c.callback]
  OBVIOUS
<1> QED
  BY <1>1, <1>2, <1>3 DEF Codecs

LEMMA TransferTypes ==
  ASSUME TypeOK, NEW f \in Frames, Transfer(f), UNCHANGED reused
  PROVE  DecodeTypes'
<1>0. NativeTypes /\ ManagedTypes /\ HistoryTypes /\ MaxDevices \in Nat
  BY TypeParts, DecoderAssumption
<1>1. CASE /\ f.format = "d3d11"
           /\ \E s \in SoftwareFormats : Deliver(InMemory(s, f.size), "scale")
           /\ UNCHANGED hw
  <2>1. PICK s \in SoftwareFormats : Deliver(InMemory(s, f.size), "scale")
    BY <1>1
  <2>2. InMemory(s, f.size) \in Frames
    BY FrameFacts, InMemoryIsAFrame
  <2>3. "scale" \in Pcs
    BY DEF Pcs
  <2> QED
    BY <1>0, <1>1, <2>1, <2>2, <2>3, DeliverTypes
       DEF DecodeTypes, NativeTypes, HistoryTypes
<1>2. CASE /\ active' = f /\ FallbackToSoftwareDecoder
           /\ reported' = FALSE /\ pc' = "idle" /\ UNCHANGED <<frame, scaler>>
  <2>1. hw' \in Hardware
    BY <1>0, <1>2 DEF FallbackToSoftwareDecoder, Off, Hardware
  <2>2. codec' \in Codecs
    BY <1>2, WithoutDevice DEF FallbackToSoftwareDecoder
  <2>3. reported' \in BOOLEAN
    BY <1>2, Zenon
  <2> QED
    BY <1>0, <1>2, <2>1, <2>2, <2>3
       DEF DecodeTypes, ManagedTypes, HistoryTypes, Pcs
<1> QED
  BY <1>1, <1>2 DEF Transfer

LEMMA DecodeFrameTypes ==
  ASSUME TypeOK, DecodeFrame
  PROVE  DecodeTypes'
<1>0. NativeTypes /\ HistoryTypes
  BY TypeParts
<1>1. CASE Fail
  BY <1>1, FailTypes
<1>2. ASSUME NEW f \in Received,
             IF f.format = hw.format THEN Transfer(f)
               ELSE Negotiate(f) /\ Deliver(f, "scale"),
             UNCHANGED reused
      PROVE  DecodeTypes'
  <2>1. f \in Frames
    BY <1>0, ReceivedFacts DEF NativeTypes
  <2>2. CASE f.format = hw.format
    BY <1>2, <2>1, <2>2, TransferTypes
  <2>3. CASE f.format # hw.format
    <3>1. Negotiate(f) /\ Deliver(f, "scale") /\ "scale" \in Pcs
      BY <1>2, <2>3 DEF Pcs
    <3>2. hw' \in Hardware
      BY <1>0, <3>1, NotOfferedType DEF Negotiate, NativeTypes
    <3> QED
      BY <1>0, <1>2, <2>1, <3>1, <3>2, DeliverTypes DEF DecodeTypes, HistoryTypes
  <2> QED
    BY <2>2, <2>3
<1> QED
  BY <1>1, <1>2 DEF DecodeFrame

LEMMA DecodeFrameToGpuTypes ==
  ASSUME TypeOK, DecodeFrameToGpu
  PROVE  DecodeTypes'
<1>0. NativeTypes /\ ManagedTypes /\ HistoryTypes
  BY TypeParts
<1>1. CASE NoHardware
  <2>1. reported' \in BOOLEAN
    BY <1>1, Zenon DEF NoHardware
  <2> QED
    BY <1>0, <1>1, <2>1 DEF NoHardware, native, DecodeTypes, NativeTypes,
                            ManagedTypes, HistoryTypes, Pcs
<1>2. CASE Fail
  BY <1>2, FailTypes
<1>3. ASSUME NEW f \in Received, Unusable(f)
      PROVE  DecodeTypes'
  <2>1. hw' \in Hardware
    BY <1>0, <1>3, NotOfferedType DEF Unusable, Negotiate, NativeTypes
  <2>2. reported' \in BOOLEAN
    BY <1>3, <2>1 DEF Unusable, Hardware
  <2> QED
    BY <1>0, <1>3, <2>1, <2>2 DEF Unusable, DecodeTypes, NativeTypes,
                                  ManagedTypes, HistoryTypes, Pcs
<1>4. ASSUME NEW f \in Received, Usable(f)
      PROVE  DecodeTypes'
  <2>1. f \in Frames /\ "shaders" \in Pcs
    BY <1>0, ReceivedFacts DEF NativeTypes, Pcs
  <2>2. reused' \in BOOLEAN
    BY <1>4 DEF Usable
  <2> QED
    BY <1>0, <1>4, <2>1, <2>2, DeliverTypes DEF Usable, DecodeTypes, NativeTypes
<1> QED
  BY <1>1, <1>2, <1>3, <1>4 DEF DecodeFrameToGpu

LEMMA DecodeTypesNext ==
  ASSUME TypeOK, DecodeFrame \/ DecodeFrameToGpu
  PROVE  TypeOK'
<1>0. GpuTypes /\ ControlTypes /\ ManagedTypes /\ HistoryTypes /\ DecodeTypes'
  BY TypeParts, DecodeFrameTypes, DecodeFrameToGpuTypes
<1>1. GpuTypes'
  BY <1>0 DEF DecodeFrame, DecodeFrameToGpu, GpuTypes, gpu
<1>2. NativeTypes' /\ ManagedTypes'
  BY <1>0 DEF DecodeFrame, DecodeFrameToGpu, DecodeTypes, NativeTypes, ManagedTypes
<1>3. ControlTypes' /\ HistoryTypes'
  BY <1>0 DEF DecodeFrame, DecodeFrameToGpu, DecodeTypes, ControlTypes, HistoryTypes
<1> QED
  BY <1>1, <1>2, <1>3, TypePartsNext

\* The steps of the scaler, of the renderer and of the window.
RenderStep ==
  \/ ScaleTo \/ EnsureRenderShaders \/ EnsureSwapChain \/ EnsureShaderTexture
  \/ Present \/ RenderFails \/ \E s \in Sizes : Resize(s)

LEMMA RenderTypes ==
  ASSUME TypeOK, RenderStep
  PROVE  TypeOK'
<1>0. NativeTypes /\ ManagedTypes /\ GpuTypes /\ ControlTypes /\ HistoryTypes
      /\ MaxDevices \in Nat
  BY TypeParts, DecoderAssumption
<1>1. NativeTypes' /\ HistoryTypes'
  BY <1>0 DEF RenderStep, ScaleTo, EnsureRenderShaders, EnsureSwapChain,
       EnsureShaderTexture, Present, RenderFails, Resize, Rendering, native,
       managed, history, NativeTypes, HistoryTypes
<1>2. ManagedTypes'
  BY <1>0 DEF RenderStep, ScaleTo, EnsureRenderShaders, EnsureSwapChain,
       EnsureShaderTexture, Present, RenderFails, Resize, Rendering, native,
       managed, history, ManagedTypes
<1>3. ControlTypes'
  BY <1>0 DEF RenderStep, ScaleTo, EnsureRenderShaders, EnsureSwapChain,
       EnsureShaderTexture, Present, RenderFails, Resize, Rendering, native,
       managed, history, ControlTypes, Pcs
<1>4. window' \in Sizes
  BY <1>0 DEF RenderStep, ScaleTo, EnsureRenderShaders, EnsureSwapChain,
       EnsureShaderTexture, Present, RenderFails, Resize, Rendering, GpuTypes
<1>5. hw.device \in 0..MaxDevices
  BY <1>0 DEF NativeTypes, Hardware
<1>6. source' \in Sources
  <2>1. CASE EnsureShaderTexture
    <3>1. [address |-> active.address, size |-> active.size] \in Sources
      BY <1>0 DEF NativeTypes, Frames, NoFrame, Sources
    <3> QED
      BY <1>0, <2>1, <3>1 DEF EnsureShaderTexture, GpuTypes
  <2> QED
    BY <1>0, <2>1 DEF RenderStep, ScaleTo, EnsureRenderShaders, EnsureSwapChain,
       Present, RenderFails, Resize, Rendering, gpu, GpuTypes
<1>7. resources' \in Resources
  <2>1. CASE EnsureRenderShaders
    BY <1>0, <1>5, <2>1 DEF EnsureRenderShaders, GpuTypes, Resources
  <2>2. CASE EnsureSwapChain
    BY <1>0, <1>5, <2>2 DEF EnsureSwapChain, GpuTypes, Resources
  <2>3. CASE EnsureShaderTexture
    <3>1. source'.size \in Sizes \cup {0}
      BY <1>6 DEF Sources
    <3> QED
      BY <1>0, <1>5, <2>3, <3>1 DEF EnsureShaderTexture, GpuTypes, Resources
  <2>4. CASE RenderFails
    BY <1>0, <2>4 DEF RenderFails, GpuTypes, Resources
  <2> QED
    BY <1>0, <2>1, <2>2, <2>3, <2>4
       DEF RenderStep, ScaleTo, Present, Resize, gpu, GpuTypes
<1> QED
  BY <1>1, <1>2, <1>3, <1>4, <1>6, <1>7, TypePartsNext DEF GpuTypes

LEMMA TypeNext ==
  ASSUME TypeOK, Next
  PROVE  TypeOK'
BY CreateTypes, DisposeTypes, TryDecodeTypes, DecodeTypesNext, RenderTypes
   DEF Next, RenderStep

(* Every variable keeps its type.                                          *)
THEOREM TypeCorrect == Spec => []TypeOK
<1>1. TypeOK /\ UNCHANGED vars => TypeOK'
  <2> SUFFICES ASSUME TypeOK, UNCHANGED vars PROVE TypeOK'
    OBVIOUS
  <2>1. NativeTypes /\ ManagedTypes /\ GpuTypes /\ ControlTypes /\ HistoryTypes
    BY TypeParts
  <2> QED
    BY <2>1, TypePartsNext DEF vars, native, gpu, managed, history, NativeTypes,
       ManagedTypes, GpuTypes, ControlTypes, HistoryTypes
<1> QED
  BY <1>1, TypeInit, TypeNext, PTL DEF Spec

-----------------------------------------------------------------------------
(* What is scaled and what is lost. *)

\* The scaler was made for the frame parameters that are current.
ScalerFits == scaler \in {None, frame}

\* The frame parameters are those of the frame in hand.
InHand == pc = "scale" => active # NoFrame /\ frame = ParametersOf(active)

\* A codec with a device decodes in the format of the context.
DeviceMeansFormat ==
  /\ codec.device # 0 => hw.format = "d3d11" \/ refused
  /\ pc = "scale" /\ active.format = "d3d11" => refused

\* Hardware is enabled on the device of the codec.
EnabledOnDevice ==
  hw.enabled => /\ hw.format = "d3d11" /\ hw.device # 0
                /\ hw.device = codec.device

\* A context that is not there has seen nothing.
NothingSeen == pc = "none" => extraData = 0 /\ frame = None

MInv ==
  /\ TypeOK /\ ScalerFits /\ InHand /\ DeviceMeansFormat /\ EnabledOnDevice
  /\ NothingSeen /\ OnlyTheFirstFrameIsLost

LEMMA OpenDecoderFacts ==
  ASSUME TypeOK, NEW p \in BOOLEAN, NEW before \in {Off, Zeroed},
         OpenDecoder(p, before)
  PROVE  /\ hw'.enabled => /\ hw'.format = "d3d11" /\ hw'.device # 0
                           /\ hw'.device = codec'.device
         /\ codec'.device # 0 => hw'.format = "d3d11"
         /\ hw'.format \in SoftwareFormats => ~p /\ before = Zeroed
<1>1. CASE OpenHardware
  <2>1. devices' # 0
    BY <1>1, DecoderAssumption DEF OpenHardware, TypeOK
  <2> QED
    BY <1>1, <2>1 DEF OpenHardware, On, SoftwareFormats
<1>2. CASE OpenSoftware /\ hw' = IF p THEN Off ELSE before
  BY <1>2 DEF OpenSoftware, Off, Zeroed, SoftwareFormats
<1> QED
  BY <1>1, <1>2 DEF OpenDecoder

\* What a step has to show besides the types.
MGoal == /\ ScalerFits' /\ InHand' /\ DeviceMeansFormat' /\ EnabledOnDevice'
         /\ NothingSeen' /\ OnlyTheFirstFrameIsLost'

LEMMA MInit == Init => MInv
<1> SUFFICES ASSUME Init PROVE MInv
  OBVIOUS
<1>1. OnlyTheFirstFrameIsLost
  BY DEF Init, Off, OnlyTheFirstFrameIsLost, SoftwareFormats
<1> QED
  BY <1>1, TypeInit DEF Init, Off, Closed, MInv, ScalerFits, InHand,
     DeviceMeansFormat, EnabledOnDevice, NothingSeen

LEMMA MCreate ==
  ASSUME MInv, NEW p \in BOOLEAN, NEW t \in BOOLEAN, Create(p, t)
  PROVE  MGoal
<1>1. /\ hw'.enabled => /\ hw'.format = "d3d11" /\ hw'.device # 0
                         /\ hw'.device = codec'.device
      /\ codec'.device # 0 => hw'.format = "d3d11"
      /\ hw'.format \in SoftwareFormats => ~p
  BY OpenDecoderFacts DEF MInv, Create
<1>2. /\ ScalerFits' /\ NothingSeen' /\ InHand' /\ DeviceMeansFormat'
      /\ EnabledOnDevice'
  BY <1>1 DEF MInv, Create, ScalerFits, NothingSeen, InHand, DeviceMeansFormat,
              EnabledOnDevice
<1>3. OnlyTheFirstFrameIsLost'
  <2>1. extraData' = 0 /\ frame' = None /\ prefer' = p
    BY DEF MInv, Create, NothingSeen
  <2>2. None.format # hw'.format \/ hw'.format \notin SoftwareFormats
    BY DEF None, SoftwareFormats
  <2> QED
    BY <1>1, <2>1, <2>2 DEF OnlyTheFirstFrameIsLost
<1> QED
  BY <1>2, <1>3 DEF MGoal

LEMMA MDispose ==
  ASSUME MInv, Dispose
  PROVE  MGoal
<1>1. OnlyTheFirstFrameIsLost'
  BY DEF Dispose, Off, OnlyTheFirstFrameIsLost, SoftwareFormats
<1> QED
  BY <1>1 DEF Dispose, Off, Closed, MGoal, ScalerFits, InHand, DeviceMeansFormat,
              EnabledOnDevice, NothingSeen

LEMMA MTryDecode ==
  ASSUME MInv, NEW g \in BOOLEAN, NEW p \in Params \cup {0}, TryDecode(g, p)
  PROVE  MGoal
<1>0. UNCHANGED <<prefer, active, frame, scaler>> /\ pc = "idle"
  BY DEF TryDecode
<1>1. CASE p \in {0, extraData}
  <2>1. pc' = "decode" /\ UNCHANGED <<hw, codec, extraData, refused>>
    BY <1>1 DEF TryDecode, native
  <2>2. OnlyTheFirstFrameIsLost'
    BY <1>0, <2>1 DEF MInv, OnlyTheFirstFrameIsLost
  <2> QED
    BY <1>0, <2>1, <2>2 DEF MInv, MGoal, ScalerFits, InHand, DeviceMeansFormat,
                            EnabledOnDevice, NothingSeen
<1>2. CASE p \notin {0, extraData} /\ AcceptExtraData
  <2>1. prefer \in BOOLEAN /\ TypeOK
    BY DEF MInv, TypeOK
  <2>2. Off # Zeroed
    BY DEF Off, Zeroed
  <2>3. /\ hw'.enabled => /\ hw'.format = "d3d11" /\ hw'.device # 0
                           /\ hw'.device = codec'.device
        /\ codec'.device # 0 => hw'.format = "d3d11"
        /\ hw'.format \notin SoftwareFormats
    BY <1>2, <2>1, <2>2, OpenDecoderFacts DEF AcceptExtraData
  <2>4. pc' = "decode"
    BY <1>2 DEF AcceptExtraData
  <2> QED
    BY <1>0, <2>3, <2>4
       DEF MInv, MGoal, ScalerFits, InHand, DeviceMeansFormat, EnabledOnDevice,
           NothingSeen, OnlyTheFirstFrameIsLost
<1>3. CASE p \notin {0, extraData} /\ RefuseExtraData
  <2>1. hw' = Off /\ refused' = TRUE
    BY <1>3 DEF RefuseExtraData
  <2>2. pc' \in {"idle", "drop"}
    BY <1>3 DEF RefuseExtraData, AfterException
  <2>3. Off.format \notin SoftwareFormats /\ Off.enabled = FALSE
    BY DEF Off, SoftwareFormats
  <2> QED
    BY <1>0, <2>1, <2>2, <2>3
       DEF MInv, MGoal, ScalerFits, InHand, DeviceMeansFormat, EnabledOnDevice,
           NothingSeen, OnlyTheFirstFrameIsLost
<1> QED
  BY <1>1, <1>2, <1>3 DEF TryDecode

LEMMA NotOfferedFacts ==
  ASSUME TypeOK
  PROVE  /\ NotOffered.format = hw.format /\ NotOffered.device = hw.device
         /\ NotOffered.enabled => hw.enabled
BY DEF TypeOK, NotOffered

LEMMA MFail ==
  ASSUME MInv, Fail, UNCHANGED <<prefer, extraData, refused>>
  PROVE  MGoal
<1>1. /\ hw'.format = hw.format /\ hw'.device = hw.device
      /\ hw'.enabled => hw.enabled
  BY NotOfferedFacts DEF MInv, Fail
<1>2. pc' \in {"idle", "drop"}
  BY DEF Fail, AfterFailure
<1> QED
  BY <1>1, <1>2 DEF Fail, MInv, MGoal, ScalerFits, InHand, DeviceMeansFormat,
       EnabledOnDevice, NothingSeen, OnlyTheFirstFrameIsLost

LEMMA DeliverFacts ==
  ASSUME MInv, NEW f \in Frames, NEW next, next # "none", Deliver(f, next)
  PROVE  /\ ScalerFits' /\ InHand' /\ NothingSeen'
         /\ frame'.format = f.format /\ active' = f
         /\ pc' \in {next, "idle"} /\ UNCHANGED codec
<1>1. ScalerFits'
  BY DEF MInv, Deliver, UpdateFrameParameters, ScalerFits
<1>2. f # NoFrame /\ frame'.format = f.format
  BY FrameFacts DEF Deliver, UpdateFrameParameters
<1> QED
  BY <1>1, <1>2 DEF Deliver, UpdateFrameParameters, InHand, NothingSeen

LEMMA MDecodeFrame ==
  ASSUME MInv, DecodeFrame
  PROVE  MGoal
<1>0. UNCHANGED <<prefer, extraData, refused>> /\ TypeOK
  BY DEF DecodeFrame, MInv
<1>c. codec \in Codecs
  BY <1>0 DEF TypeOK, Codecs
<1>1. CASE Fail
  BY <1>0, <1>1, MFail
<1>2. ASSUME NEW f \in Received, f.format = hw.format, Transfer(f)
      PROVE  MGoal
  <2>0. f \in Frames /\ (f.format = "d3d11" => codec.device # 0)
    BY <1>c, ReceivedFacts
  <2>1. CASE /\ f.format = "d3d11"
             /\ \E s \in SoftwareFormats : Deliver(InMemory(s, f.size), "scale")
             /\ UNCHANGED hw
    <3>1. PICK s \in SoftwareFormats : Deliver(InMemory(s, f.size), "scale")
      BY <2>1
    <3>2. /\ InMemory(s, f.size) \in Frames
          /\ InMemory(s, f.size).format = s
      BY <2>0, FrameFacts, InMemoryIsAFrame
    <3>3. /\ ScalerFits' /\ InHand' /\ NothingSeen' /\ UNCHANGED codec
          /\ active'.format = s
      BY <3>1, <3>2, DeliverFacts
    <3>4. hw.format = "d3d11" /\ UNCHANGED hw /\ s # "d3d11"
      BY <1>2, <2>1 DEF SoftwareFormats
    <3>5. hw'.format \notin SoftwareFormats
      BY <3>4 DEF SoftwareFormats
    <3> QED
      BY <1>0, <3>3, <3>4, <3>5
         DEF MInv, MGoal, DeviceMeansFormat, EnabledOnDevice, OnlyTheFirstFrameIsLost
  <2>2. CASE /\ active' = f /\ FallbackToSoftwareDecoder
             /\ reported' = FALSE /\ pc' = "idle" /\ UNCHANGED <<frame, scaler>>
    <3>1. codec'.device = 0 /\ hw' = Off
      BY <2>2, WithoutDevice DEF FallbackToSoftwareDecoder
    <3>2. Off.format \notin SoftwareFormats /\ Off.enabled = FALSE
      BY DEF Off, SoftwareFormats
    <3> QED
      BY <1>0, <2>2, <3>1, <3>2
         DEF MInv, MGoal, ScalerFits, InHand, DeviceMeansFormat, EnabledOnDevice,
             NothingSeen, OnlyTheFirstFrameIsLost
  <2> QED
    BY <1>2, <2>1, <2>2 DEF Transfer
<1>3. ASSUME NEW f \in Received, f.format # hw.format, Negotiate(f),
             Deliver(f, "scale")
      PROVE  MGoal
  <2>0. f \in Frames /\ (f.format = "d3d11" => codec.device # 0)
    BY <1>c, ReceivedFacts
  <2>1. /\ ScalerFits' /\ InHand' /\ NothingSeen' /\ UNCHANGED codec
        /\ frame'.format = f.format /\ active' = f
    BY <1>3, <2>0, DeliverFacts
  <2>2. /\ hw'.format = hw.format /\ hw'.device = hw.device
        /\ hw'.enabled => hw.enabled
    BY <1>0, <1>3, NotOfferedFacts DEF Negotiate
  <2>3. f.format = "d3d11" => refused
    BY <1>3, <2>0 DEF MInv, DeviceMeansFormat
  <2> QED
    BY <1>0, <1>3, <2>1, <2>2, <2>3
       DEF MInv, MGoal, DeviceMeansFormat, EnabledOnDevice, OnlyTheFirstFrameIsLost
<1> QED
  BY <1>1, <1>2, <1>3 DEF DecodeFrame

LEMMA MDecodeFrameToGpu ==
  ASSUME MInv, DecodeFrameToGpu
  PROVE  MGoal
<1>0. UNCHANGED <<prefer, extraData, refused>> /\ TypeOK
  BY DEF DecodeFrameToGpu, MInv
<1>c. codec \in Codecs
  BY <1>0 DEF TypeOK, Codecs
<1>1. CASE NoHardware
  BY <1>0, <1>1 DEF NoHardware, native, MInv, MGoal, ScalerFits, InHand,
     DeviceMeansFormat, EnabledOnDevice, NothingSeen, OnlyTheFirstFrameIsLost
<1>2. CASE Fail
  BY <1>0, <1>2, MFail
<1>3. ASSUME NEW f \in Received, Unusable(f)
      PROVE  MGoal
  <2>1. /\ hw'.format = hw.format /\ hw'.device = hw.device
        /\ hw'.enabled => hw.enabled
    BY <1>0, <1>3, NotOfferedFacts DEF Unusable, Negotiate
  <2> QED
    BY <1>0, <1>3, <2>1
       DEF Unusable, MInv, MGoal, ScalerFits, InHand, DeviceMeansFormat,
           EnabledOnDevice, NothingSeen, OnlyTheFirstFrameIsLost
<1>4. ASSUME NEW f \in Received, Usable(f), hw.enabled
      PROVE  MGoal
  <2>0. f \in Frames
    BY <1>c, ReceivedFacts
  <2>1. /\ ScalerFits' /\ InHand' /\ NothingSeen' /\ UNCHANGED <<hw, codec>>
        /\ pc' \in {"shaders", "idle"}
    BY <1>4, <2>0, DeliverFacts DEF Usable
  <2>2. hw'.format \notin SoftwareFormats
    BY <1>4, <2>1 DEF MInv, EnabledOnDevice, SoftwareFormats
  <2> QED
    BY <1>0, <2>1, <2>2
       DEF MInv, MGoal, DeviceMeansFormat, EnabledOnDevice, OnlyTheFirstFrameIsLost
<1> QED
  BY <1>1, <1>2, <1>3, <1>4 DEF DecodeFrameToGpu

LEMMA MRender ==
  ASSUME MInv, RenderStep
  PROVE  MGoal
<1>1. UNCHANGED <<prefer, hw, codec, active, extraData, frame, refused>>
  BY DEF RenderStep, ScaleTo, EnsureRenderShaders, EnsureSwapChain,
     EnsureShaderTexture, Present, RenderFails, Resize, Rendering, native, managed,
     history
<1>2. pc' = pc \/ pc' \notin {"scale", "none"}
  BY DEF RenderStep, ScaleTo, EnsureRenderShaders, EnsureSwapChain,
     EnsureShaderTexture, Present, RenderFails, Resize
<1>3. ScalerFits'
  BY DEF RenderStep, ScaleTo, EnsureRenderShaders, EnsureSwapChain,
     EnsureShaderTexture, Present, RenderFails, Resize, Rendering, managed, MInv,
     ScalerFits
<1>4. InHand' /\ DeviceMeansFormat' /\ NothingSeen'
  BY <1>1, <1>2 DEF MInv, InHand, DeviceMeansFormat, NothingSeen
<1>5. EnabledOnDevice' /\ OnlyTheFirstFrameIsLost'
  BY <1>1 DEF MInv, EnabledOnDevice, OnlyTheFirstFrameIsLost
<1> QED
  BY <1>3, <1>4, <1>5 DEF MGoal

LEMMA MNext == MInv /\ [Next]_vars => MInv'
<1> SUFFICES ASSUME MInv, [Next]_vars PROVE MInv'
  OBVIOUS
<1>1. CASE Next
  <2>1. MGoal
    BY <1>1, MCreate, MDispose, MTryDecode, MDecodeFrame, MDecodeFrameToGpu,
       MRender DEF Next, RenderStep
  <2>2. TypeOK'
    BY <1>1, TypeNext DEF MInv
  <2> QED
    BY <2>1, <2>2 DEF MGoal, MInv
<1>2. CASE UNCHANGED vars
  BY <1>2 DEF vars, native, gpu, managed, history, MInv, TypeOK, ScalerFits,
     InHand, DeviceMeansFormat, EnabledOnDevice, NothingSeen,
     OnlyTheFirstFrameIsLost
<1> QED
  BY <1>1, <1>2

LEMMA MAlways == Spec => []MInv
BY MInit, MNext, PTL DEF Spec

(* Whatever FFmpeg refuses, what is scaled is the frame that was decoded,  *)
(* in its size and format.                                                 *)
THEOREM ScalingIsRight == Spec => []ScalesWhatWasDecoded
<1>1. MInv => ScalesWhatWasDecoded
  BY DEF MInv, InHand, ScalerFits, DeviceMeansFormat, ScalesWhatWasDecoded
<1> QED
  BY <1>1, MAlways, PTL

(* The unassigned hw_pixel_format costs no more than one frame.            *)
THEOREM OneFrameIsLost == Spec => []OnlyTheFirstFrameIsLost
<1>1. MInv => OnlyTheFirstFrameIsLost
  BY DEF MInv
<1> QED
  BY <1>1, MAlways, PTL

-----------------------------------------------------------------------------
(* What is drawn. *)

Stages == {"shaders", "chain", "texture", "draw"}

\* A frame that is rendered is on the device of the context.
OnDevice ==
  pc \in Stages => hw.device # 0 /\ active.device = hw.device

\* Resources made on another device are only there after a replacement.
OneDevice ==
  ~replaced /\ hw.device # 0 =>
    /\ resources.shaders \in {0, hw.device} /\ resources.chain \in {0, hw.device}
    /\ resources.view \in {0, hw.device} /\ resources.texture \in {0, hw.device}

\* A swap chain has a view, unless resizing it failed.
ViewOfChain == pc # "drop" => (resources.chain # 0 => resources.view # 0)

\* What the stages so far have made.
MadeSoFar ==
  /\ pc \in {"chain", "texture", "draw"} => resources.shaders # 0
  /\ pc \in {"texture", "draw"} => resources.chain # 0
  /\ pc = "draw" => resources.texture # 0

\* The remembered description is that of the texture in hand.
SourceKnown ==
  ~reused =>
    /\ pc \in {"shaders", "chain", "texture"} /\ source.address = active.address
         => source.size = active.size
    /\ pc = "draw" => resources.textureSize = active.size

GInv == /\ MInv /\ OnDevice /\ OneDevice /\ ViewOfChain /\ MadeSoFar
        /\ SourceKnown

GGoal == OnDevice' /\ OneDevice' /\ ViewOfChain' /\ MadeSoFar' /\ SourceKnown'

LEMMA GInit == Init => GInv
BY MInit DEF Init, Off, Bare, GInv, OnDevice, OneDevice, ViewOfChain, MadeSoFar,
   SourceKnown, Stages

\* A step that ends outside the renderer and leaves its resources alone.
LEMMA GOutside ==
  ASSUME GInv, pc # "drop", UNCHANGED resources, pc' \notin Stages, OneDevice'
  PROVE  GGoal
BY DEF GInv, GGoal, OnDevice, ViewOfChain, MadeSoFar, SourceKnown, Stages

LEMMA GOpenDecoder ==
  ASSUME GInv, NEW p \in BOOLEAN, NEW before \in {Off, Zeroed},
         OpenDecoder(p, before), UNCHANGED resources
  PROVE  OneDevice'
<1>1. CASE OpenHardware
  <2>1. ~replaced' => resources = Bare
    BY <1>1 DEF OpenHardware
  <2> QED
    BY <2>1 DEF Bare, OneDevice
<1>2. CASE OpenSoftware /\ hw' = IF p THEN Off ELSE before
  BY <1>2 DEF Off, Zeroed, OneDevice
<1> QED
  BY <1>1, <1>2 DEF OpenDecoder

LEMMA GCreate ==
  ASSUME GInv, NEW p \in BOOLEAN, NEW t \in BOOLEAN, Create(p, t)
  PROVE  GGoal
<1>1. UNCHANGED resources /\ pc = "none" /\ pc' \notin Stages
  BY DEF Create, gpu, Stages
<1>2. OneDevice'
  BY <1>1, GOpenDecoder DEF Create
<1> QED
  BY <1>1, <1>2, GOutside

LEMMA GDispose ==
  ASSUME GInv, Dispose
  PROVE  GGoal
BY DEF Dispose, Off, Bare, GGoal, OnDevice, OneDevice, ViewOfChain, MadeSoFar,
   SourceKnown, Stages

LEMMA GTryDecode ==
  ASSUME GInv, NEW g \in BOOLEAN, NEW p \in Params \cup {0}, TryDecode(g, p)
  PROVE  GGoal
<1>1. UNCHANGED resources /\ pc = "idle"
  BY DEF TryDecode, gpu
<1>2. pc' \in {"idle", "drop", "decode"}
  BY DEF TryDecode, AcceptExtraData, RefuseExtraData, AfterException
<1>3. OneDevice'
  <2>1. CASE p \in {0, extraData}
    BY <1>1, <2>1 DEF TryDecode, native, GInv, OneDevice
  <2>2. CASE p \notin {0, extraData} /\ AcceptExtraData
    <3>1. prefer \in BOOLEAN
      BY DEF GInv, MInv, TypeOK
    <3> QED
      BY <1>1, <2>2, <3>1, GOpenDecoder DEF AcceptExtraData
  <2>3. CASE p \notin {0, extraData} /\ RefuseExtraData
    BY <2>3 DEF RefuseExtraData, Off, OneDevice
  <2> QED
    BY <2>1, <2>2, <2>3 DEF TryDecode
<1> QED
  BY <1>1, <1>2, <1>3, GOutside DEF Stages

\* A decode keeps the device or gives it up.
LEMMA DeviceKept ==
  ASSUME GInv, DecodeFrame \/ DecodeFrameToGpu
  PROVE  hw'.device \in {0, hw.device} /\ UNCHANGED <<resources, source, replaced>>
<1>0. NotOffered.device = hw.device
  BY NotOfferedFacts DEF GInv, MInv
<1>1. Off.device = 0
  BY DEF Off
<1>2. CASE DecodeFrame
  BY <1>0, <1>1, <1>2 DEF DecodeFrame, Fail, Transfer, Negotiate,
     FallbackToSoftwareDecoder, gpu
<1>3. CASE DecodeFrameToGpu
  BY <1>0, <1>3 DEF DecodeFrameToGpu, NoHardware, Fail, Unusable, Usable,
     Negotiate, native, gpu
<1> QED
  BY <1>2, <1>3

LEMMA GDecodeFrame ==
  ASSUME GInv, DecodeFrame
  PROVE  GGoal
<1>1. pc = "decode" /\ UNCHANGED resources /\ OneDevice'
  BY DeviceKept DEF DecodeFrame, GInv, OneDevice
<1>2. pc' \in {"idle", "drop", "scale"}
  BY DEF DecodeFrame, Fail, AfterFailure, Transfer, Deliver
<1> QED
  BY <1>1, <1>2, GOutside DEF Stages

LEMMA GDecodeFrameToGpu ==
  ASSUME GInv, DecodeFrameToGpu
  PROVE  GGoal
<1>1. pc = "decode" /\ UNCHANGED <<resources, source>> /\ OneDevice'
  BY DeviceKept DEF DecodeFrameToGpu, GInv, OneDevice
<1>2. CASE pc' \notin Stages
  BY <1>1, <1>2, GOutside
<1>3. CASE pc' \in Stages
  <2>1. PICK f \in Received : Usable(f) /\ hw.enabled
    BY <1>3 DEF DecodeFrameToGpu, NoHardware, Fail, AfterFailure, Unusable, Stages
  <2>2. codec \in Codecs /\ hw.format = "d3d11" /\ hw.device # 0
        /\ hw.device = codec.device
    BY <2>1 DEF GInv, MInv, TypeOK, Codecs, EnabledOnDevice
  <2>3. f.device = hw.device
    BY <2>1, <2>2, ReceivedFacts DEF Usable
  <2>4. active' = f /\ pc' = "shaders" /\ UNCHANGED hw
    BY <1>3, <2>1 DEF Usable, Deliver, Stages
  <2>5. OnDevice'
    BY <2>2, <2>3, <2>4 DEF OnDevice
  <2>6. ViewOfChain' /\ MadeSoFar'
    BY <1>1, <2>4 DEF GInv, ViewOfChain, MadeSoFar
  <2>7. SourceKnown'
    BY <1>1, <2>1, <2>4 DEF Usable, SourceKnown
  <2> QED
    BY <1>1, <2>5, <2>6, <2>7 DEF GGoal
<1> QED
  BY <1>2, <1>3

LEMMA GRender ==
  ASSUME GInv, RenderStep
  PROVE  GGoal
<1>0. UNCHANGED <<hw, active, replaced, reused>>
  BY DEF RenderStep, ScaleTo, EnsureRenderShaders, EnsureSwapChain,
     EnsureShaderTexture, Present, RenderFails, Resize, Rendering, native, managed,
     history
<1>r. resources \in Resources /\ source \in Sources
  BY DEF GInv, MInv, TypeOK, Resources, Sources
<1>1. CASE ScaleTo
  BY <1>0, <1>1 DEF ScaleTo, gpu, GInv, GGoal, OnDevice, OneDevice, ViewOfChain,
     MadeSoFar, SourceKnown, Stages
<1>2. CASE EnsureRenderShaders
  <2>1. pc = "shaders" /\ pc' = "chain" /\ UNCHANGED source
    BY <1>2 DEF EnsureRenderShaders
  <2>2. hw.device # 0 /\ active.device = hw.device
    BY <2>1 DEF GInv, OnDevice, Stages
  <2>3. /\ resources'.shaders = IF resources.shaders = 0 THEN hw.device
                                ELSE resources.shaders
        /\ resources'.chain = resources.chain /\ resources'.view = resources.view
        /\ resources'.texture = resources.texture
    BY <1>2, <1>r DEF EnsureRenderShaders, Resources
  <2> QED
    BY <1>0, <2>1, <2>2, <2>3 DEF GInv, GGoal, OnDevice, OneDevice, ViewOfChain,
       MadeSoFar, SourceKnown
<1>3. CASE EnsureSwapChain
  <2>1. pc = "chain" /\ pc' = "texture" /\ UNCHANGED source
    BY <1>3 DEF EnsureSwapChain
  <2>2. hw.device # 0 /\ active.device = hw.device
    BY <2>1 DEF GInv, OnDevice, Stages
  <2>3. /\ resources'.shaders = resources.shaders
        /\ resources'.texture = resources.texture
        /\ \/ resources'.chain = resources.chain /\ resources'.view = resources.view
              /\ resources.chain # 0
           \/ /\ resources'.chain = IF resources.chain = 0 THEN hw.device
                                    ELSE resources.chain
              /\ resources'.view = hw.device
    BY <1>3, <1>r DEF EnsureSwapChain, Resources
  <2> QED
    BY <1>0, <2>1, <2>2, <2>3 DEF GInv, GGoal, OnDevice, OneDevice, ViewOfChain,
       MadeSoFar, SourceKnown
<1>4. CASE EnsureShaderTexture
  <2>1. pc = "texture" /\ pc' = "draw"
    BY <1>4 DEF EnsureShaderTexture
  <2>2. hw.device # 0 /\ active.device = hw.device
    BY <2>1 DEF GInv, OnDevice, Stages
  <2>3. ~reused => source'.size = active.size
    BY <1>4, <2>1 DEF EnsureShaderTexture, GInv, SourceKnown
  <2>4. /\ resources'.shaders = resources.shaders
        /\ resources'.chain = resources.chain /\ resources'.view = resources.view
        /\ \/ /\ resources.texture # 0 /\ resources.textureSize = source'.size
              /\ resources' = resources
           \/ /\ resources'.texture = hw.device
              /\ resources'.textureSize = source'.size
    BY <1>4, <1>r DEF EnsureShaderTexture, Resources
  <2> QED
    BY <1>0, <2>1, <2>2, <2>3, <2>4 DEF GInv, GGoal, OnDevice, OneDevice,
       ViewOfChain, MadeSoFar, SourceKnown
<1>5. CASE Present
  BY <1>0, <1>5 DEF Present, gpu, GInv, GGoal, OnDevice, OneDevice, ViewOfChain,
     MadeSoFar, SourceKnown, Stages
<1>6. CASE RenderFails
  <2>1. /\ resources'.shaders = resources.shaders
        /\ resources'.chain = resources.chain
        /\ resources'.view \in {0, resources.view}
        /\ resources'.texture = resources.texture
    BY <1>6, <1>r DEF RenderFails, Resources
  <2> QED
    BY <1>0, <1>6, <2>1 DEF RenderFails, GInv, GGoal, OnDevice, OneDevice,
       ViewOfChain, MadeSoFar, SourceKnown, Stages
<1>7. ASSUME NEW s \in Sizes, Resize(s)
      PROVE  GGoal
  BY <1>0, <1>7 DEF Resize, gpu, GInv, GGoal, OnDevice, OneDevice, ViewOfChain,
     MadeSoFar, SourceKnown, Stages
<1> QED
  BY <1>1, <1>2, <1>3, <1>4, <1>5, <1>6, <1>7 DEF RenderStep

LEMMA GNext == GInv /\ [Next]_vars => GInv'
<1> SUFFICES ASSUME GInv, [Next]_vars PROVE GInv'
  OBVIOUS
<1>0. MInv'
  BY MNext DEF GInv
<1>1. CASE Next
  <2>1. GGoal
    BY <1>1, GCreate, GDispose, GTryDecode, GDecodeFrame, GDecodeFrameToGpu,
       GRender DEF Next, RenderStep
  <2> QED
    BY <1>0, <2>1 DEF GGoal, GInv
<1>2. CASE UNCHANGED vars
  BY <1>0, <1>2 DEF vars, native, gpu, managed, history, GInv, OnDevice,
     OneDevice, ViewOfChain, MadeSoFar, SourceKnown
<1> QED
  BY <1>1, <1>2

(* A picture is drawn with the resources of the device that decoded it.    *)
THEOREM DrawingIsOnOneDevice == Spec => []DrawsOnOneDevice
<1>1. GInv => DrawsOnOneDevice
  <2> SUFFICES ASSUME GInv, pc = "draw"
               PROVE  /\ hw.device # 0 /\ active.device = hw.device
                      /\ ~replaced => { resources.shaders, resources.chain,
                                        resources.view, resources.texture }
                                        = {hw.device}
                      /\ ~reused => resources.textureSize = active.size
    BY DEF DrawsOnOneDevice
  <2>1. hw.device # 0 /\ active.device = hw.device
    BY DEF GInv, OnDevice, Stages
  <2>2. /\ resources.shaders # 0 /\ resources.chain # 0 /\ resources.view # 0
        /\ resources.texture # 0
    BY DEF GInv, MadeSoFar, ViewOfChain
  <2>3. ASSUME ~replaced
        PROVE  /\ resources.shaders = hw.device /\ resources.chain = hw.device
               /\ resources.view = hw.device /\ resources.texture = hw.device
    BY <2>1, <2>2, <2>3 DEF GInv, OneDevice
  <2>4. ~reused => resources.textureSize = active.size
    BY DEF GInv, SourceKnown
  <2> QED
    BY <2>1, <2>3, <2>4
<1> QED
  BY <1>1, GInit, GNext, PTL DEF Spec

=============================================================================
