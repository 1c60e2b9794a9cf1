---------------------------- MODULE VideoDecoder ----------------------------
(***************************************************************************)
(* One decoder of the WinForms control: FfmpegVideoDecoder                 *)
(* (RtspClientSharp.WinForms/FfmpegVideoInterop.cs) over the native        *)
(* context of Examples/libffmpeghelper/videodecoding.cpp, called under     *)
(* _decoderSyncRoot: parameter sets, then a decode to memory or to the     *)
(* GPU, then the scaler or the renderer.  FFmpeg, Direct3D and DXGI may    *)
(* refuse every request.                                                   *)
(*                                                                         *)
(* A Direct3D device is a number, 0 is a null pointer; of a resource the   *)
(* device it was made on is kept, and the size where sizes are compared.   *)
(* A texture of the decoder is an address, which may be used again.        *)
(***************************************************************************)
EXTENDS Naturals

CONSTANTS
  Params,      \* the parameter sets a key frame may carry
  Sizes,       \* the sizes of a video frame and of the client area
  Addresses,   \* the addresses of the decoder's texture arrays
  MaxDevices   \* bound: devices made before the model stops

ASSUME DecoderAssumption ==
  /\ 0 \notin Params
  /\ 0 \notin Sizes /\ Sizes # {}
  /\ 0 \notin Addresses /\ Addresses # {}
  /\ MaxDevices \in Nat

VARIABLES
  pc,         \* what the holder of the lock does next
  toGpu,      \* it called TryDecodeToGpu
  prefer,     \* prefer_hardware
  hw,         \* hardware_enabled, hw_pixel_format and hw_device_ctx
  codec,      \* av_codec_context: open, its device, get_format
  active,     \* active_frame
  target,     \* render_hwnd
  resources,  \* what release_render_resources releases
  source,     \* source_texture and source_texture_desc
  window,     \* the client area of the surface
  extraData,  \* _extraData
  reported,   \* _isHardwareAccelerated
  frame,      \* _currentFrameParameters
  scaler,     \* the cached scaler: the frame it was made for
  devices,    \* history: the devices made so far
  replaced,   \* history: the device changed under kept resources
  reused,     \* history: an address came back for another texture
  refused     \* history: parameter sets were refused

native  == <<hw, codec>>
gpu     == <<resources, source>>
managed == <<extraData, reported, frame, scaler>>
history == <<devices, replaced, reused, refused>>
vars == <<pc, toGpu, prefer, native, active, target, gpu, window, managed,
          history>>

None     == [format |-> "none", size |-> 0]
NoFrame  == [format |-> "none", size |-> 0, device |-> 0, address |-> 0]
InMemory(f, s) == [format |-> f, size |-> s, device |-> 0, address |-> 0]
Bare == [shaders |-> 0, chain |-> 0, view |-> 0, size |-> 0,
         texture |-> 0, textureSize |-> 0]
NoSource == [address |-> 0, size |-> 0]

SoftwareFormats == {"yuv420p", "yuvj420p"}

(* hw_pixel_format of a context fresh from av_mallocz is 0, which is the   *)
(* number of yuv420p; AV_PIX_FMT_NONE is -1.                               *)
Zeroed == [enabled |-> FALSE, format |-> "yuv420p", device |-> 0]
Off == [enabled |-> FALSE, format |-> "none", device |-> 0]
On(d) == [enabled |-> TRUE, format |-> "d3d11", device |-> d]
Closed == [open |-> FALSE, device |-> 0, callback |-> FALSE]

ParametersOf(f) == [format |-> f.format, size |-> f.size]

Frames == [format : SoftwareFormats, size : Sizes, device : {0}, address : {0}]
            \cup [format : {"d3d11"}, size : Sizes,
                  device : 1..MaxDevices, address : Addresses]
Parameters ==
  {None} \cup [format : SoftwareFormats \cup {"d3d11"}, size : Sizes]

TypeOK ==
  /\ pc \in {"none", "idle", "decode", "scale", "shaders", "chain", "texture",
             "draw", "drop"}
  /\ toGpu \in BOOLEAN /\ prefer \in BOOLEAN /\ target \in BOOLEAN
  /\ hw \in [enabled : BOOLEAN, format : {"none", "d3d11", "yuv420p"},
             device : 0..MaxDevices]
  /\ codec \in [open : BOOLEAN, device : 0..MaxDevices, callback : BOOLEAN]
  /\ active \in Frames \cup {NoFrame}
  /\ resources \in [shaders : 0..MaxDevices, chain : 0..MaxDevices,
                    view : 0..MaxDevices, size : Sizes \cup {0},
                    texture : 0..MaxDevices, textureSize : Sizes \cup {0}]
  /\ source \in [address : Addresses \cup {0}, size : Sizes \cup {0}]
  /\ window \in Sizes
  /\ extraData \in Params \cup {0}
  /\ reported \in BOOLEAN
  /\ frame \in Parameters /\ scaler \in Parameters
  /\ devices \in 0..MaxDevices
  /\ replaced \in BOOLEAN /\ reused \in BOOLEAN /\ refused \in BOOLEAN

Init ==
  /\ pc = "none" /\ toGpu = FALSE /\ prefer = FALSE /\ target = FALSE
  /\ hw = Off /\ codec = Closed /\ active = NoFrame
  /\ resources = Bare /\ source = NoSource /\ window \in Sizes
  /\ extraData = 0 /\ reported = FALSE /\ frame = None /\ scaler = None
  /\ devices = 0 /\ replaced = FALSE /\ reused = FALSE /\ refused = FALSE

-----------------------------------------------------------------------------
(* Opening the codec. *)

(* try_enable_d3d11va and an avcodec_open2 that accepts the device.        *)
OpenHardware ==
  /\ devices < MaxDevices
  /\ devices' = devices + 1
  /\ hw' = On(devices')
  /\ codec' = [open |-> TRUE, device |-> devices', callback |-> TRUE]
  /\ replaced' = (replaced \/ resources # Bare)

(* The second half of open_decoder, with the default get_format.           *)
OpenSoftware ==
  /\ codec' = [open |-> TRUE, device |-> 0, callback |-> FALSE]
  /\ UNCHANGED <<devices, replaced>>

(* open_decoder for a new codec context.  A device that was tried leaves   *)
(* no trace; without one hw_pixel_format is what it was before.            *)
OpenDecoder(preferHardware, before) ==
  \/ preferHardware /\ OpenHardware
  \/ OpenSoftware /\ hw' = IF preferHardware THEN Off ELSE before

(* FfmpegVideoDecoder.Create, and SetRenderTarget in the GPU path, which   *)
(* always prefers hardware; what fails is removed again.                   *)
Create(preferHardware, withTarget) ==
  /\ pc = "none"
  /\ withTarget => preferHardware
  /\ OpenDecoder(preferHardware, Zeroed)
  /\ prefer' = preferHardware
  /\ target' = withTarget
  /\ reported' = hw'.enabled
  /\ pc' = "idle"
  /\ UNCHANGED <<toGpu, active, gpu, window, extraData, frame, scaler, reused,
                 refused>>

(* Dispose: remove_video_decoder, with everything the context held.        *)
Dispose ==
  /\ pc \in {"idle", "drop"}
  /\ pc' = "none"
  /\ hw' = Off /\ codec' = Closed /\ active' = NoFrame /\ prefer' = FALSE
  /\ target' = FALSE /\ resources' = Bare /\ source' = NoSource
  /\ extraData' = 0 /\ reported' = FALSE /\ frame' = None /\ scaler' = None
  /\ replaced' = FALSE /\ reused' = FALSE /\ refused' = FALSE
  /\ toGpu' = FALSE
  /\ UNCHANGED <<window, devices>>

(* fallback_to_software_decoder: av_codec_context loses its device before  *)
(* it is opened again, and nobody looks whether that succeeds.             *)
FallbackToSoftwareDecoder ==
  /\ hw' = Off
  /\ codec' \in [open : BOOLEAN, device : {0}, callback : {FALSE}]

(* The control drops a decoder that failed on the GPU path: at once        *)
(* without hardware or after an exception, otherwise after three times.    *)
AfterFailure ==
  IF ~toGpu' THEN {"idle"}
  ELSE {"drop"} \cup IF hw'.enabled THEN {"idle"} ELSE {}

AfterException == IF toGpu' THEN "drop" ELSE "idle"

(* recreate_decoder_with_extradata without success: the old codec context  *)
(* comes back, under the default get_format but with its own device.       *)
RefuseExtraData ==
  /\ hw' = Off
  /\ \E open \in {codec.open, TRUE} :
       codec' = [codec EXCEPT !.open = open, !.callback = FALSE]
  /\ refused' = TRUE
  /\ pc' = AfterException
  /\ UNCHANGED <<reported, devices, replaced>>

\* A mutant of AcceptExtraData: hw_pixel_format is not assigned here either.
AcceptAndKeepFormat ==
  /\ OpenDecoder(prefer, [Off EXCEPT !.format = hw.format])
  /\ reported' = hw'.enabled
  /\ pc' = "decode"
  /\ UNCHANGED refused

(* ... and with success: a new codec context, perhaps with a new device.   *)
AcceptExtraData ==
  /\ OpenDecoder(prefer, Off)
  /\ reported' = hw'.enabled
  /\ pc' = "decode"
  /\ UNCHANGED refused

(* The beginning of TryDecode and TryDecodeToGpu: SetExtraDataIfNeeded.    *)
(* The parameter sets are remembered before they are accepted.             *)
TryDecode(gpuPath, params) ==
  /\ pc = "idle"
  /\ toGpu' = gpuPath
  /\ IF params \in {0, extraData}
       THEN /\ pc' = "decode"
            /\ UNCHANGED <<native, extraData, reported, devices, replaced,
                           refused>>
       ELSE /\ extraData' = params
            /\ AcceptExtraData \/ RefuseExtraData
  /\ UNCHANGED <<prefer, active, target, gpu, window, frame, scaler, reused>>

-----------------------------------------------------------------------------
(* Decoding. *)

\* A mutant of Formats: a hardware format without a device.
FormatsWithoutDevice ==
  SoftwareFormats \cup IF codec.callback /\ ~hw.enabled THEN {} ELSE {"d3d11"}

(* The formats a frame may have: get_hw_format takes the hardware format   *)
(* where it is offered; the default get_format takes a hardware format     *)
(* when the codec has a device for it.                                     *)
Formats ==
  SoftwareFormats \cup
    IF codec.device = 0 \/ (codec.callback /\ ~hw.enabled) THEN {} ELSE {"d3d11"}

(* What avcodec_receive_frame may bring.                                   *)
Surface(s, a) ==
  [format |-> "d3d11", size |-> s, device |-> codec.device, address |-> a]

Received ==
  IF ~codec.open THEN {}
  ELSE { InMemory(f, s) : f \in SoftwareFormats, s \in Sizes }
         \cup IF "d3d11" \notin Formats THEN {}
              ELSE { Surface(s, a) : s \in Sizes, a \in Addresses }

(* get_hw_format finds that the hardware format is not offered.            *)
NotOffered == [hw EXCEPT !.enabled = @ /\ ~codec.callback]

Negotiate(f) == hw' = IF f.format = "d3d11" THEN hw ELSE NotOffered

\* A mutant of UpdateFrameParameters: the scalers stay.
UpdateFrameParametersOnly(f) ==
  frame' = ParametersOf(f) /\ UNCHANGED scaler

(* UpdateFrameParameters: a frame of another kind takes the scalers away.  *)
UpdateFrameParameters(f) ==
  /\ frame' = ParametersOf(f)
  /\ scaler' = IF frame' = frame THEN scaler ELSE None

(* The packet is refused or gives no frame, and perhaps no hardware frame  *)
(* ever; IsHardwareAccelerated is read again.                              *)
Fail ==
  /\ active' = NoFrame
  /\ hw' \in {hw, NotOffered}
  /\ reported' = hw'.enabled
  /\ pc' \in AfterFailure
  /\ UNCHANGED <<codec, frame, scaler, reused>>

(* A frame in memory, or one in the format of a device that is not ours.   *)
Deliver(f, next) ==
  /\ active' = f
  /\ UpdateFrameParameters(f)
  /\ pc' \in {next, "idle"}
  /\ UNCHANGED <<codec, reported>>

(* decode_video_frame_internal: a frame in the hardware format is copied   *)
(* to memory, which works for a frame that is on the GPU; when it fails,   *)
(* active_frame is still the frame that was decoded.                       *)
Transfer(f) ==
  \/ /\ f.format = "d3d11"
     /\ \E s \in SoftwareFormats : Deliver(InMemory(s, f.size), "scale")
     /\ UNCHANGED hw
  \/ /\ active' = f
     /\ FallbackToSoftwareDecoder
     /\ reported' = FALSE
     /\ pc' = "idle"
     /\ UNCHANGED <<frame, scaler>>

DecodeFrame ==
  /\ pc = "decode" /\ ~toGpu
  /\ toGpu' = toGpu
  /\ \/ Fail
     \/ \E f \in Received :
          /\ IF f.format = hw.format THEN Transfer(f)
             ELSE Negotiate(f) /\ Deliver(f, "scale")
          /\ UNCHANGED reused
  /\ UNCHANGED <<prefer, target, gpu, window, extraData, devices, replaced,
                 refused>>

(* decode_video_frame_to_gpu_internal.  Without hardware the frame of the  *)
(* call before stays; a frame in memory is of no use.                      *)
NoHardware ==
  /\ ~hw.enabled
  /\ reported' = FALSE
  /\ pc' = "drop"
  /\ UNCHANGED <<native, active, frame, scaler, reused>>

Unusable(f) ==
  /\ f.format # hw.format
  /\ active' = NoFrame
  /\ Negotiate(f)
  /\ reported' = hw'.enabled
  /\ pc' = "drop"
  /\ UNCHANGED <<codec, frame, scaler, reused>>

Usable(f) ==
  /\ f.format = hw.format
  /\ Deliver(f, "shaders")
  /\ reused' = (reused \/ (source.address = f.address /\ source.size # f.size))
  /\ UNCHANGED hw

DecodeFrameToGpu ==
  /\ pc = "decode" /\ toGpu
  /\ toGpu' = toGpu
  /\ \/ NoHardware
     \/ hw.enabled /\ Fail
     \/ hw.enabled /\ \E f \in Received : Unusable(f) \/ Usable(f)
  /\ UNCHANGED <<prefer, target, gpu, window, extraData, devices, replaced,
                 refused>>

-----------------------------------------------------------------------------
(* Scaling. *)

(* GetScaler and ScaleTo: the scaler of a transform that was seen before   *)
(* is used again; a new one is made for the current frame, if swscale      *)
(* knows its format.  The renderer of the other path is not involved.      *)
ScaleTo ==
  /\ pc = "scale"
  /\ pc' = "idle"
  /\ scaler' \in {scaler} \cup IF frame.format # "d3d11" THEN {frame} ELSE {}
  /\ UNCHANGED <<toGpu, prefer, native, active, target, gpu, window, extraData,
                 reported, frame, history>>

-----------------------------------------------------------------------------
(* Rendering: RenderGpuFrame and render_gpu_decoded_video_frame, which     *)
(* throw the decoder away when a step fails.                               *)

Rendering ==
  UNCHANGED <<toGpu, prefer, native, active, target, window, managed, history>>

(* The checks at the beginning of render_gpu_decoded_video_frame.          *)
Ready ==
  /\ active # NoFrame /\ active.format = hw.format
  /\ hw.device # 0 /\ target

RenderFails ==
  /\ pc \in {"shaders", "chain", "texture", "draw"}
  /\ pc' = "drop"
  /\ resources' = IF pc = "chain" THEN [resources EXCEPT !.view = 0]
                  ELSE resources
  /\ UNCHANGED source
  /\ Rendering

(* ensure_render_shaders: what exists is kept.                             *)
EnsureRenderShaders ==
  /\ pc = "shaders" /\ Ready
  /\ resources' = [resources EXCEPT !.shaders = IF @ = 0 THEN hw.device ELSE @]
  /\ pc' = "chain"
  /\ UNCHANGED source
  /\ Rendering

(* ensure_swap_chain: nothing to do for an unchanged client area.          *)
EnsureSwapChain ==
  /\ pc = "chain"
  /\ resources' =
       IF resources.chain # 0 /\ resources.size = window THEN resources
       ELSE [resources EXCEPT !.chain = IF @ = 0 THEN hw.device ELSE @,
                              !.view = hw.device, !.size = window]
  /\ pc' = "texture"
  /\ UNCHANGED source
  /\ Rendering

\* A mutant of EnsureShaderTexture: a texture that exists is kept.
EnsureAnyTexture ==
  /\ pc = "texture"
  /\ source' = IF source.address = active.address THEN source
               ELSE [address |-> active.address, size |-> active.size]
  /\ resources' =
       IF resources.texture # 0 THEN resources
       ELSE [resources EXCEPT !.texture = hw.device,
                              !.textureSize = source'.size]
  /\ pc' = "draw"
  /\ Rendering

(* The description of the decoder's texture, read again when the address   *)
(* is another one, and ensure_shader_texture for it.                       *)
EnsureShaderTexture ==
  /\ pc = "texture"
  /\ source' = IF source.address = active.address THEN source
               ELSE [address |-> active.address, size |-> active.size]
  /\ resources' =
       IF resources.texture # 0 /\ resources.textureSize = source'.size
         THEN resources
       ELSE [resources EXCEPT !.texture = hw.device,
                              !.textureSize = source'.size]
  /\ pc' = "draw"
  /\ Rendering

(* Copy, draw and Present.                                                 *)
Present ==
  /\ pc = "draw"
  /\ pc' = "idle"
  /\ UNCHANGED gpu
  /\ Rendering

(* The client area changes under the UI thread at any time.                *)
Resize(size) ==
  /\ window' = size
  /\ UNCHANGED <<pc, toGpu, prefer, native, active, target, gpu, managed,
                 history>>

Next ==
  \/ \E p, t \in BOOLEAN : Create(p, t)
  \/ Dispose
  \/ \E g \in BOOLEAN, p \in Params \cup {0} : TryDecode(g, p)
  \/ DecodeFrame \/ DecodeFrameToGpu
  \/ ScaleTo
  \/ EnsureRenderShaders \/ EnsureSwapChain \/ EnsureShaderTexture
  \/ Present \/ RenderFails
  \/ \E s \in Sizes : Resize(s)

Spec == Init /\ [][Next]_vars

-----------------------------------------------------------------------------
(* What swscale reads is what was decoded: a cached scaler is of the size  *)
(* and format of the frame in hand, and the frame is in memory, unless     *)
(* parameter sets were refused (videodecoding.cpp:820, 1184).              *)
ScalesWhatWasDecoded ==
  pc = "scale" =>
    /\ active # NoFrame
    /\ frame = ParametersOf(active)
    /\ scaler \in {None, frame}
    /\ active.format = "d3d11" => refused

(* A context made without hardware takes its first yuv420p frame for one   *)
(* on the GPU, for hw_pixel_format was never assigned: the transfer fails  *)
(* and frame and decoder are lost.  That ends with the first such frame or *)
(* the first parameter sets (videodecoding.cpp:829, 913-920).              *)
OnlyTheFirstFrameIsLost ==
  hw.format \in SoftwareFormats =>
    /\ ~prefer /\ extraData = 0
    /\ frame.format # hw.format

(* A picture is drawn with shaders, a swap chain, a view and a texture of  *)
(* the device that decoded it, and whole, unless the device was replaced   *)
(* while they were kept, or the decoder's new texture has the address of   *)
(* the old one (videodecoding.cpp:1077-1114).                              *)
DrawsOnOneDevice ==
  pc = "draw" =>
    /\ hw.device # 0 /\ active.device = hw.device
    /\ ~replaced => { resources.shaders, resources.chain, resources.view,
                      resources.texture } = {hw.device}
    /\ ~reused => resources.textureSize = active.size

=============================================================================
