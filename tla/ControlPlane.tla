---------------------------- MODULE ControlPlane ----------------------------
(***************************************************************************)
(* The control clients (camera, device, audio, overlay, app, and the       *)
(* management half of the inference and event clients): unary calls of     *)
(* several clients on one daemon's settings, and the three operations that *)
(* are more than one call, the merging set_privacy_mask(),                 *)
(* oneshot_autofocus() and restart_app().                                  *)
(*                                                                         *)
(* Calls on different settings do not meet, so one setting with two fields *)
(* stands for each of them. Every call has a kind:                         *)
(*   "read"     returns the setting;                                       *)
(*   "patch"    sends the fields the caller gave and no others;            *)
(*   "whole"    sends all fields, those the caller does not mean to change *)
(*              as it last knew them;                                      *)
(*   "default"  sends all fields, the others as the SDK's defaults are;    *)
(*   "command"  makes the daemon do something once, and sets nothing;      *)
(* and may ignore the status that the reply carries besides the            *)
(* transport's own, where the reply has one.                               *)
(***************************************************************************)
EXTENDS Naturals

CONSTANTS
  CtlClients,   \* the clients, which are also the values that they write
  CtlMaxCalls,  \* calls one client makes
  CtlUnset      \* the value a field has by default

CtlFields == {"f", "g"}

Calls(kind, names)   == {[name |-> n, kind |-> kind, ignores |-> FALSE] : n \in names}
Ignores(kind, names) == {[name |-> n, kind |-> kind, ignores |-> TRUE] : n \in names}

IspCalls == Calls("patch", {"set_isp"}) \cup Calls("read", {"get_isp"})
TransformCalls == Calls("read", {"get_transform"}) \cup Calls("whole", {"set_transform"})
EncoderCalls == Calls("whole", {"set_encoder", "reconfigure_encoder", "set_rtsp_enabled"})
OsdCalls == Calls("whole", {"set_osd"}) \cup Calls("read", {"get_osd"})
StreamCalls == Calls("read", {"get_stream_status"})
               \cup Calls("whole", {"set_ai_overlay", "add_stream", "remove_stream", "reconfigure_pipeline"})
ProfileCalls == Calls("read", {"get_profile", "list_profiles"})
                \cup Calls("whole", {"switch_profile"}) \cup Calls("command", {"backup_profile"})
HardwareCalls == Calls("read", {"get_sensor_info", "get_capabilities", "get_hardware_status"})
LightCalls == Calls("whole", {"set_led_duty", "set_ircut"}) \cup Calls("read", {"get_led_duty"})
              \cup Ignores("read", {"get_ircut"}) \cup Calls("command", {"mcu_raw_request"})
EnvironmentCalls == Calls("whole", {"set_fan", "set_heat", "set_radar"})
                    \cup Ignores("read", {"get_fan", "get_heat", "get_radar"})
AlarmCalls == Calls("whole", {"set_alarm_out", "rs485_init", "rs485_deinit"})
              \cup Calls("read", {"get_alarm_out", "get_alarm_outputs"})
              \cup Calls("command", {"rs485_tx"})
InfraredCalls == Calls("whole", {"set_imaging_mode", "clear_infrared_manual"})
                 \cup Calls("patch", {"set_infrared_settings"})
                 \cup Calls("read", {"get_infrared_status"})
PresetCalls == Calls("read", {"list_ir_presets"}) \cup Calls("patch", {"save_ir_preset", "delete_ir_preset"})
MaskCalls == Calls("read", {"get_privacy_mask"}) \cup Calls("whole", {"set_privacy_mask"})
FieldCalls == Calls("read", {"get_config_field"}) \cup Calls("patch", {"set_config_field"})
InjectionCalls == Calls("command", {"push_frame", "push_frame_stream", "stop_injection"})
                  \cup Calls("read", {"injection_status"})

PtzCalls == Calls("whole", {"set_white_light", "set_ir_led", "set_ircut", "pan", "tilt", "ptz_stop"})
            \cup Calls("patch", {"save_preset"}) \cup Calls("command", {"call_preset"})
LensCalls == Calls("whole", {"zoom", "set_zoom_level", "focus", "set_focus_level"})
             \cup Calls("read", {"get_lens_status"}) \cup Calls("patch", {"set_lens_limits"})
LensMotorCalls == Calls("command", {"lens_reset_zero", "lens_init", "lens_goto_ratio_distance"})
                  \cup Calls("whole", {"control_iris", "set_iris_target"})
PortCalls == Calls("whole", {"set_wiegand_out", "rs485_init", "rs485_deinit", "gpio_set"})
             \cup Calls("read", {"get_wiegand_out", "gpio_get"}) \cup Calls("command", {"rs485_tx"})
StatusCalls == Calls("read", {"get_device_status"})
AfJobCalls == Calls("command", {"start_oneshot_af", "start_zoom_follow", "cancel_autofocus"})
              \cup Calls("whole", {"set_af_windows"})
              \cup Calls("read", {"get_autofocus_status", "get_af_measurement"})

AudioCalls == Ignores("read", {"list_capture_devices", "list_playback_devices", "get_status"})
              \cup Calls("whole", {"start_capture", "stop_capture", "start_playback", "stop_playback",
                                   "set_config"}) \cup Calls("command", {"stream_pcm", "stream_pcm_file"})
OverlayCalls == Calls("whole", {"configure", "apply"}) \cup Calls("default", {"enable", "disable"})
AnnotateCalls == Calls("patch", {"annotate", "annotate_result"})
AppCalls == Calls("command", {"register_web_url", "install_app", "uninstall_app"})
            \cup Calls("read", {"list_apps", "get_app", "get_app_stats"})
ModelCalls == Calls("command", {"register_model", "unregister_model"})
              \cup Calls("read", {"list_models", "get_model_info", "get_stats"})
SessionCalls == Calls("command", {"create_session", "destroy_session", "encode_text"})
                \cup Calls("whole", {"update_postprocess_config"})
GenaiCalls == Calls("command", {"genai_create_session", "genai_destroy_session"})
              \cup Ignores("command", {"genai_abort"})
TopicCalls == Calls("read", {"list_topics", "get_topic_info", "get_event_stats", "get_topic_stats"})

AllCalls == IspCalls \cup TransformCalls \cup EncoderCalls \cup OsdCalls \cup StreamCalls
  \cup ProfileCalls \cup HardwareCalls \cup LightCalls \cup EnvironmentCalls \cup AlarmCalls
  \cup InfraredCalls \cup PresetCalls \cup MaskCalls \cup FieldCalls \cup InjectionCalls
  \cup PtzCalls \cup LensCalls \cup LensMotorCalls \cup PortCalls \cup StatusCalls \cup AfJobCalls
  \cup AudioCalls \cup OverlayCalls \cup AnnotateCalls \cup AppCalls \cup ModelCalls
  \cup SessionCalls \cup GenaiCalls \cup TopicCalls

VARIABLES
  cconf,   \* the setting: a value for each field
  cmeant,  \* for each field the value of the last applied call that meant it
  clost,   \* the fields since overwritten by a client that knew no better
  cknown,  \* the setting as each client last read it
  cfresh,  \* whether that is still what the daemon holds
  cat,     \* where each client is: "idle", "merge", "af", "afoff", "restart"
  cfield,  \* the field that a merge in progress is for
  cruns,   \* calls made
  caf,     \* continuous autofocus: "off", "on", "held" on by a oneshot that
           \* runs, or "left" on by one that threw or whose calls were lost
  capp     \* the app: "up", "down", or down and "restarting"

cvars == <<cconf, cmeant, clost, cknown, cfresh, cat, cfield, cruns, caf, capp>>

setting == <<cconf, cmeant, clost, cknown, cfresh, cfield>>

Blank == [f \in CtlFields |-> CtlUnset]

CtlInit ==
  /\ cconf = Blank /\ cmeant = Blank /\ clost = {}
  /\ cknown = [c \in CtlClients |-> Blank]
  /\ cfresh = [c \in CtlClients |-> FALSE]
  /\ cat = [c \in CtlClients |-> "idle"]
  /\ cfield = [c \in CtlClients |-> "f"]
  /\ cruns = [c \in CtlClients |-> 0]
  /\ caf = "off" /\ capp = "up"

(* What the daemon makes of a request, and whether its answer arrives.      *)
Outcomes == [applied : BOOLEAN, answered : BOOLEAN]

(* check_grpc() and require_success(): what the caller takes for success.   *)
require_success(ignores, o) == o.answered /\ (o.applied \/ ignores)

Goes(c, at) == cat' = [cat EXCEPT ![c] = at]

Begins(c) == /\ cat[c] = "idle" /\ cruns[c] < CtlMaxCalls
             /\ cruns' = [cruns EXCEPT ![c] = @ + 1]

(* Client c's write is applied: of the fields of new it means f. Whether it *)
(* knows what the daemon has in the others is informed.                     *)
Stores(c, f, new, informed) ==
  /\ cconf' = new
  /\ cmeant' = [cmeant EXCEPT ![f] = c]
  /\ clost' = (clost \ {f}) \cup {h \in CtlFields \ {f} : new[h] # cconf[h] /\ ~informed}
  /\ cfresh' = [d \in CtlClients |-> FALSE]
  /\ UNCHANGED cknown

Keeps == UNCHANGED <<cconf, cmeant, clost, cfresh, cknown>>

Writes(c, kind, o) ==
  IF o.applied
    THEN \E f \in CtlFields :
           \/ kind = "patch" /\ Stores(c, f, [cconf EXCEPT ![f] = c], TRUE)
           \/ kind = "whole" /\ Stores(c, f, [cknown[c] EXCEPT ![f] = c], cfresh[c])
           \/ kind = "default" /\ Stores(c, f, [Blank EXCEPT ![f] = c], FALSE)
    ELSE kind \in {"patch", "whole", "default"} /\ Keeps

(* A read that ignores the status takes an empty reply for the setting.     *)
Reads(c, ignores, o) ==
  /\ IF require_success(ignores, o)
       THEN /\ cknown' = [cknown EXCEPT ![c] = IF o.applied THEN cconf ELSE Blank]
            /\ cfresh' = [cfresh EXCEPT ![c] = o.applied]
       ELSE UNCHANGED <<cknown, cfresh>>
  /\ UNCHANGED <<cconf, cmeant, clost>>

(* One unary call: the request is applied or refused, and the answer comes  *)
(* or is lost, whether or not it was applied.                               *)
Calling(c) ==
  /\ Begins(c)
  /\ \E class \in {<<call.kind, call.ignores>> : call \in AllCalls}, o \in Outcomes :
       \/ Writes(c, class[1], o)
       \/ class[1] = "read" /\ Reads(c, class[2], o)
       \/ class[1] = "command" /\ Keeps
  /\ UNCHANGED <<cat, cfield, caf, capp>>

(* set_privacy_mask() with some of its fields: reads the whole setting, and *)
(* throws if that fails ...                                                 *)
MergeReads(c) ==
  /\ Begins(c)
  /\ \/ /\ Reads(c, FALSE, [applied |-> TRUE, answered |-> TRUE])
        /\ Goes(c, "merge")
        /\ \E f \in CtlFields : cfield' = [cfield EXCEPT ![c] = f]
     \/ UNCHANGED <<setting, cat>>
  /\ UNCHANGED <<caf, capp>>

(* A plausible bug: what was read is not used.                              *)
FromScratch(current, f, v) == [Blank EXCEPT ![f] = v]

(* ... and writes it back with the given fields replaced.                   *)
merged_privacy_mask(current, f, v) == [current EXCEPT ![f] = v]

MergeWrites(c) ==
  /\ cat[c] = "merge"
  /\ Stores(c, cfield[c], merged_privacy_mask(cknown[c], cfield[c], c), cfresh[c]) \/ Keeps
  /\ Goes(c, "idle")
  /\ UNCHANGED <<cfield, cruns, caf, capp>>

(* oneshot_autofocus(): switches continuous autofocus on, or throws.        *)
AfBegins(c) ==
  /\ Begins(c)
  /\ \/ caf' = "held" /\ Goes(c, "af")
     \/ caf' = "left" /\ UNCHANGED cat
     \/ UNCHANGED <<caf, cat>>
  /\ UNCHANGED <<setting, capp>>

(* A plausible bug: the deadline leaves without switching it off.           *)
GivesUp(c) ==
  /\ cat[c] = "af"
  /\ Goes(c, "afoff") \/ Goes(c, "idle")
  /\ UNCHANGED <<setting, cruns, caf, capp>>

(* The poll ends by convergence or by its deadline, and both switch it off. *)
AfSettles(c) ==
  /\ cat[c] = "af"
  /\ Goes(c, "afoff")
  /\ UNCHANGED <<setting, cruns, caf, capp>>

Abandoned == IF caf = "held" THEN "left" ELSE caf

(* A poll that fails, or that reports a motor error, throws at once.        *)
AfThrows(c) ==
  /\ cat[c] = "af"
  /\ Goes(c, "idle")
  /\ caf' = Abandoned
  /\ UNCHANGED <<setting, cruns, capp>>

(* The call that switches it off is made once, its outcome ignored.         *)
AfEnds(c) ==
  /\ cat[c] = "afoff"
  /\ Goes(c, "idle")
  /\ caf' \in {"off", Abandoned}
  /\ UNCHANGED <<setting, cruns, capp>>

focus_auto(c) ==
  /\ Begins(c)
  /\ caf' \in {"on", "off"}
  /\ UNCHANGED <<setting, cat, capp>>

stop_app(c) ==
  /\ Begins(c)
  /\ capp' \in {"down", capp}
  /\ UNCHANGED <<setting, cat, caf>>

start_app(c) ==
  /\ Begins(c)
  /\ capp' \in {"up", capp}
  /\ UNCHANGED <<setting, cat, caf>>

(* restart_app(): the stop, and if it returned the start.                   *)
RestartStops(c) ==
  /\ Begins(c)
  /\ \/ capp' = "restarting" /\ Goes(c, "restart")
     \/ capp' \in {"down", capp} /\ UNCHANGED cat
  /\ UNCHANGED <<setting, caf>>

RestartStarts(c) ==
  /\ cat[c] = "restart"
  /\ Goes(c, "idle")
  /\ capp' \in {"up", IF capp = "restarting" THEN "down" ELSE capp}
  /\ UNCHANGED <<setting, cruns, caf>>

CtlNext == \E c \in CtlClients :
  \/ Calling(c) \/ MergeReads(c) \/ MergeWrites(c)
  \/ AfBegins(c) \/ AfSettles(c) \/ AfThrows(c) \/ AfEnds(c) \/ focus_auto(c)
  \/ stop_app(c) \/ start_app(c) \/ RestartStops(c) \/ RestartStarts(c)

CtlSpec == CtlInit /\ [][CtlNext]_cvars

-----------------------------------------------------------------------------
(* Partial updates keep what they do not name (camera.hpp:106): a field has *)
(* the value of the last applied call that meant it, unless a client with   *)
(* an outdated view wrote it back, which a merging set_privacy_mask() does  *)
(* only when another write came between its two calls, and a patching call  *)
(* never. A client whose view is the daemon's loses nothing by any call.    *)
NoLostField == \A f \in CtlFields : cconf[f] = cmeant[f] \/ f \in clost

(* oneshot_autofocus() leaves continuous autofocus on only if it threw out  *)
(* of its poll or its first or last call was lost: by converging, and by    *)
(* its timeout, it switches it off, whatever other clients do meanwhile.    *)
(* And an app that restart_app() stopped is started by it, unless the start *)
(* fails or somebody stops the app again.                                   *)
SequencesRestore ==
  /\ caf = "held" => \E c \in CtlClients : cat[c] \in {"af", "afoff"}
  /\ capp = "restarting" => \E c \in CtlClients : cat[c] = "restart"
=============================================================================
