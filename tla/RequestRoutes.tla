---------------------------- MODULE RequestRoutes ----------------------------
(***************************************************************************)
(* request_route_table: the handler of a request is found by its scheme,   *)
(* its method and its path, in nested maps that the routes are registered  *)
(* in one by one.  The uri of a request is the sequence of its parts       *)
(* between question marks; a handler is its name.                          *)
(***************************************************************************)
EXTENDS Sequences, SequencesExt, TLC

Route(scheme, method, path, handler) ==
  [scheme |-> scheme, method |-> method, path |-> path, handler |-> handler]

At(map, key) == IF key \in DOMAIN map THEN map[key] ELSE <<>>

RegisterRequestRoute(table, route) ==
  LET methods == At(table, route.scheme)
      paths   == At(methods, route.method)
  IN  (route.scheme :> ((route.method :> ((route.path :> route.handler) @@ paths))
                        @@ methods))
      @@ table

(* The path of a request is its uri up to the first question mark.  A path that
   is not registered is served by the route "*", if its method has one. *)
QueryHandler(table, req) ==
  IF req.scheme \notin DOMAIN table THEN "UNKNOWN_SCHEME"
  ELSE IF req.method \notin DOMAIN table[req.scheme] THEN "UNKNOWN_METHOD"
  ELSE LET paths == table[req.scheme][req.method]
           path  == Head(req.uri)
       IN  IF path \in DOMAIN paths THEN paths[path]
           ELSE IF "*" \in DOMAIN paths THEN paths["*"]
           ELSE "UNKNOWN_PATH"

(* The routes of ap_airplay_connection, in the order of their registration. *)
AirPlayRoutes == <<
  Route("RTSP", "OPTIONS", "", "options_handler"),
  Route("RTSP", "POST", "/pair-setup", "post_pair_setup_handler"),
  Route("RTSP", "POST", "/pair-verify", "post_pair_verify_handler"),
  Route("RTSP", "POST", "/fp-setup", "post_fp_setup_handler"),
  Route("RTSP", "SETUP", "*", "setup_handler"),
  Route("RTSP", "GET", "/info", "get_info_handler"),
  Route("RTSP", "POST", "/feedback", "post_feedback_handler"),
  Route("RTSP", "RECORD", "*", "record_handler"),
  Route("RTSP", "GET_PARAMETER", "*", "get_parameter_handler"),
  Route("RTSP", "SET_PARAMETER", "*", "set_parameter_handler"),
  Route("RTSP", "TEARDOWN", "*", "teardown_handler"),
  Route("RTSP", "FLUSH", "*", "flush_handler"),
  Route("RTSP", "POST", "/audioMode", "post_audioMode"),
  Route("HTTP", "GET", "/server-info", "get_server_info_handler"),
  Route("HTTP", "POST", "/fp-setup", "post_fp_setup_handler"),
  Route("HTTP", "POST", "/fp-setup2", "post_fp_setup2_handler"),
  Route("HTTP", "POST", "/reverse", "post_reverse_handler"),
  Route("HTTP", "POST", "/play", "post_play_handler"),
  Route("HTTP", "POST", "/scrub", "post_scrub_handler"),
  Route("HTTP", "POST", "/rate", "post_rate_handler"),
  Route("HTTP", "POST", "/stop", "post_stop_handler"),
  Route("HTTP", "POST", "/action", "post_action_handler"),
  Route("HTTP", "GET", "/playback-info", "get_playback_info_handler"),
  Route("HTTP", "PUT", "/setProperty", "put_setProperty_handler"),
  Route("HTTP", "POST", "/getProperty", "post_getProperty_handler")>>

(* The route of ap_casting_media_http_connection. *)
MediaRoutes == <<Route("HTTP", "GET", "*", "get_handler")>>

InitializeRequestHandlers(routes) == FoldLeft(RegisterRequestRoute, <<>>, routes)
=============================================================================
