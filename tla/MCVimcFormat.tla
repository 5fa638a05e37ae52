---------------------------- MODULE MCVimcFormat ----------------------------
(***************************************************************************)
(* Constants for the runs of VimcFormat: a sensor, a debayer, a scaler that *)
(* doubles, a capture device; four codes, sides of 2 to 8 pixels.  The      *)
(* requests hold two sizes that fit together along the whole pipeline, and  *)
(* what has to be adjusted: sides out of range or odd, codes nobody or only *)
(* others know, fields and colorimetry that are not supported.              *)
(***************************************************************************)
EXTENDS VimcFormat

MCKinds == <<"cap", "sca", "deb", "sen">>
MCBpp == [rgb |-> 3, argb |-> 4, bayer |-> 2, packed |-> 1]
MCPixelFormat == [rgb |-> "RGB3", argb |-> "BA24", bayer |-> "BG12", packed |-> "BA81"]
MCBayer == {"bayer", "packed"}
MCPixMap == <<"rgb", "argb", "packed", "bayer">>
MCDebMap == <<"bayer">>
MCOrder == [bayer |-> <<<<"green", "red">>, <<"blue", "green">>>>]
MCScenes == {[red |-> 200, green |-> 7, blue |-> 255]}

Ask(code, w, h, field, space, enc) ==
    [code |-> code, width |-> w, height |-> h, field |-> field,
     colorspace |-> space, enc |-> enc]

\* Raw formats, as a sensor makes them and a debayer takes them.
Raw == {Ask("bayer", 5, 2, "any", "known", "invalid"),
        Ask("bayer", 1, 3, "interlaced", "default", "known"),
        Ask("packed", 4, 2, "alternate", "invalid", "known")}

MCRequests ==
    [sen |-> Raw,
     deb |-> Raw,
     sca |-> {Ask("rgb", 4, 2, "none", "default", "known"),
              Ask("rgb", 2, 2, "none", "other", "other"),
              Ask("bayer", 9, 0, "alternate", "known", "known")},
     cap |-> {Ask("unknown", 9, 4, "none", "known", "known"),
              Ask("rgb", 4, 4, "any", "other", "default"),
              Ask("argb", 0, 9, "interlaced", "invalid", "other")}]

Scaler == {2}
=============================================================================
