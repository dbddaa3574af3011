--------------------------- MODULE AdaptiveEncode ---------------------------
(***************************************************************************)
(* jcadaptive.c: load an image, extract its features, classify it, choose  *)
(* the number of threads, encode it in strips and write the output file.   *)
(* The encoder is the abstract one of EncodeSpec: it returns a JPEG or     *)
(* nothing.  The classifier is a choice between its two labels, since      *)
(* every pair of probabilities is possible.                                *)
(***************************************************************************)
EXTENDS ImageLoad

CONSTANT ForcedThreads      \* arguments of -threads, -1 when it is not given

ASSUME ForcedAssumption == ForcedThreads \subseteq Int

VARIABLES forced,           \* forced_threads
          apc,
          features,         \* which sample the features take for red; "none" if not computed
          threads,          \* argument of the encoder
          outfile,          \* "absent", "partial", "full"
          exit              \* exit status, -1 while running

mainVars == <<forced, apc, features, threads, outfile, exit>>
vars == <<loadVars, mainVars>>

SIMPLE_THREADS == 2
COMPLEX_THREADS == 4

Init ==
  /\ file \in Files /\ lpc = "idle" /\ held = {} /\ img = NoImage /\ scanline = 0
  /\ forced \in ForcedThreads
  /\ apc = "load" /\ features = "none" /\ threads = 0
  /\ outfile = "absent" /\ exit = -1

MainReturn(status) == apc' = "returned" /\ exit' = status

-----------------------------------------------------------------------------

LoadStep == apc = "load" /\ Load /\ UNCHANGED mainVars

LoadFailed ==
  /\ apc = "load" /\ lpc = "failed"
  /\ MainReturn(1)
  /\ UNCHANGED <<loadVars, forced, features, threads, outfile>>

\* to_grayscale and channel_stats take sample 0 of a pixel for red; without
\* memory for the gray copy all features are zero.
FirstSample ==
  CASE img.color_space = "GRAYSCALE" -> "gray"
    [] img.color_space \in {"RGB", "EXT_RGB"} -> "red"
    [] OTHER -> "blue"

Features ==
  /\ apc = "load" /\ lpc = "loaded"
  /\ features' \in {FirstSample, "zero"}
  /\ apc' = "classify"
  /\ UNCHANGED <<loadVars, forced, threads, outfile, exit>>

\* score() and the choice of the thread count.
Classify ==
  /\ apc = "classify"
  /\ \E label \in {0, 1} :
       threads' = IF forced > 0 THEN forced
                  ELSE IF label = 0 THEN SIMPLE_THREADS ELSE COMPLEX_THREADS
  /\ apc' = "encode"
  /\ UNCHANGED <<loadVars, forced, features, outfile, exit>>

\* jcil_get_max_v_samp_factor gets no memory for its compression object.  Its
\* error manager is the plain jpeg_std_error, whose error_exit ends the process.
SampFactorExits ==
  /\ apc = "encode"
  /\ apc' = "stopped" /\ exit' = 1
  /\ UNCHANGED <<loadVars, forced, features, threads, outfile>>

\* A strip fails after its buffer has grown, and the C library stops the process
\* at the second free (HandlerDoubleFree of StripBuffer).
EncodeAborts ==
  /\ apc = "encode"
  /\ apc' = "stopped"
  /\ UNCHANGED <<loadVars, forced, features, threads, outfile, exit>>

\* jpar_encode_strips_spliced succeeds and its buffer is owned by main.
Encode ==
  /\ apc = "encode"
  /\ held' = held \cup {"jpeg"}
  /\ apc' = "write"
  /\ UNCHANGED <<file, lpc, img, scanline, forced, features, threads, outfile, exit>>

EncodeFails ==
  /\ apc = "encode"
  /\ held' = held \ {"data", "rows"}
  /\ MainReturn(1)
  /\ UNCHANGED <<file, lpc, img, scanline, forced, features, threads, outfile>>

\* Mutant: the error path of the output forgets the JPEG buffer.
WriteFails_Leak ==
  /\ apc = "write"
  /\ outfile' \in {"absent", "partial"}
  /\ held' = held \ {"data", "rows"}
  /\ MainReturn(1)
  /\ UNCHANGED <<file, lpc, img, scanline, forced, features, threads>>

\* fopen fails, or fwrite takes fewer bytes than it was given.
WriteFails ==
  /\ apc = "write"
  /\ outfile' \in {"absent", "partial"}
  /\ held' = held \ {"jpeg", "data", "rows"}
  /\ MainReturn(1)
  /\ UNCHANGED <<file, lpc, img, scanline, forced, features, threads>>

\* fwrite took every byte; everything is released.
Write ==
  /\ apc = "write"
  /\ outfile' = "full"
  /\ held' = held \ {"jpeg", "data", "rows"}
  /\ MainReturn(0)
  /\ UNCHANGED <<file, lpc, img, scanline, forced, features, threads>>

Ended == (apc \in {"returned", "stopped"} \/ lpc = "crashed") /\ UNCHANGED vars

Next ==
  \/ LoadStep \/ LoadFailed \/ Features \/ Classify
  \/ SampFactorExits \/ EncodeAborts \/ Encode \/ EncodeFails
  \/ WriteFails \/ Write \/ Ended

Spec == Init /\ [][Next]_vars

-----------------------------------------------------------------------------

\* Every variable has its type, and the loader never stores a row past the
\* rows array it allocated.
TypeOK ==
  /\ file \in Files
  /\ lpc \in {"idle", "header", "rows", "loaded", "failed", "crashed"}
  /\ held \subseteq {"file", "cinfo", "spng", "data", "rows", "jpeg"}
  /\ img.filled \in 0..img.height /\ scanline \in 0..file.height
  /\ apc \in {"load", "classify", "encode", "write", "returned", "stopped"}
  /\ features \in {"none", "zero", "gray", "red", "blue"}
  /\ threads \in Nat
  /\ exit \in {-1, 0, 1}

\* Wherever main returns, each file, libjpeg object and buffer that it or the
\* loader acquired has been released.  One thing may be left: the context of a
\* PNG that failed to load, since the loader's error paths do not call
\* finish_input.  Where the process is stopped inside a call of main's, the image
\* is still there, but no file is open and the output has not been touched.
ReturnsWithPngContextAtMost ==
  /\ apc = "returned" =>
       held \subseteq (IF file.format = "png" /\ lpc = "failed" THEN {"spng"} ELSE {})
  /\ apc = "stopped" => held = {"data", "rows"} /\ outfile = "absent"

\* The encoder is only called with an image whose every row was filled in, and
\* the libjpeg object and file of the loader are gone by then.
EncodesLoadedRows ==
  apc \in {"classify", "encode"} =>
    /\ img.filled = file.height /\ img.height = file.height
    /\ held = {"data", "rows"}

\* jcfeatures.h: rows hold "1 = grayscale, 3 = RGB", and feature 4 is the "red
\* channel pixel variance".
RedIsRed == features # "blue"

\* jcimageload.h names PNG among the "Supported formats" and promises FALSE
\* "if the file can't be decoded": loading a file never stops the process.
LoaderReturns == lpc # "crashed"

=============================================================================
