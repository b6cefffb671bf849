----------------------------- MODULE Templates -----------------------------
(***************************************************************************)
(* The templates of etc/: what a generated script does of a frame.  All    *)
(* read the environment of the task, work out the end of the block, build  *)
(* a command, run it, and on failure send SIGINT to the process that ran   *)
(* them and exit with 1.                                                   *)
(***************************************************************************)
EXTENDS FrameNumbers, Sequences

Windows == "WINDOWS"
Linux == "LINUX"

(* scene: the variable that names what is rendered; others: variables read *)
(* besides; windows: those read on Windows; frames: which frames the       *)
(* command asks for; resized: whether it takes a size of image; fails: the *)
(* systems on which it always stops before the command.                    *)
Template(scene, others, windows, frames) ==
  [scene |-> scene, others |-> others, windows |-> windows, frames |-> frames,
   resized |-> FALSE, fails |-> {}, kinds |-> {"animation", "single image"}]
Resized(template) == [template EXCEPT !.resized = TRUE]

threedelight_sg_py == Template("SCENE", {}, {}, "block")
threedsmax_sg_py == Template("SCENE", {}, {}, "frame")
aftereffects_sg_py == Template("PROJECT", {"COMP"}, {}, "block")
aqsis_sg_py == Template("SCENE", {}, {}, "block")
blender_sg_py == Template("SCENE", {"RENDER_TYPE"}, {}, "frame")
cinema4d_sg_py == [Template("SCENE", {"RENDERDIR"}, {}, "frame") EXCEPT !.fails = {Linux}]
general_sg_py == Template("GENSCRIPT", {}, {}, "frame")
lightwave_sg_py == Template("SCENE", {"PROJECTDIR", "CONFIGDIR"}, {}, "steps")
luxrender_sg_py == Template("SCENE", {}, {}, "scene")
mantra_sg_py == [Template("SCENE", {"RENDERDIR"}, {}, "frame")
                 EXCEPT !.fails = {Linux, Windows}]
maya_sg_py == Resized(Template("SCENE", {"RENDERDIR", "PROJECTDIR", "RENDERER"}, {}, "block"))
mentalray_sg_py == [Resized(Template("SCENE", {"RENDER_TYPE"}, {"RENDERDIR"}, "block"))
                    EXCEPT !.kinds = {"animation"}]
nuke_sg_py == Template("SCENE", {}, {"RENDERDIR"}, "steps")
pixie_sg_py == Template("RIBFILE", {}, {"SCENE", "RENDERDIR"}, "frame")
shake_sg_py == Template("DRQUEUE_SCRIPT", {}, {"SCENE", "RENDERDIR"}, "steps")
terragen_sg_py == Template("SCENE", {"WORLDFILE", "TERRAINFILE"}, {"RENDERDIR"}, "steps")
turtle_sg_py == Resized(Template("SCENE", {"RENDERDIR", "PROJECTDIR"}, {}, "block"))
vray_sg_py == Template("SCENE", {}, {"RENDERDIR", "PROJECTDIR"}, "frame")
xsi_sg_py == Resized(Template("SCENE", {"RENDERDIR", "XSI_DIR", "DRQUEUE_SKIPFRAMES"}, {}, "block"))

TemplateOf ==
  [threedelight |-> threedelight_sg_py, threedsmax |-> threedsmax_sg_py,
   aftereffects |-> aftereffects_sg_py, aqsis |-> aqsis_sg_py, blender |-> blender_sg_py,
   cinema4d |-> cinema4d_sg_py, general |-> general_sg_py, lightwave |-> lightwave_sg_py,
   luxrender |-> luxrender_sg_py, mantra |-> mantra_sg_py, maya |-> maya_sg_py,
   mentalray |-> mentalray_sg_py, nuke |-> nuke_sg_py, pixie |-> pixie_sg_py,
   shake |-> shake_sg_py, terragen |-> terragen_sg_py, turtle |-> turtle_sg_py,
   vray |-> vray_sg_py, xsi |-> xsi_sg_py]

----------------------------------------------------------------------------
(* The end of the block, as every template works it out.                   *)
BlockEndUncapped(t) == t.frame + t.block - 1   \* mutant: past the last frame
BlockEnd(t) == IF t.frame + t.block - 1 > t.end THEN t.end ELSE t.frame + t.block - 1
Frames(template, t) ==       \* none where the engine renders the scene
  IF template.frames = "frame" THEN {t.frame}
  ELSE {n \in t.frame .. BlockEnd(t) :
          \/ template.frames = "block"
          \/ template.frames = "steps" /\ (n - t.frame) % t.step = 0}

(* env: the part of the script that set a name last.  Both tests of a size *)
(* look at RESX; one kind of image needs a module that is not imported.    *)
NamesMissing(template, env, system) ==
  \/ ~ ({template.scene} \cup template.others) \subseteq DOMAIN env
  \/ system = Windows /\ ~ template.windows \subseteq DOMAIN env
  \/ template.resized /\ "RESX" \in DOMAIN env /\ "RESY" \notin DOMAIN env
  \/ "RENDER_TYPE" \in template.others /\ env["RENDER_TYPE"].kind \notin template.kinds

(* The list of the block's frames is read as one number.                   *)
ListIsNumber(t) == Cardinality(PadFrames(t)) = 1

Goes(run) == run.exit = "zero"
Stops(run, exit) == [run EXCEPT !.exit = exit]
RunTemplate(run, template, t, bad) ==
  IF ~ ListIsNumber(t) \/ run.system \in template.fails THEN Stops(run, "error")
  ELSE IF NamesMissing(template, run.env, run.system) THEN Stops(run, "undefined")
  ELSE IF bad THEN Stops(run, "failed")
  ELSE [run EXCEPT !.rendered =
          Append(@, [of |-> run.env[template.scene].by, frames |-> Frames(template, t)])]

(* A script is a sequence of parts, each the variables of a generator or a *)
(* template; what comes after a template that went well is run too.        *)
Names(c, names, kind) == [by |-> c, template |-> "none", names |-> names, kind |-> kind]
Body(c, engine) == [by |-> c, template |-> engine, names |-> {}, kind |-> "none"]

RunPart(run, part, t, bad) ==
  IF ~ Goes(run) THEN run
  ELSE IF part.template = "none"
       THEN [run EXCEPT !.env = [n \in part.names \cup DOMAIN @ |->
                                   IF n \in part.names THEN part ELSE @[n]]]
       ELSE RunTemplate(run, TemplateOf[part.template], t, bad)
Starts(system) == [system |-> system, env |-> <<>>, rendered |-> <<>>, exit |-> "zero"]
RunScript(script, t, system, bad) ==
  LET run[k \in 0 .. Len(script)] ==
        IF k = 0 THEN Starts(system) ELSE RunPart(run[k - 1], script[k], t, bad)
  IN  run[Len(script)]
=============================================================================
