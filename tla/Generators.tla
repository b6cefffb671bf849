----------------------------- MODULE Generators -----------------------------
(***************************************************************************)
(* The script generators of libdrqueue (one file each) and the clients     *)
(* that fill in their parameters, sendjob and drqman.  A generator writes  *)
(* variables before a template of etc/.  Only the names of the variables   *)
(* matter, and of the kind of image whether it is one the generator knows. *)
(***************************************************************************)
EXTENDS FiniteSets

(* needed: parameters without which nothing is written; always: variables  *)
(* written besides; optional: written if given; kinds: kinds of image it   *)
(* accepts, none if it does not ask.                                       *)
Generator(needed, always, optional) ==
  [needed |-> needed, always |-> always, optional |-> optional, kinds |-> {}]
OfKind(generator) == [generator EXCEPT !.kinds = {"animation", "single image"}]

Resolution == {"RESX", "RESY"}
Picture == Resolution \cup {"FFORMAT", "CAMERA"}
Owner == {"RF_OWNER"}

threedelightsg_create == Generator({"SCENE"}, Owner, {})
threedsmaxsg_create == Generator({"SCENE"}, {"DRQUEUE_IMAGE"}, {})
aftereffectssg_create == Generator({"PROJECT", "COMP"}, {}, {})
aqsissg_create == Generator({"SCENE"}, Owner,
  {"CUSTOM_CROP", "CROP_XMIN", "CROP_XMAX", "CROP_YMIN", "CROP_YMAX"})
blendersg_create == OfKind(Generator({"SCENE"}, {}, {}))
cinema4dsg_create == Generator({"SCENE", "RENDERDIR"}, Owner, {})
generalsg_create == Generator({"GENSCRIPT"}, {"OWNER_UID", "OWNER_GID"}, {})
LightwaveWithoutConfig == Generator({"SCENE"}, {"PROJECTDIR"} \cup Owner, Picture)   \* mutant
lightwavesg_create == Generator({"SCENE"}, {"PROJECTDIR", "CONFIGDIR"} \cup Owner, Picture)
luxrendersg_create == Generator({"SCENE"}, {}, {})
mantrasg_create == Generator({"SCENE", "RENDERDIR"}, {"RAYTRACE", "ANTIALIAS"} \cup Owner,
  {"CUSTOM_BUCKET", "CUSTOM_LOD", "CUSTOM_VARYAA", "CUSTOM_BDEPTH", "CUSTOM_ZDEPTH",
   "CUSTOM_CRACKS", "CUSTOM_QUALITY", "CUSTOM_QFINER", "CUSTOM_SMULTIPLIER",
   "CUSTOM_MPCACHE", "CUSTOM_MCACHE", "CUSTOM_SMPOLYGON", "CUSTOM_WH", "CUSTOM_TYPE"})
mayasg_create == Generator({"SCENE", "RENDERDIR", "PROJECTDIR"}, Owner,
  Picture \cup {"DRQUEUE_IMAGE", "RENDERER", "DRQUEUE_POST", "DRQUEUE_PRE"})
mentalraysg_create == OfKind(Generator({"SCENE", "RENDERDIR"}, Owner,
  Picture \cup {"DRQUEUE_IMAGE"}))
nukesg_create == Generator({"SCENE"}, Owner, Picture)
pixiesg_create == Generator({"RIBFILE"}, {}, {})
shakesg_create == Generator({"DRQUEUE_SCRIPT"}, {}, {})
terragensg_create == Generator({"SCENE"}, {"WORLDFILE", "TERRAINFILE"} \cup Owner, Picture)
turtlesg_create == Generator({"SCENE", "RENDERDIR", "PROJECTDIR"}, Owner,
  Picture \cup {"DRQUEUE_IMAGE", "USEMAYA70"})
vraysg_create == Generator({"SCENE"}, {}, {})
xsisg_create == Generator({"SCENE", "RENDERDIR", "XSI_DIR"},
  {"DRQUEUE_PASS", "DRQUEUE_RUNSCRIPT", "DRQUEUE_SKIPFRAMES"} \cup Owner,
  Resolution \cup {"DRQUEUE_IMAGE", "DRQUEUE_IMAGEEXT", "DRQUEUE_SCRIPTRUN"})

----------------------------------------------------------------------------
(* What a client fills in: must, variables it always asks for; may, those  *)
(* it asks for if its user does, or if a field it never sets happens to    *)
(* hold something; kinds, the kinds of image it may ask for; block, the    *)
(* size of the job's blocks; requeues, whether a frame that fails is tried *)
(* again.                                                                  *)
FrontEnd(generator, must, may) ==
  [generator |-> generator, must |-> must, may |-> may, kinds |-> {"animation"},
   block |-> "one", requeues |-> TRUE]
AnyKind == {"animation", "single image", "none"}
ByDrqman(frontEnd) == [frontEnd EXCEPT !.block = "given"]

sendjob_general == FrontEnd(generalsg_create, {}, {})
sendjob_maya == FrontEnd(mayasg_create, {}, mayasg_create.optional)
sendjob_mentalray == [FrontEnd(mentalraysg_create, {}, mentalraysg_create.optional)
                      EXCEPT !.kinds = AnyKind]
sendjob_blender == [FrontEnd(blendersg_create, {}, {})
                    EXCEPT !.kinds = AnyKind, !.block = "step"]
sendjob_lightwave == FrontEnd(lightwavesg_create, {}, lightwavesg_create.optional)
sendjob_terragen == FrontEnd(terragensg_create, {}, terragensg_create.optional)
sendjob_shake == FrontEnd(shakesg_create, {}, {})
sendjob_nuke == FrontEnd(nukesg_create, {}, nukesg_create.optional)
sendjob_threedelight == FrontEnd(threedelightsg_create, {}, {})
sendjob_pixie == FrontEnd(pixiesg_create, {}, {})
sendjob_aftereffects == FrontEnd(aftereffectssg_create, {}, {})
sendjob_aqsis == FrontEnd(aqsissg_create, {}, aqsissg_create.optional)
sendjob_mantra == FrontEnd(mantrasg_create, {}, mantrasg_create.optional)
sendjob_xsi == [FrontEnd(xsisg_create, {}, xsisg_create.optional) EXCEPT !.block = "given"]
sendjob_luxrender == [FrontEnd(luxrendersg_create, {}, {}) EXCEPT !.block = "step"]

drqman_threedelight == ByDrqman(FrontEnd(threedelightsg_create, {}, {}))
drqman_aftereffects == ByDrqman(FrontEnd(aftereffectssg_create, {}, {}))
drqman_aqsis == ByDrqman(FrontEnd(aqsissg_create, {}, aqsissg_create.optional))
drqman_blender == [ByDrqman(FrontEnd(blendersg_create, {}, {}))
                   EXCEPT !.kinds = {"animation", "single image"}]
drqman_lightwave == ByDrqman(FrontEnd(lightwavesg_create, {}, {}))
drqman_luxrender == ByDrqman(FrontEnd(luxrendersg_create, {}, {}))
drqman_mantra == ByDrqman(FrontEnd(mantrasg_create, {}, mantrasg_create.optional))
drqman_maya == ByDrqman(FrontEnd(mayasg_create, {"RENDERER"},
                                 {"DRQUEUE_IMAGE", "DRQUEUE_POST", "DRQUEUE_PRE"}))
drqman_mentalray == ByDrqman(FrontEnd(mentalraysg_create, {}, {"DRQUEUE_IMAGE"}))
drqman_nuke == ByDrqman(FrontEnd(nukesg_create, {}, {}))
drqman_pixie == ByDrqman(FrontEnd(pixiesg_create, {}, {}))
drqman_shake == ByDrqman(FrontEnd(shakesg_create, {}, {}))
drqman_terragen == ByDrqman(FrontEnd(terragensg_create, {}, {}))
drqman_turtle == ByDrqman(FrontEnd(turtlesg_create, {}, turtlesg_create.optional \ {"FFORMAT"}))
drqman_xsi == [ByDrqman(FrontEnd(xsisg_create, {}, xsisg_create.optional))
               EXCEPT !.requeues = FALSE]
(* Generators that only the language bindings call.                        *)
binding_cinema4d == ByDrqman(FrontEnd(cinema4dsg_create, {}, {}))
binding_threedsmax == ByDrqman(FrontEnd(threedsmaxsg_create, {}, {}))
binding_vray == ByDrqman(FrontEnd(vraysg_create, {}, {}))

str2toj ==
  [general |-> sendjob_general, maya |-> sendjob_maya, mentalray |-> sendjob_mentalray,
   blender |-> sendjob_blender, lightwave |-> sendjob_lightwave,
   terragen |-> sendjob_terragen, shake |-> sendjob_shake, nuke |-> sendjob_nuke,
   threedelight |-> sendjob_threedelight, pixie |-> sendjob_pixie,
   aftereffects |-> sendjob_aftereffects, aqsis |-> sendjob_aqsis,
   mantra |-> sendjob_mantra, xsi |-> sendjob_xsi, luxrender |-> sendjob_luxrender]
Drqman ==
  [threedelight |-> drqman_threedelight, aftereffects |-> drqman_aftereffects,
   aqsis |-> drqman_aqsis, blender |-> drqman_blender, lightwave |-> drqman_lightwave,
   luxrender |-> drqman_luxrender, mantra |-> drqman_mantra, maya |-> drqman_maya,
   mentalray |-> drqman_mentalray, nuke |-> drqman_nuke, pixie |-> drqman_pixie,
   shake |-> drqman_shake, terragen |-> drqman_terragen, turtle |-> drqman_turtle,
   xsi |-> drqman_xsi, cinema4d |-> binding_cinema4d,
   threedsmax |-> binding_threedsmax, vray |-> binding_vray]
FrontEndOf(tool, engine) == IF tool = "sendjob" THEN str2toj[engine] ELSE Drqman[engine]

(* The variables a script begins with.  A name is written once.            *)
Written(generator, given, kind) ==
  generator.needed \cup generator.always \cup (given \cap generator.optional)
  \cup (IF kind \in generator.kinds THEN {"RENDER_TYPE"} ELSE {})
Accepts(generator, kind) == generator.kinds = {} \/ kind \in generator.kinds
=============================================================================
