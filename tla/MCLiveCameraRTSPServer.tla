----------------------- MODULE MCLiveCameraRTSPServer -----------------------
(***************************************************************************)
(* The life of the process, with the configuration files it may be given.  *)
(***************************************************************************)
EXTENDS LiveCameraRTSPServer, YamlConfigLoader

\* Whatever file main() is given, the server gets the cameras that the file
\* names, if load succeeds (YamlConfigLoader.cpp:52-262, main.cpp:36-50).
ConfiguredAsNamed ==
    mainAt = "setup" => \A document \in Documents : LoadsWhatIsNamed(document)
=============================================================================
