---------------------------- MODULE MCConfigStore ----------------------------
\* Three configurations of different lengths: the default, a longer and a
\* shorter one.
EXTENDS ConfigStore

MCLength == "default" :> 2 @@ "long" :> 3 @@ "short" :> 1
===============================================================================
