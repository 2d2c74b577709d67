---------------------------- MODULE LayerSettings ----------------------------
(***************************************************************************)
(* Where a layer finds its settings and what it makes of them              *)
(* (utils/utils.cpp, utils/utils.hpp), on Linux.  Pure functions of the    *)
(* environment, `env`, and of the files, `fs`.  A variable that is not set  *)
(* is NULL.                                                                *)
(***************************************************************************)
EXTENDS ApiTypes, FiniteSetsExt

CONSTANTS NoOption     \* a line of a settings file that sets nothing

Default == "cl_layer_settings.txt"  \* in the current directory

\* `fs` maps the paths that exist to a kind, "file" or "dir", and lines.  A
\* line is the key and the value that are left once its comment is cut off
\* and both are trimmed, or NoOption when that leaves no `='.
IsRegular(fs, path) == path \in DOMAIN fs /\ fs[path].kind = "file"

use_file_if_exists(fs, path, found_location) ==
    IF IsRegular(fs, path) THEN path ELSE found_location

\* HOME is not consulted once XDG_DATA_HOME names a directory, with or
\* without settings in it.
platform_settings(env, fs) ==
    CASE env.XDG_DATA_HOME \notin {NULL, ""} ->
            use_file_if_exists(fs,
                env.XDG_DATA_HOME \o "/settings.d/opencl/cl_layer_settings.txt", Default)
      [] env.XDG_DATA_HOME \in {NULL, ""} /\ env.HOME # NULL ->
            use_file_if_exists(fs, env.HOME \o "/.local/share/cl_layer_settings.txt", Default)
      [] OTHER -> Default

\* Fault: the variable of the layers is for when the platform has no settings.
PlatformFirst(env, fs) ==
    LET config_path == env.OPENCL_LAYERS_SETTINGS_PATH
    IN  CASE platform_settings(env, fs) # Default \/ config_path \notin DOMAIN fs ->
                platform_settings(env, fs)
          [] IsRegular(fs, config_path) -> config_path
          [] OTHER -> config_path \o "/cl_layer_settings.txt"

\* The variable of the layers beats the places of the platform as soon as it
\* names something; a directory need not hold a settings file.
find_settings(env, fs) ==
    LET config_path == env.OPENCL_LAYERS_SETTINGS_PATH
    IN  CASE config_path \notin DOMAIN fs -> platform_settings(env, fs)
          [] IsRegular(fs, config_path) -> config_path
          [] OTHER -> config_path \o "/cl_layer_settings.txt"

\* The options of the file, by key; the last line of a key counts.
load_settings(env, fs) ==
    LET path == find_settings(env, fs)
        lines == IF IsRegular(fs, path) THEN fs[path].lines ELSE <<>>
        options == {n \in DOMAIN lines : lines[n] # NoOption}
        last(key) == Max({n \in options : lines[n].key = key})
    IN  [key \in {lines[n].key : n \in options} |-> lines[last(key)].value]

-----------------------------------------------------------------------------
(***************************************************************************)
(* What a value of an option does to the setting it is for, `out`.         *)
(***************************************************************************)

parse_bool(option, out) ==
    CASE option \in {"on", "y", "yes", "1", "true"} -> TRUE
      [] option \in {"off", "n", "no", "0", "false"} -> FALSE
      [] OTHER -> out

\* Fault: what names no sink is taken for one.
ParseAnySink(option, out) == option

parse_log_sink(option, out) == IF option \in {"stdout", "stderr", "file"} THEN option ELSE out

parse_filename(option, out) == option

parse(name, option, out) ==
    CASE name = "log_sink" -> parse_log_sink(option, out)
      [] name = "log_filename" -> parse_filename(option, out)
      [] name = "transparent" -> parse_bool(option, out)

\* The value of the file is parsed, unless it is empty, then that of the
\* environment, empty or not.  A key is the prefix of a layer and the name of
\* an option; the environment has a variable for each, `env.option'.
get_option(env, settings, prefix, name, out) ==
    LET key == <<prefix, name>>
        from_file == IF key \in DOMAIN settings /\ settings[key] # ""
                     THEN parse(name, settings[key], out) ELSE out
    IN  IF env.option[key] # NULL THEN parse(name, env.option[key], from_file) ELSE from_file

DefaultSettings == [log_type |-> "stderr", log_filename |-> "", transparent |-> FALSE]

load(prefix, env, fs) ==
    LET settings == load_settings(env, fs)
        get(name, out) == get_option(env, settings, prefix, name, out)
    IN  [log_type |-> get("log_sink", DefaultSettings.log_type),
         log_filename |-> get("log_filename", DefaultSettings.log_filename),
         transparent |-> get("transparent", DefaultSettings.transparent)]

\* `writable`: the names of the files that can be opened for writing.
init_output_stream(settings, writable) ==
    CASE settings.log_type # "file" -> settings.log_type
      [] settings.log_type = "file" /\ settings.log_filename \in writable -> settings.log_filename
      [] OTHER -> "stderr"
=============================================================================
