---------------------------- MODULE FilesystemMC ----------------------------
(* Instances of Filesystem for TLC.                                         *)
EXTENDS Filesystem

\* Two names that can each be a file or a directory with one entry, and a backup name.
MCPaths == {<<"d">>, <<"b">>, <<"d", "a">>, <<"b", "a">>, <<"T">>}
MCBackups == {<<"T">>}

\* A directory with a file beside a file, and beside an empty directory.
Volume(kinds, files) ==
    [p \in MCPaths |-> IF p \in kinds THEN Directory
                       ELSE IF \E i \in DOMAIN files : files[i] = p
                            THEN Regular(CHOOSE i \in DOMAIN files : files[i] = p, 0) ELSE Absent]
MCFormatted == {Volume({<<"d">>}, <<<<"d", "a">>, <<"b">>>>),
                Volume({<<"d">>, <<"b">>}, <<<<"d", "a">>>>)}

Flag(r, w, c, t) == [read |-> r, write |-> w, create |-> c, truncate |-> t]
\* O_RDONLY|O_CREAT; O_WRONLY|O_TRUNC; O_RDWR|O_CREAT
MCFlags == {Flag(TRUE, FALSE, TRUE, FALSE), Flag(FALSE, TRUE, FALSE, TRUE), Flag(TRUE, TRUE, TRUE, FALSE)}

Argument(abs, path) == [absolute |-> abs, path |-> path]
MCTargets == {Argument(TRUE, <<>>), Argument(TRUE, <<"d">>), Argument(FALSE, <<"..">>),
              Argument(FALSE, <<"..", "b">>), Argument(FALSE, <<".", "a", "..">>)}

=============================================================================
