------------------------------- MODULE MCVfs --------------------------------
(* Two processes, two names, three archives: a good one, one that names a  *)
(* file under a file, one that is cut short.                               *)
EXTENDS Vfs
Path(abs, names, slash) == [abs |-> abs, names |-> names, slash |-> slash]
MCPaths == {Path(TRUE, <<"a">>, FALSE), Path(TRUE, <<"a", "b">>, FALSE),
            Path(FALSE, <<"..", "b">>, TRUE)}
MCOpenFlags == {{"RDONLY"}, {"RDONLY", "DIRECTORY", "TRUNC"},
                {"WRONLY", "CREAT", "EXCL", "APPEND", "CLOEXEC"},
                {"RDWR", "CREAT", "TRUNC"}}
Member(names, type) == [abs |-> FALSE, path |-> names, type |-> type, size |-> 1,
                        sound |-> TRUE]
MCArchives == {
    [members |-> <<Member(<<".">>, "dir"), Member(<<"b">>, "reg")>>,
     trailer |-> TRUE],
    [members |-> <<Member(<<"b">>, "reg"), Member(<<"b", "a">>, "reg")>>,
     trailer |-> TRUE],
    [members |-> <<Member(<<"b", "a">>, "reg"), Member(<<"b">>, "dir")>>,
     trailer |-> FALSE]}
\* One action at a time, and lists of two and three in which a later action
\* uses, undoes or fails after an earlier one.
Dup2(source, fd) == [type |-> "dup2", fd |-> fd, source |-> source]
Close(fd) == [type |-> "close", fd |-> fd]
Open(fd, p, flags) == [type |-> "open", fd |-> fd, path |-> p, flags |-> flags]
Create == {"WRONLY", "CREAT", "EXCL", "APPEND", "CLOEXEC"}
FileA == Path(TRUE, <<"a">>, FALSE)
MCSpawnLists ==
    {<<Open(fd, p, flags)>> : fd \in {0, 1, 2}, p \in MCPaths, flags \in MCOpenFlags}
    \cup
    {<<>>, <<Dup2(0, 1)>>, <<Dup2(1, 0)>>, <<Dup2(0, 2)>>, <<Dup2(2, 0)>>, <<Close(0)>>,
     <<Close(2)>>, <<Close(-1)>>, <<Open(-1, FileA, Create)>>,
     <<Dup2(0, 1), Close(0)>>, <<Close(0), Close(0)>>, <<Close(0), Dup2(1, 0), Close(1)>>,
     <<Close(1), Open(1, FileA, Create)>>,
     <<Open(1, FileA, {"RDWR", "CREAT", "TRUNC"}), Dup2(1, 0), Close(2)>>}
MCMaxCalls == [name |-> 3, open |-> 3, data |-> 2]
Symmetry == Permutations(Tables)
=============================================================================
