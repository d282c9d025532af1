# A verification project for Rustify, a Bitcoin testnet node

Rustify is a light Bitcoin node written in Rust: it connects to one peer, downloads the headers and
the blocks since a date, keeps following the chain, serves other nodes and drives a wallet with a
GTK interface. The modules here describe its behaviour in TLA+. TLC checks them on small instances
and TLAPS proves the main invariants for every value of the constants. Names are those of the
source, in Spanish; `PROJECT.json` maps every definition to the lines it stands for.

## 1. The system

### Threads and what they share

| Thread | Code | State it owns |
|---|---|---|
| main, then wallet loop | `main.rs`, `wallet_events.rs`, `account.rs`, `wallet.rs`, `utxo.rs` | UTXO set, accounts, lists of pending, sent and received transactions, wallet file |
| download workers (only during the start) | `threadpool.rs`, `block.rs` | one connection each; they share the receiving end of the channel of headers |
| listener | `node.rs`, `message_handler.rs` | the connection with the peer; appends to the headers vector and file, writes block files |
| server: accept loop, one handler per client | `server.rs`, `server_messages.rs` | register of clients, index from hash to height |
| server: notifications | `server_notification.rs` | none of its own |
| GUI | `gui.rs`, `gui_events.rs`, `txn_info.rs` | the widgets: aliases and the one selected, the copy of an account that is shown |
| logger | `logger.rs` | none that matters |

They share, behind `Arc<Mutex<_>>`, the headers vector (listener writes, handlers read), the header
index (handlers), the memory of transactions (listener writes, handlers read) and the register of
clients (accept loop, notifications). They talk over unbounded `mpsc` channels: to the wallet, the
GUI, the notifications and the logger. Through the disk they share the headers file (start and
listener) and the blocks directory (workers and listener write; `obtain_utxo` and the handlers read).

### Components, operations and what makes them correct

* **Header synchronisation and restart** (`block_header.rs`, `getheaders.rs`, `node.rs`, `main.rs`).
  Load the headers file, ask for what follows page by page, save each header, choose the blocks to
  download. Correct when the file survives any death of the process, when no header is lost between
  the synchronisation and the listener (but those the listener drops while it awaits a block), and
  when every recent header gets its block. *Module `ChainSync`.*
* **Block download** (`threadpool.rs`, `block.rs`). Workers take headers from a shared channel, ask
  their own peer for the block and store it. Correct when each header has one owner, a failure costs
  one header, and the download ends. *Module `ThreadPool`.*
* **Listener** (`node.rs`, `message_handler.rs`, `inv.rs`). Wait for an inventory, ask for what it
  lists, wait for the answers, validate a block and pass it on. Correct when memory, file, disk, GUI
  and wallet agree whatever fails, and when every inventory is handled to the end. *Modules
  `Listener`, `CadenaPublicada`.*
* **getheaders service** (`server.rs`, `server_messages.rs`). Bring the index up to date and answer.
  Correct when the index matches the vector and the answer is the one asked for. *Module
  `HeaderIndex`.*
* **Server: connections, handshake, getdata, notifications** (`server.rs`, `server_messages.rs`,
  `server_notification.rs`). Register of clients, handler per client, announcements from the listener.
  Correct when whoever is registered hears of everything in order, a client that asks for what was
  announced gets it if the node obtained it, and no request waits for ever for a lock. *Modules
  `Server`, `Difusion`.*
* **UTXO set** (`utxo.rs`). Built from the blocks directory at the start, then updated per block
  event. Correct when both ways give the same set although the listener writes meanwhile. *Modules
  `Utxo` (the set), `Wallet` (its start and its updates).*
* **Wallet** (`wallet_events.rs`, `account.rs`, `wallet.rs`, `wallet_txn.rs`). Pending and confirmed
  transactions, choice of inputs, wallet file. Correct when balances follow the chain, a transfer
  spends what its sender has, what a block confirms stops being pending, and the file has what the
  memory has. *Module `Wallet`.*
* **Block validation** (`serialized_block.rs`, `block_validation.rs`, `txn.rs`, `txin.rs`,
  `txout.rs`, `compactsize.rs`). Read the bytes of a block, compare its hash with the target and its
  Merkle root with that of its transactions; build the Merkle path of a transaction. Correct when
  exactly the valid blocks are accepted, and when every path leads to its root. *Modules
  `Validacion`, with the operators of `CompactSize`, `Transaccion`, `ProofOfWork` and `Merkle`.*
* **Connection and handshake** (`node.rs`, `version.rs`). Choose an address of the DNS seed, try it
  up to `cant_retries` times, exchange version and verack. Correct when it ends, with a connection or
  with an error. *In `ThreadPool`, which makes one connection per worker.*
* **GUI** (`gui.rs`, `gui_events.rs`). What the user does becomes events for the wallet, what the
  wallet does becomes events for the window. Correct when no `unwrap` fails in any order of them,
  and when the window ends by showing what the wallet has. Both hold with exceptions, which the
  properties name. *Modules `Ventana`, `ArchivoCuentas`.*
* Configuration, logger, errors and the byte layout of the other messages are not modelled: they are
  input parsing and output. The configuration keys that change behaviour are constants.

### What is hard here

* **Partial failure.** `validar_bloque` makes five changes in a row, each of which may fail, and a
  failure ends the thread while the rest of the program goes on.
* **Messages matched by command only.** An answer is whatever message has the awaited command; all
  the others are dropped for good. No read has a timeout.
* **Crashes.** The headers file and the blocks directory are written in place, without a journal.
* **Shared state.** Five threads share a vector, a map and a directory, and hold locks across writes
  to sockets and files.
* **Numeric edges.** Indices computed from two sources, unsigned subtractions, capacities of zero.
* **Text and bytes that must read back.** The wallet file is words that the user typed; the reader of
  a block looks further ahead than what it reads.

`PROJECT.json` lists each hazard at its line with the properties that watch it, or the reason why none
does.

## 2. The modules

| Module | Models | Checked by |
|---|---|---|
| `Listener` | the listener thread, its peer, the disk, the channels, a handler that reads the vector | `MCListener`, two configurations |
| `CadenaPublicada` | the abstract chain that `Listener` implements | refinement `Refina` |
| `Listener_proofs` | TLAPS proofs about `Listener` | tlapm |
| `ThreadPool` | main thread with its tries to connect and its handshakes, workers, channel and mutex of the download | one configuration |
| `ThreadPool_proofs` | TLAPS proofs about `ThreadPool` | tlapm |
| `HeaderIndex` | handlers that answer getheaders, the index, two mutexes, the listener's push | `MCHeaderIndex`, one configuration |
| `HeaderIndex_proofs` | TLAPS proofs about `HeaderIndex` | tlapm |
| `ChainSync` | start, synchronisation, download, listener and death of the process | `MCChainSync`, one configuration |
| `ChainSync_proofs` | TLAPS proofs about `ChainSync` | tlapm |
| `Server` | the accept loop, the register, a handler per connection, the notifications, the listener's side of what they share | `MCServer`, one configuration |
| `Difusion` | the abstract publication that `Server` implements | refinement `Refina` |
| `Server_proofs` | TLAPS proofs about `Server` | tlapm |
| `Utxo` | the set of unspent outputs, as operators, and the reference definition of it for a chain | through `Wallet` |
| `Wallet` | start of the set and of the accounts, loop of events, wallet file, failed saves, death of the process | `MCWallet`, two configurations |
| `Wallet_proofs` | TLAPS proofs about `Wallet` | tlapm |
| `ArchivoCuentas` | the text of the wallet file, as operators: what is written and how it is read | through `Ventana` |
| `Ventana` | the user, the window, the two channels between it and the wallet, the listener's events, restarts | `MCVentana`, two configurations; the one that passes through `MCVentanaLegible` |
| `Ventana_proofs` | TLAPS proofs about `Ventana` and `ArchivoCuentas` | tlapm |
| `Potencias` | powers as a recursive function, which the provers can reason about | through `CompactSize` and `Merkle` |
| `CompactSize`, `Transaccion` | the numbers of variable length and the layout of a transaction, as operators | through `Validacion` |
| `ProofOfWork`, `Merkle` | target and comparison; levels of the tree, fold of a path, and the reference definition of the root | through `Validacion` |
| `Validacion` | the life of a block that arrives: parsing, proof of work, proof of inclusion, Merkle path | `MCValidacion`, two configurations |
| `Validacion_proofs` | TLAPS proofs about `Validacion` and its operators | tlapm |

Definitions whose comment starts with *Variant* are not part of the specifications. Each is a
plausible bug of the definition that follows it; put in its place, it must break the property that
watches that code.

### `Listener`

`pc` says where the thread is. The values `"inv"`, `"block"` and `"tx"` are waits in
`handle_specific_message` for that command; the others are points between two calls that change
state or may fail. One action is one such call: `AceptarBloque` sends to the GUI with the lock taken,
`EscribirHeader` appends to the file, `AgregarHeader` pushes, `CrearArchivo` and `EscribirBloque`
are the two halves of `guardar_bloque_memoria`, `EnviarBloque` sends to the wallet. `Fallar` is the
`?` of any of them. `ConCandado` are the points at which the headers vector is locked; `LeerHeaders`
is a handler of the server that locks it.

Data is abstracted as follows. A header is identified with its block, since the Merkle root binds
them. The proof of work and of inclusion is the constant set `Validos`; payloads that do not parse
are `Ilegibles`. Messages are records with a command. Channels keep everything ever sent, so that
properties can speak of their history.

The peer is modelled from how the code uses it. It announces any inventory at any time, answers
requests in order, may lack an item, and may close. `Disponibles` is what it can deliver.

### `ThreadPool`

A header is its position in the list. `main` and `pc[w]` are the program counters of the main thread
and of the workers. `candado` is the mutex of the receiver: a worker holds it while it blocks in
`recv`, and drops it with the statement (`receiver.lock()?.recv()`). An error of the network while
the block is awaited is logged and costs the header; an error of a write to the socket or the disk
ends the worker. `Join` ignores how a worker ended.

The main thread connects and shakes hands for each worker before it spawns the next one (`ConsultarDns`
to `Construir`). `server` is what the DNS seed answered, by kinds of addresses; the code draws one until
it is an IPv4 one, so `Conectar` and `FallaConectar` need `"ipv4" \in server`, and each failure
uses up one of `intentos`. A failed step of the handshake is `ErrorAlConstruir`: it drops the sender,
and the workers built so far must find the channel closed. `getheaders` and the listener make their
connection with the same functions.

### `HeaderIndex`

A handler takes the mutex of the vector and then that of the map, twice per request: to update the
map, and to build the answer, which it writes to the socket with both held. `alturas` is the
`HashMap`. The vector may hold a header twice, as the listener does not look for duplicates, so that
the map may be smaller than the vector from which it is updated starting at its own size.

### `ChainSync`

The state is split into the connection, the disk and the process; `Terminar` clears all but the disk
(and the peer's chain). A line of the headers file is the sequence of the headers written in it, and
`abierta` says that its last line lacks the newline, because `writeln!` makes two writes. `Caer` is
any end of the process: a kill, or an error that `main` turns into `exit(1)`. The download is the
result of `ThreadPool` (each block is stored or not); the listener is `Listener` with a peer that
sends valid blocks, and here it competes with `obtain_utxo`, which fails on half a block and without a
directory to read (`HayDirectorio`: the first block stored creates it). The peer announces a block
whenever its chain grows, whatever the node is doing. Two histories keep what the code gives up:
`omitidos`, the blocks that no peer delivered, and `perdidos`, those whose announcement `Descartar`
dropped while another block was awaited.

### `Utxo` and `Wallet`

`Utxo` has the two ways to the set: `ObtenerInputs` and `ObtenerUtxos` from a reading of the
directory, `Actualizar` from a block. `Impagos` is what the set must be for a chain. A transaction is
a record of the outputs it spends and those it creates, and is its own hash.

`Wallet` follows the main thread with `pc`: `"abrir"`, `"inputs"`, `"outputs"` and `"cargar"` are
the start (`obtain_utxo`, `cargar_wallets_inicio`); `"espera"` is the loop of `iniciar_wallet`;
`"transmitida"` lies between the broadcast of a transfer and its entry in the lists; `"escribir"`
comes before a save. The listener's thread is `LlegaBloque`, which writes the block to the directory, and
`EnviarBloque`, which sends the event; the main thread may run in between. `read_dir` is lazy: each of
the two readings gives the files that were there when it was opened and any of those that came later
(`Lecturas`).

An event that ends in a save takes two steps: `CambiarYGuardar` changes the accounts, and then the
save succeeds (`Escribir`), cannot open its file (`FallaApertura`: logged only) or fails in the
middle (`FallaEscritura`). `previas` are the accounts that stay after a failure: those of before for
the events that work on a copy and return the error, the new ones for the others. A save removes
the file before it writes it, and `GuardarAMedias` is what a failure or a death leaves: the old
file, none, or some of the accounts and perhaps half a line (`roto`), on which the next `load`
panics.

Amounts are whole numbers, where the code has `f64`. An account is its address, which stands for its
alias and keys. The lists of transactions are bags, since the code searches them and never uses their
order. `hora` is the lock time, the second of the transfer, without which two equal transfers would be
the same transaction. The events of the GUI are not queued: the user asks at any moment of `"espera"`.
Half a block file during `obtain_utxo` is in `ChainSync` and not here.

### `Server` and `Difusion`

`cliente[c]` is a connection for who opened it, `pc[c]` for the thread that handles it. `Aceptar`
waits for the register, as `accept` is followed by `agregar_cliente_en_vector_conexiones`: a client
is announced to before its handshake is over (`Saludar`, one step, since a handler waits for nobody
but its client in it). `TomarAviso` locks the register until `TerminarRonda`; the writes in between are
one per client, in any order (the register is a `HashMap`), and `caidos` is `clientes_caidos`. A write
ends when its client reads or hangs up, and after that the error shows at once or not, as with TCP.

A handler takes any message of `Mensajes[c]`. `ArmarHeaders` locks the headers vector until the
answer is written; what the answer says is in `HeaderIndex`. A getdata is answered item by item:
`BuscarItem` reads the file or the memory, `Responder` and `PerderRespuesta` are the two ends of the
write. `Ignorar` leaves the payload of a message in the stream, which `LeerDesfasado` takes for the
header of the next one.

The listener is `Listener` reduced to what the server sees: the header pushed and the two halves of
the file's write with the vector locked, the memory of transactions, the channel. `Entregas` pairs
what the peer announces with what it delivers for it, any number of times: the same block or
transaction again, another one, or nothing (`NoSeObtiene`: a block that is rejected, a transaction that
does not come), and whatever came of it the inventory is sent on as it was (`Notificar`). `logrados`
keeps which of them were obtained. What a client knows is kept in `oidos` (the announcements written to
it) and `conoce` (which items of its getdata it had heard of, and the node had obtained), so that the
properties can speak of what was announced to whom.

`Difusion` is the promise: items are published in an order, and a client hears all of them from
some point on, each once and in that order, until it leaves, whatever others do.

### `Validacion` and its operators

A byte is a number below `Base`; the markers of `CompactSize` are its last three values, and `Tope(n)`
is how many numbers `n` bytes can write. A block has the fields of its header that are looked at, and bytes. What its sender meant (`txns`, `sobrantes`) is
kept beside them, and only the properties read it: they compare what the code makes of the bytes with
what was written in them. `pc` names the function that runs; one action is one turn of its loop or
recursion. A transaction is its version and its scripts; the fields of fixed length are zeros.
`LeerNumero` takes a slice of `Mirada` bytes for a number that may have one, as the code does, and
`Fuera` is a slice out of range, which panics. In `ProofOfWork` a hash is `LargoTarget` bytes and the
target is built byte by byte; `Trabaja` says the same with numbers. In `Merkle` a hash is what was
hashed; the code builds the tree bottom up in two functions, one for the root
(`ReducirNivel`) and one for the path (`CrecerArbol`), and the reference `RaizDe` reads it from the root.
`Listener` has the verdict of all this as the constant sets `Validos` and `Ilegibles`.

### `Ventana` and `ArchivoCuentas`

The file is lines of words, as `split_whitespace` sees them; a word is a sequence of pieces, which is
what `replace(' ', "_")` joins. What the user types is a sequence of words, so that an empty text is
none, and a line with an empty label is a word short. `Cargar` folds the lines as `load` does:
`Encabezado` looks for the keywords anywhere in a line and in the order of the code, an entry goes to
the section and the account last seen, an index out of range (`entera` = FALSE) panics. `Legible` says which words such a
file can give back.

`ventana` is the state of the widgets: the aliases listed and the one selected, whether the pages
react (`sensible`), the account shown, the last Merkle proof asked for. `Agregar`, `Elegir`, `Enviar`,
`PedirPrueba` and `Cerrar` are callbacks; `Atender` is `recv_gui`. `canal` and `avisos` are the two
channels; a failed `unwrap` is `Panico`, which names its function and ends the process. On the wallet's
side an event is one step, with its save, which succeeds; failures in a save, what the outputs are worth and
the choice of inputs are in `Wallet`. `Pagos` are the texts that the user may type to pay to, which nobody
looks at (`gui.rs:131`), with the address that each pays in the end; those of `Cortas` decode to fewer bytes
than a checksum, and a transfer to one of them panics (`TransferirACorta`, `account.rs:67`). Otherwise a
transfer is accepted or not, with or without change. An available balance with its unspent outputs is
known by the blocks that it takes into account: `aplicados` are those that `update_utxo` has applied, and
`saldo`, in a notice and in the window, those that it had applied when the copy was made. The pending
balance is left out: each of its changes sends a notice (`wallet_events.rs:217-224`, `267-277`, `387-392`). A transaction and a block are one pass
(`Recorrer`) over the outputs and, for each, the accounts (`Visitas`); the order in which a `HashMap` gives these is
any (`SetToSeqs`). `Aviso` carries the alias of the account for the properties only: the code sends the
account alone, and the window shows it whatever is selected.

## 3. The runs

Passing runs:

| Run | Bounds | What it shows |
|---|---|---|
| `listener_seguridad` | 5 blocks (one invalid, one that does not parse), 3 transactions, 10 shapes of inventory, 3 unsolicited messages | every interleaving of peer, failures and readers keeps memory, file, disk, GUI and wallet in step; refinement |
| `listener_respuestas` | 5 inventories, one block and one transaction missing, 3 messages | with a peer that answers every item, every inv is handled to the end, and a valid block that is announced is stored |
| `threadpool_descarga` | 3 workers, 3 headers, 2 tries to connect, 3 answers of the DNS seed, any failures | one owner per header; the download and its threads end, whatever fails |
| `headerindex_getheaders` | 2 handlers, vector up to 4 with duplicates, pages of 2, 4 kinds of request | index and answers right, no deadlock |
| `chainsync_reinicios` | chain grows from 3 to 6, pages of 2, up to 3 deaths | the file survives, no block is lost but those announced while another is awaited, none is forgotten, and the node catches up once a block is stored |
| `server_clientes` | 2 connections, 1 message each, 1 block that comes or is rejected, 2 transactions of which either may come for one announced, 2 announcements, memory for 1 | announcements in order, what is announced and obtained is served, every request ends; refinement |
| `wallet_cuentas` | chain grows from 1 to 3, 2 accounts, 2 transactions of others, 1 transfer, 1 failed save or death | the set of outputs converges to the chain's, accounts and file follow it |
| `validacion_bloques` | bytes of base 5, targets of 6; hashes around each target, exponents from 0 to 7; 1 to 9 transactions and lists with repetitions; scripts around each boundary of their length | exactly the valid blocks are accepted, every path leads to its root |
| `ventana_cuentas` | 2 aliases, 2 addresses and one that is not valid, a file with one account or none; 1 account added, 1 transfer with or without change, 1 transaction of others, 1 block, 2 texts to pay to of which one is empty, 2 processes; the user acts with fewer than 2 events queued; 1 pending transaction shown | with words that the file can hold: nothing fails but the transfer to a text too short; the window ends with the lists of the wallet, and with its balance but for blocks that spend without paying the account; the file reads back as the memory |

Why the bounds are enough. In `Listener` three messages allow an inv before, during and after the
handling of another, and the capacity of two makes the memory of transactions drop its oldest. Three
workers and three headers allow a worker that idles, one that dies and one that goes on. Four
headers and two handlers let one handler update the map between the two locked sections of the
other, and a page of two cuts an answer short. Six headers in pages of two give full, partial and
empty pages, and three deaths a death during the recovery from another. In `Server` two arrivals
allow one that pushes the other out of the memory (or the same one again), a block that comes twice, is
rejected after it came or the other way round, and one that comes during the round of the other; two clients, one that leaves in a round while the other listens, or that holds the vector while
the other and the listener wait for it. In `Wallet` two new blocks
allow one that the readings of the directory catch and one that they miss, or one that only one of
the two readings catches; one of the transactions of others pays an account twice, and the other
spends an output of the first, perhaps in the same block; the base has two outputs of an account, so
that a transfer has two choices of inputs, of which one leaves no change. In `Validacion` a base of 5
puts the four forms of a length within scripts of 625 bytes, a target of 6 leaves exponents out of
range at both ends, and nine transactions give a tree that is odd at several levels. In `Ventana` the
two aliases may have the same address, so that an account pays another or itself; the
transaction of others pays an account twice; the account added may be the one that the file has; and two
queued events let an answer cross a selection. The queues may grow beyond that by the listener and the wallet.

Runs in which a statement of the documentation is refuted:

| Run | Statement | What happens |
|---|---|---|
| `wallet_sin_vuelto` | `wallet_events.rs:353-355`, `account.rs:151-153` a transaction of the block leaves the pending ones | only outputs to the account are looked at: a transfer without change stays pending for ever |
| `validacion_script_corto` | `node.rs:329` a block that fulfils both proofs is added | if its last script is so short that fewer than 10 bytes are left from its length on, the slice is out of range and the thread panics (`txout.rs:30`) |
| `ventana_sin_etiqueta` | `wallet.rs:81` if there is a saved file, the accounts are loaded | a transfer with an empty label leaves a line of four words, and `load` indexes a fifth (`wallet.rs:207`): every later start panics |

The models also contain, without a run of their own, smaller disagreements with the documents and
behaviours worth knowing.

* *Listener and synchronisation.* After a `notfound` for a block the thread ends (`RecibirNotFound`), where
  `node.rs:146` and `182-185` go on waiting. While a block is awaited `DescartarMensaje` drops
  inventories of blocks too, not only of transactions (comment at `node.rs:307`): of two
  that wait in the socket after the initial download the second is lost, and with it its block, which no restart asks for, as it
  looks for what follows the last header. Headers are saved before their blocks are downloaded, and a process that
  ends in between leaves blocks that nobody asks for again (`node.rs:87` speaks of checking that they are complete). An
  inventory of mixed types takes that of its first entry (`node.rs:194`). With `cant_max_txn_memoria`
  = 0 (`README.md:26`) `AgregarTransaccion` panics.
* *Download and connection.* With `cant_blocks_por_inv` above 1 (`README.md:21`) `PedirBloque` panics in
  every worker. An empty answer of the DNS seed panics too (`SinDirecciones`); one without IPv4 addresses would
  be drawn from for ever, and `ThreadPoolAssumption` leaves it out. Without a header since `timestamp_bloque_inicial`,
  `HeadersValidosFecha` is the whole vector and not an empty one (`block.rs:120`). When headers are saved
  and no block is stored, because the process died in between or no peer delivered any, the next start has
  nothing to download, and without the directory `obtain_utxo` fails (`utxo.rs:40`) and the process ends: so
  does every start, until a block is announced and stored before that point. `Sincroniza` is stated from the
  first block stored. (A death between the creation of the directory and that of its first file is left out.) A death between the
  two writes of a `writeln!` makes the next process join two headers in one line, of which only the
  first is read (`getheaders.rs:77`; `ArchivoRecupera` fails if `LineaPartida` is TRUE); half a block
  file ends every later start in `obtain_utxo` (`main.rs:88`), the other premise of `Sincroniza`.
* *Validation.* An exponent below 3 or from 32 on panics in `proof_of_work`. A block
  without transactions would never end the recursion over the levels, and `ValidacionAssumption` leaves it out.
* *Server.* A message that is ignored (`server.rs:131`, `169`) has its header read and not its payload:
  `Ignorar` leaves it for `LeerDesfasado`. After a block is received twice the index of `HeaderIndex`
  has the position of its copy, not its height (`server.rs:186`). The inventory of a block that
  `validar_bloque` rejects (`node.rs:365-372` returns `Ok`) and of a transaction that did not come
  (`node.rs:259`) is announced like the others (`node.rs:224`), and who asks for it gets a notfound
  (`NoSeObtiene`); `LoObtenidoSeEntrega` speaks of what was obtained. A transaction that comes again is
  remembered again and pushes an older one out (`Recordar`). The `notfound`
  (`server_messages.rs:319`) names the hash of the item that was asked for, not the item, and always as
  a block (`inv.rs:22`). A handler that ends leaves its connection open while the register has it
  (`server_notification.rs:18-21` speaks of errors of writing only), and a client that comes back from
  an address that is still there hears of nothing.
* *Wallet.* To open both readings of the directory at once (`utxo.rs:38`) does not make them read the
  same files, and it is the later events that repair the set (`UtxosConvergen`). A transaction
  confirmed while the process was down stays pending, since the blocks downloaded at the start send
  no event. Two transfers in a row may spend the same output, which nothing reserves (`wallet_txn.rs:65`).
* *Window.* Nobody looks at the text to pay to (`gui.rs:131`). One that decodes to fewer than four bytes,
  such as the empty one that the button Clear leaves, panics in the wallet's thread when it cuts the
  checksum, if the sender has enough to come that far (`account.rs:67`, `TransferirACorta`); one that does not
  decode is paid to an empty hash (`account.rs:120`); and one with a blank is saved as two words, so that
  the next process reads every later word of the entry one place off, and the Merkle proof of its row, once
  it is sent, opens a file that does not exist (`gui.rs:389`). The balance shown may be stale: a
  block changes the outputs of every account (`wallet_events.rs:364-366`) and sends only the accounts that
  it pays (`375-392`), so that one that it only spends from, by a transfer without change, keeps its old
  balance in the window until something else sends it, where the comment at `gui_events.rs:82` has the
  window updated whenever money is sent. `VistaAlDia` names this exception. `Agregar` lists an alias, for good, before its keys are looked at. The account shown is any one that
  changed, and not that of the alias that is selected (comment at `gui_events.rs:82`). The pending
  list has the first five of those sent followed by those received, and not some of each
  (`gui_events.rs:177-180`). An alias that is empty or has a space, or a label that contains a keyword
  of the file, makes `load` panic or lose entries, like the empty label of `ventana_sin_etiqueta`.

### Assumptions of the runs

* *Fairness.* `FairSpec` asks for weak fairness of the threads' own steps, since the operating system
  schedules them, and of the peer's answers. Failures, closings, new blocks and deaths are never
  forced. Nothing is assumed about the order in which a mutex serves its waiters, nor is strong
  fairness used.
* *A peer answers or hangs up.* No read has a timeout, so liveness needs it. In `listener_respuestas`
  inventories are of one block or of transactions only, and each missing item gets its own notfound
  (`NotFoundPorItem`): one notfound for several transactions leaves `recibir_transaccion` waiting for
  a message that will not come.
* *An inventory that is dropped while a block is awaited* is lost in the code, and no property hides it:
  `ArchivoRecupera`, `SinHuecos` and `Sincroniza` of `chainsync_reinicios` except exactly the blocks of
  `perdidos`, and `BloqueSeGuarda` of `listener_respuestas` is about the blocks whose inventory was read.
* *`BloquesDelProceso`* speaks of the headers that one process added. Those of a process that died before it
  downloaded their blocks are never asked for again, as said above.
* *`LineaPartida`* = FALSE in `chainsync_reinicios`: the process does not end between the two writes
  of a `writeln!`.
* *The clients of the server.* In `server_clientes` a client reads what it is sent or hangs up
  (`EscribirAviso` or `PerderAviso`, `Responder` or `PerderRespuesta`); one that does neither
  keeps the register or the vector locked for everybody, the listener included, as no write has a timeout:
  `AvisosAlDia`, `PedidoTermina` and, in `HeaderIndex`, `PedidoSeResponde` do not cover it. Nobody has to
  connect, to ask or to be accepted. Each client has an address of its own.
* *What the user types* in `ventana_cuentas`: aliases of one word, labels that are not empty (they may
  have spaces) and texts to pay to of one word (or short ones, whose transfer is never saved), and none of
  those words contains a keyword of the file. This is `Legible`, together with the same of the accounts'
  addresses, which are base58, and of the names of transactions and blocks, which are hexadecimal. Nothing in the
  code asks for it: it is a condition of `NadieEntraEnPanico` and `ArchivoSeRecarga`, and so a definition and
  not an assumption of `Ventana`. `MCVentanaLegible` assumes it, the theorems have it as a hypothesis, and
  `ventana_sin_etiqueta` shows what happens without it; the other texts that break it are listed above.
* *The chain of `Wallet`.* What the chain spends was created in it, earlier or in the same block, or by a
  transaction older than the date from which the node has the chain (`Antigua`); others do not spend what
  belongs to the accounts, as they have not the keys. The first is what consensus asks of a chain, of which
  the node sees the end.
* *The list of transactions of a block* is not empty in `Validacion`, and its bytes are bytes (`0..Base - 1`).
  That they are what its sender wrote, with perhaps some more behind, is not assumed by the module: it is
  `BienFormados`, the hypothesis of the theorem about `AceptaLosValidos` (the property compares what is read with
  what was written), and TLC evaluates it for the blocks of the run (`RecibidosBienFormados`).
* Deadlock is not checked where the system may stop: a listener ends after an error, a pool ends, a
  client goes away, and the bounds stop the environment.

## 4. The proofs

`Listener_proofs` proves `TypeOK`, `ArchivoSigueAMemoria`, `BloquesRespaldados`, `EventosEnOrden`,
`AlturasCoinciden`, `VistaRespaldada`, the action property `NadaSePierde` and the refinement `Refina`, for
every set of blocks, transactions and inventories, every initial chain and every bound, from the assumptions
on the constants alone.

The argument has two layers. `TipoInv` adds to `TypeOK` what the thread knows of its locals at each point
(`LocalesOK`: the item being handled is a block while a block is stored, a transaction while one is passed
on, and so on); without it the step that appends `actual` to a vector of headers does not keep its type.
`CadenaInv` is the conjunction of the chain's properties with `Len(headers) >= Len(Base)`. None of them is
inductive alone: that the push keeps the file in step needs the file to be one ahead at that point; that the
wallet's events are in order needs the previous block to have been handed over before the next push; that
the last block alone may lack its file needs the previous one to be complete when a header is pushed, which
`EventosEnOrden` gives. Together they are, and the proof goes action by action. The refinement maps
`AgregarHeader`, `EscribirBloque` and `EnviarBloque` to `Agregar`, `Guardar` and `Publicar`, and every other
step to a stutter.

`HeaderIndex_proofs` proves `TypeOK`, `CandadosEnOrden`, `IndiceCorrecto` and `RespuestaCompleta` for any
number of handlers, any requests, any maximum and a vector of any length, repetitions included. The
invariant is their conjunction and the fact that a handler that serves a request has one. There are two
lemmas about data. `IndexarCompleta`: if the map is right for a prefix of the vector, its size is at most
the length of that prefix (it has one entry per distinct header), so the slice that starts there covers
everything the map has not seen. `RespuestaDebida`: with such a map, what `Respuesta` cuts out of the vector
is what the documentation promises; the longest cut exists because the limits bound it. The mutexes do the
rest: whatever a handler has in hand between two steps, no other thread can have changed the vector or the
map.

`ThreadPool_proofs` proves `TypeOK` and `UnSoloLugar` for any number of workers and of headers. Types need
`indice >= 1`. `UnSoloLugar` (no header twice, none in two hands, none left behind) is inductive with two
more facts: only headers that main has sent are anywhere, so that sending the next one cannot make a second
copy; and a worker whose thread does not exist yet holds nothing and is at its start, so that the number of
threads being built cannot hide work. Each step moves one header between the queue, a worker's hands and the
results, and the proof says from which to which.

`ChainSync_proofs` proves `TypeOK` and `BloquesDelProceso` from the assumptions on the constants alone, and
`ArchivoRecupera` and `SinHuecos` under `~LineaPartida`, the condition of the run, which stands in the
theorems: without it a line of the file may hold two headers. The chain, the page, the dates, the number and
place of the deaths and the moments of the announcements are arbitrary. What is inductive is the state of the
dialogue with the peer (`Dialogo`) together with what is written (`Escrito`). `Cola` says what waits in the
socket: the announcements of the last blocks of the chain, in order, and at most one answer among them, at
the place `q`. `Paso` says what each step of the process awaits: which request is under way, or that the
answer at `q` is the page after the last header or the block that was asked for, and which blocks between
the last header and the first announcement that waits are in `perdidos`. The page that answers the hash of
the last header starts where the vector ends (`PaginaCorrecta`); an announcement that is dropped while a page
is awaited came before the page was cut, so the page has its block, and one that is dropped while a block is
awaited makes its block one of the lost (`DescartarInv`); one that comes after the answer waits until the
listener reads it. A restart reads back a vector whose last header is the hash it asks for (`Lectura`,
`UltimoLeido`), so the induction crosses the deaths. `BloquesDelProceso` rests on `EleccionCompleta` (from the first recent
header on, none that the process added is left out, since the first of a non-empty set of positions exists)
and on the block being stored being the last header's.

`Server_proofs` proves `Refina`: `Server` implements `Difusion` for any connections, addresses and items.
Besides the types of what the announcements depend on, the invariant says that a connection in the register
came from the address it is registered under and was accepted, that a round writes only to connections in
the register, that what it takes out of it is closed, and that a connection that has not been accepted has
heard nothing. The first keeps two addresses from sharing a connection, so that one that joins or leaves
changes what nobody else is due; the last gives `Difusion` its clean start. The mapping: `Notificar` is a
`Publicar`, `Aceptar` a `Sumarse` (a stutter when the address is still registered), `EscribirAviso` an
`Oir`, `Cerrar` an `Irse`; taking a notification, losing a write and cleaning the register after a round are
stutters, as are the handlers' answers.

It also proves `TypeOK` and `LoObtenidoSeEntrega`, an action property: what a handler prepares for a client
when it looks an item up. `MemoriaInv` says that the memory of transactions is the end of the sequence of
those that came, repetitions included, as long as its capacity or as the whole sequence; so the last
`Capacidad` of them are in it (`LoReciente`). `BloquesInv` says that the file of a block that was announced and
obtained is whole, as is that of a block that a client knows, and the listener keeps them so although the
block may come again: it opens the file of a block without emptying it and writes the same bytes over it
(`BloquesPaso`). What the peer announces and what it delivers for it are any pairs.

`Wallet_proofs` proves `TypeOK`, `ArchivoAlDia`, `SaldosAlDia`, `UtxosConvergen` and `ConfirmadaSeAnota` for
any accounts, chain, transfers and deaths, from the assumptions on the constants alone.

For the file and the balances: a block that pays nobody is not saved, so its lists must not change
(`SinMover`: what `Movidas` gives is the empty bag, and adding or removing it leaves a bag as it was), and a
block that pays an account but moves nothing still recomputes its pending balance. Their strengthening is
`FormaInv`: every list, in memory, among the accounts to go back to and on disk, is a bag of transactions
with finitely many outputs, an account and its line in the file have exactly their fields, and the events
that wait are of known transactions. It holds across a save that stops in the middle, so the next start
loads accounts of the same form.

`UtxosConvergen` (the set, once the events that wait are applied to it, is that of the chain) rests on
`CadenaInv`. The events in the channel and the block that is still to be sent are the end of the chain
(`ColaInv`): there is a length of the chain for each place of the queue. For the one at its head the set is
up to date in a sense that survives the two readings of the directory (`AlDia`): it has nothing that the
chain never created or that the prefix spent, and it has all that the prefix created and the chain does not
spend. An exact equality would not be inductive, since a start may have read any of the blocks whose events
are still to come, with one reading and not with the other. Applying an event moves this from one prefix to
the next; that a block applied a second time brings back nothing spent needs `Causal`: an output is spent
after it is created, or in the same block.

`TypeOK` needs that the sum over a bag of numbers is a number: `MapThenSumSet` is a fold over a finite set,
and the section of the sums unfolds it one element at a time; `TipoInv` keeps every amount a number and the
lists finite. `ConfirmadaSeAnota` speaks of every block that the wallet has processed and not only of the
last one, so it must not be undone later. `CobroInv` says that a payment of others is pending in an account
at most as many times as it has outputs to it, and only after its event was taken from the channel, where it
is once: the passes of its block, one for each of those outputs, clear it, and nothing enters it again,
because the channel has no event of a transaction that a processed block has (`ColaInv`). `VistasInv` adds
that the transfer being made (`nueva`) is in no processed block; it is told from a transaction of others by
what it spends, which is an account's.

`Validacion_proofs` proves `TypeOK` and `CaminoCorrecto` for any base, target, block and number of
transactions, repeated or not, and `AceptaLosValidos` for the blocks whose bytes are what their sender wrote. `LecturaInv` says that the reader stays within the bytes and the count it has
read. The path is right because the two functions that build the tree build the same one: `PisosInv` names
the levels that the first went through (each half of the one before, its last hash repeated if it is odd)
and says that the tree of the second is those levels; `CaminoInv`, that the fold of the path so far is the
hash at the position that it has reached. A step up takes the neighbour, and the fold with it is the hash of
the pair, which is the one above, at half the position; at the top this is the root that the header has, as
the proof of inclusion has compared it. `Plegar` is a recursive function, of which one lemma says what one
more element does.

`AceptaLosValidos` rests on three results about the operators and on one more invariant.
* *The proof of work* (`CumpleEsMenor`). The code compares bytes, the property numbers. `Division` and
  `UnaCifraMas` give a number as its digits in base `Base`; of two numbers, the first digit in which they
  differ says which is smaller (`PrimeraDistinta`); and the bytes of the target are the digits of
  `mantissa * Base^(exponent - 3)` (`TargetDe`), for every exponent that does not panic.
* *The root* (`NivelesHastaLaRaiz`). The levels that the code goes through, each made from the one before, are
  the rows of the tree that `RaizDe` reads from above: the row at height `h` has `ceil(n / 2^h)` nodes, and the
  first row of one node is where the code stops.
* *The reading* (`FromBytesEs`). `Esta(b, i, s)` says that the bytes `s` are in `b` from the index `i` on. What is
  written is a concatenation of parts, each of which is somewhere in the bytes (`EstaCadaParte`), so a
  reader at the start of a part gives back what was written in it and ends at the start of the next
  (`LeerNumeroEs`, `LeerScriptEs`, `LecturasDe`). Every slice of ten bytes for a number has what follows it
  to fill it, but for the length of the last script: the theorem gives the exact condition, which for the last
  transaction of a block is `SePuedeLeer`, and for the others always holds.
* *The invariant* (`FielInv`). The transactions read so far are the first of those written, the index is where
  the next one starts, and each later phase keeps what the one before it has compared. With `PisosInv` it
  gives the property.

`Ventana_proofs` proves `TypeOK`, `NadieEntraEnPanico`, `VistaAlDia` and `ArchivoSeRecarga` for any aliases,
labels, addresses, texts to pay to, transactions and blocks that are `Legible`, any number of processes and
queues of any length. The invariant has two halves, one for the lists (`IInv`) and one, that rests on it, for the
balances (`SaldosInv`). `IInv` has a part for each place where an account may be: `CuentasBuenas` in memory,
`AvisosBuenos` on its way to the window, `VentanaBuena` in its rows, `ArchivoInv` in the file. In all of
them an entry has a label of one word and no keyword, which is what makes the next start possible, and one
of those sent has the block in which it is (a row received has none), which is what makes its Merkle proof
possible: the block is written before its event is sent (`RedInv`, `CanalBueno`), and the network only grows
(`Crece`), so a copy stays good however old it is. `VistaAlDia` is inductive with `Respondida`: the account
selected has been asked for, or answered. It holds because `Agregar` sends the two events in one order
(`CanalBueno`: what is added is asked for next), so an account that did not exist when it was asked for is
not added later without another request.

`SaldosInv` says that the balance of the last copy on its way to the window, or of the one shown, takes into
account the first of the blocks applied, and that those it misses pay nothing to the account (`SaldoAl`). A
block that pays an account sends its copy after the balance was brought up to date, so the copy misses
nothing (`Recorrer` starts from `Intactas`); one that does not joins those missed. A block that was applied
stays what it was (`Conserva`): no transaction changes its outputs, which for the transfers of this wallet
needs that their names are used in order and never twice (`NombresInv`).

`ArchivoSeLee` is the round trip: `load` gives back what `save` writes, accounts in any order and any number
of entries. `Leida(L, texto, M)` says that reading `texto` from the state `L` ends in `M`; it composes over
the concatenation of texts, so the proof goes from a line to a section, an account and the file, and no
function defined by recursion over the file is looked into again. The passes over lists, in it and in
`Recorrer`, are inductions on a number; as the library's theorem takes an operator, `Induccion` states it
for a set of numbers (a set with 0 and the next of each of its members is all of them).

Only model-checked: liveness (`InvSeAtiende`, `BloqueSeGuarda`, `Termina`, `PedidoSeResponde`, `Sincroniza`,
`PedidoTermina`, `AvisosAlDia`), which needs `ENABLED`, out of the provers' reach. Every invariant, action
property and refinement that a run checks is proved.

## 5. The plan

1. Inventories of several items in `Server`, and a handler of `HeaderIndex` in place of its one step.
2. What the balances of the window are worth, and the rows of `obtain_utxo_info`, over the set of `Wallet`.

Not modelled: the forms, dialogs, list of blocks and style of the window; logger, configuration parsing,
error conversions, signatures and the layout of the other messages.
